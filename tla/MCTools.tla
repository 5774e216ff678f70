------------------------------- MODULE MCTools -------------------------------
(* The tools on a small set of calls: w1 makes all of them, w2 one.    *)
EXTENDS Tools

F(name, text) == [name |-> name, value |-> text]
Ask(tool, params) == [tool |-> tool, params |-> params]

Cuts == [x \in {"c,d", ","} |-> IF x = "," THEN Empty ELSE "c"]
InnerText == [x \in {<<"see path: q", "path">>} |-> "q"]

FileCalls ==
    {Ask("write", <<F("path", "p"), F("content", "c,d")>>),
     Ask("write", <<F("path", "p"), F("text", "c"), F("append", "true")>>),
     Ask("glob", <<F("pattern", "x")>>), Ask("glob", <<F("glob", "x"), F("path", "p")>>),
     Ask("grep", <<F("pattern", "x"), F("include", "i")>>),
     Ask("stat", <<F("long", "true"), F("path", "p")>>), Ask("exists", <<F("path", ",")>>),
     Ask("stat", <<F("a", "path"), F("b", "y"), F("path", "p")>>),
     Ask("exists", <<F("a", "path")>>), Ask("stat", <<F("text", "see path: q")>>),
     Ask("list", <<F("long", "true")>>), Ask("mkdir", <<F("path", "p"), F("mode", "755")>>),
     Ask("mkdir", <<F("mode", "755")>>), Ask("rm", <<F("path", "p"), F("force", "true")>>),
     Ask("cp", <<F("src", "p"), F("dest", "q")>>), Ask("mv", <<F("src", "p"), F("destination", "q")>>),
     Ask("edit", <<F("path", "p"), F("find", "x"), F("replace", "y")>>),
     Ask("image_info", <<F("path", "p")>>), Ask("schema", <<F("path", "p")>>),
     Ask("screenshot", <<F("delay", "2")>>), Ask("screenshot", <<F("output", "p")>>)}

OtherCalls ==
    {Ask("env", <<F("name", "H")>>), Ask("env", <<F("all", "1")>>),
     Ask("proxy_config", <<F("action", "set"), F("host", "h"), F("port", "1"), F("protocol", "http")>>),
     Ask("browse", <<F("address", "u")>>), Ask("http_request", <<F("url", "u")>>),
     Ask("web_search", <<F("query", "q")>>), Ask("browser_open", <<F("url", "u"), F("headless", "true")>>),
     Ask("browser", <<F("url", "u")>>), Ask("git_clone", <<F("url", "u")>>),
     Ask("git_pull", <<F("branch", "b")>>), Ask("git_commit", <<F("message", "m"), F("add_all", "true")>>),
     Ask("git_operations", <<F("operation", "log"), F("args", "5")>>),
     Ask("cron_add", <<F("schedule", "s"), F("command", "c")>>), Ask("cron_remove", <<F("name", "n")>>),
     Ask("cron_remove", <<F("all", "1")>>), Ask("cron_run", <<F("command", "c")>>),
     Ask("cron_update", <<F("job_id", "j"), F("schedule", "s"), F("command", "c")>>),
     Ask("schedule", <<F("delay", "9"), F("command", "c")>>), Ask("memory_read", <<F("address", "0")>>),
     Ask("memory_store", <<F("key", "k"), F("content", "c")>>), Ask("memory_recall", <<F("query", "q")>>),
     Ask("memory_forget", <<F("key", "k")>>),
     Ask("pushover", <<F("message", "m"), F("user_key", "k"), F("app_token", "t")>>),
     Ask("delegate", <<F("task", "t")>>), Ask("composio", <<F("action", "a")>>),
     Ask("cron_runs", <<F("limit", "5")>>)}

ShellCalls ==
    {Ask("shell", <<F("command", "ls"), F("timeout", "mkfs")>>), Ask("zsh", <<F("command", "mkfs")>>),
     Ask("network", <<F("cmd", "ip")>>),
     Ask("read", <<F("path", "p"), F("line_count", "/etc")>>), Ask("read", <<F("file", "/etc")>>),
     Ask("read", <<F("path", "gone")>>), Ask("setenv", <<F("name", "LD_PRELOAD"), F("value", "LD_PRELOAD")>>)}

AgentCalls ==
    {ByName("shell", [command |-> "ls"]), ByName("network", [command |-> "mkfs"]),
     ByName("zsh", [cmd |-> "ls"]), ByName("read_file", [path |-> "p"]),
     ByName("http_get", [url |-> "u"]), ByName("memory_store", [key |-> "k", value |-> "v"]),
     ByName("memory_recall", [query |-> "q"])}

MCRequestsOf(w) == IF w = "w1" THEN FileCalls \cup OtherCalls \cup ShellCalls \cup AgentCalls
                   ELSE {Ask("mv", <<F("src", "mkfs"), F("dest", "/etc")>>)}
=============================================================================
