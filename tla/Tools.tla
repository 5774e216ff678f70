-------------------------------- MODULE Tools --------------------------------
(***************************************************************************)
(* src/src/tools/tools.c: the handlers of the tools and the parser they    *)
(* share.  parse_string_param returns a pointer into one static buffer,    *)
(* which every call clears first, whichever worker makes it: all pointers  *)
(* a handler has collected point to what the last call has found.          *)
(* A handler is described by the keys it asks for, in order, and those it  *)
(* cannot do without.  What it then does is one step in which it reads the *)
(* buffer; whether that succeeds, its own checks of an address or a path   *)
(* included, is left open.                                                 *)
(***************************************************************************)
EXTENDS Naturals, Sequences, FiniteSets, SequencesExt, FiniteSetsExt, Selection

CONSTANTS ToolWorkers,      \* the workers that run tools
          RequestsOf(_),    \* the calls a worker makes: [tool, params], params a
                            \* sequence of fields [name, value]
          Heads,            \* values with a comma, a quote or a brace: what is before it
          Embedded,         \* Embedded[<<v, k>>]: what follows k: in the text v, cut
          Dangerous,        \* texts with one of the DANGEROUS_PATTERNS
          Outside,          \* paths that resolve to a place outside the workspace
          Unresolved        \* paths that realpath cannot resolve

ASSUME ToolsAssumption == \A w \in ToolWorkers : \A r \in RequestsOf(w) : DOMAIN r.params \subseteq Nat

VARIABLES value,   \* the static buffer of parse_string_param
          call,    \* call[w]: the handler that worker w runs
          did      \* did[w]: what the last handler of w has done

toolVars == <<value, call, did>>

\* The empty string.
Empty == "empty"

\* on: the text a handler acted on, <<>> if it has returned an error.
Idle == [pc |-> "idle", tool |-> Empty, params |-> <<>>, todo |-> <<>>, got |-> {},
         local |-> Empty, alone |-> TRUE]
Nothing == [tool |-> Empty, params |-> <<>>, on |-> <<>>, alone |-> TRUE]

ToolsInit == /\ value = Empty
             /\ call = [w \in ToolWorkers |-> Idle] /\ did = [w \in ToolWorkers |-> Nothing]
-----------------------------------------------------------------------------
(* The handlers. *)

\* Ask for a key; ask for it only if none of some other keys was found; ask for
\* it only after the handler has seen that it has what it needs.
Key(k) == [key |-> k, unless |-> {}, later |-> FALSE]
Or(k, others) == [key |-> k, unless |-> others, later |-> FALSE]
Later(k) == [key |-> k, unless |-> {}, later |-> TRUE]
AskFor(ks) == [i \in DOMAIN ks |-> Key(ks[i])]

\* needs: sets of keys, of each of which one has to be found.
Handler(keys, needs) == [keys |-> keys, needs |-> needs, copies |-> FALSE, rest |-> <<>>]

\* The first value is copied and checked before the keys in rest are parsed.
Copying(keys, rest) == [keys |-> keys, needs |-> {}, copies |-> TRUE, rest |-> AskFor(rest)]

tool_shell_execute == Copying(AskFor(<<"command">>), <<"timeout">>)
tool_zsh_execute == Copying(AskFor(<<"command">>), <<"timeout">>)
tool_network_execute == Copying(AskFor(<<"command">>), <<"timeout">>)
tool_file_read_execute == Copying(<<Key("path"), Or("file", {"path"})>>,
                                  <<"line_start", "line_count">>)
tool_file_write_execute ==
    Handler(AskFor(<<"path", "content", "append">>)
            \o <<[Or("text", {"content"}) EXCEPT !.later = TRUE], Or("data", {"content", "text"})>>,
            {{"path"}})
tool_glob_execute == Handler(<<Key("pattern"), Key("path"), Or("glob", {"pattern"})>>,
                             {{"pattern", "glob"}})
\* path is asked for twice.
tool_grep_execute == Handler(AskFor(<<"pattern", "path", "path", "include">>), {{"pattern"}})
tool_stat_execute == Handler(AskFor(<<"path">>), {{"path"}})
tool_list_execute == Handler(AskFor(<<"path", "all", "long">>), {})
tool_mkdir_execute == Handler(<<Key("path"), Later("parents"), Key("mode")>>, {{"path"}})
tool_rm_execute == Handler(<<Key("path"), Later("recursive"), Key("force")>>, {{"path"}})
tool_cp_execute == Handler(AskFor(<<"src", "dest", "destination">>) \o <<Later("recursive")>>,
                           {{"src"}, {"dest", "destination"}})
tool_mv_execute == Handler(AskFor(<<"src", "dest", "destination">>),
                           {{"src"}, {"dest", "destination"}})
tool_exists_execute == Handler(AskFor(<<"path">>), {{"path"}})
tool_edit_execute == Handler(AskFor(<<"path", "find", "replace">>), {{"path"}, {"find"}})
tool_image_info_execute == Handler(AskFor(<<"path">>), {{"path"}})
\* A missing strategy is handed to strcmp, where the program ends.
tool_schema_execute == Handler(AskFor(<<"path", "strategy">>), {{"path"}, {"strategy"}})
tool_screenshot_execute == Handler(AskFor(<<"output", "full_screen", "delay">>), {})
\* Without a name everything is printed.
tool_env_execute == Handler(AskFor(<<"name">>), {})
tool_setenv_execute == Handler(AskFor(<<"name", "value">>), {{"name"}})
tool_proxy_config_execute == Handler(AskFor(<<"action", "host", "port", "protocol">>),
                                     {{"action"}})
tool_browse_execute == Handler(<<Key("url"), Or("address", {"url"}), Later("max_length")>>,
                               {{"url", "address"}})
tool_http_request_execute ==
    Handler(AskFor(<<"url", "method", "body", "headers", "max_length">>), {{"url"}})
tool_web_search_execute == Handler(AskFor(<<"query", "num_results">>), {{"query"}})
tool_browser_open_execute == Handler(AskFor(<<"url", "headless">>), {{"url"}})
tool_browser_execute == Handler(AskFor(<<"url", "action", "selector">>), {{"url"}})
tool_git_clone_execute == Handler(AskFor(<<"url", "directory">>), {{"url"}})
tool_git_pull_execute == Handler(AskFor(<<"path", "branch">>), {})
tool_git_commit_execute == Handler(AskFor(<<"path", "message", "add_all">>), {{"message"}})
tool_git_operations_execute == Handler(AskFor(<<"operation", "args", "path">>), {{"operation"}})
tool_cron_add_execute == Handler(AskFor(<<"schedule", "command", "name">>),
                                 {{"schedule"}, {"command"}})
\* Without a line and a name the whole crontab is removed.
tool_cron_remove_execute == Handler(AskFor(<<"name", "line">>), {})
tool_cron_run_execute == Handler(AskFor(<<"command">>), {{"command"}})
tool_cron_runs_execute == Handler(AskFor(<<"job_id", "limit">>), {})
tool_cron_update_execute == Handler(AskFor(<<"job_id", "schedule", "command">>),
                                    {{"job_id"}, {"schedule"}})
tool_schedule_execute == Handler(AskFor(<<"delay", "command">>), {{"command"}})
tool_hardware_memory_read_execute == Handler(AskFor(<<"address", "length">>), {{"address"}})
\* These only say something: nothing is stored, sent or delegated.
tool_memory_store_execute == Handler(AskFor(<<"key", "content", "namespace">>),
                                     {{"key"}, {"content"}})
tool_memory_recall_execute == Handler(AskFor(<<"query", "namespace">>), {{"query"}})
tool_memory_forget_execute == Handler(AskFor(<<"key", "namespace">>), {{"key"}})
tool_pushover_execute == Handler(AskFor(<<"message", "user_key", "app_token", "title">>),
                                 {{"message"}, {"user_key"}, {"app_token"}})
tool_delegate_execute == Handler(AskFor(<<"agent", "task">>), {{"task"}})
tool_composio_execute == Handler(AskFor(<<"action", "entity", "params">>), {{"action"}})

\* The names of tools_execute, without their synonyms.
Handlers ==
    [shell |-> tool_shell_execute, zsh |-> tool_zsh_execute, network |-> tool_network_execute,
     read |-> tool_file_read_execute, write |-> tool_file_write_execute,
     glob |-> tool_glob_execute, grep |-> tool_grep_execute, browse |-> tool_browse_execute,
     stat |-> tool_stat_execute, list |-> tool_list_execute, mkdir |-> tool_mkdir_execute,
     rm |-> tool_rm_execute, cp |-> tool_cp_execute, mv |-> tool_mv_execute,
     env |-> tool_env_execute, setenv |-> tool_setenv_execute, exists |-> tool_exists_execute,
     edit |-> tool_edit_execute, http_request |-> tool_http_request_execute,
     web_search |-> tool_web_search_execute, screenshot |-> tool_screenshot_execute,
     image_info |-> tool_image_info_execute, git_clone |-> tool_git_clone_execute,
     git_pull |-> tool_git_pull_execute, git_commit |-> tool_git_commit_execute,
     cron_add |-> tool_cron_add_execute, cron_remove |-> tool_cron_remove_execute,
     cron_run |-> tool_cron_run_execute, memory_read |-> tool_hardware_memory_read_execute,
     memory_store |-> tool_memory_store_execute, memory_recall |-> tool_memory_recall_execute,
     memory_forget |-> tool_memory_forget_execute, schedule |-> tool_schedule_execute,
     pushover |-> tool_pushover_execute, delegate |-> tool_delegate_execute,
     composio |-> tool_composio_execute, browser_open |-> tool_browser_open_execute,
     browser |-> tool_browser_execute, git_operations |-> tool_git_operations_execute,
     cron_runs |-> tool_cron_runs_execute, cron_update |-> tool_cron_update_execute,
     proxy_config |-> tool_proxy_config_execute, schema |-> tool_schema_execute]
-----------------------------------------------------------------------------
(* parse_string_param. *)

Cut(v) == IF v \in DOMAIN Heads THEN Heads[v] ELSE v

\* Mistake: the search begins behind the first field.
FoundLate(params, key) ==
    LET named == {i \in DOMAIN params \ {1} : params[i].name = key}
    IN  IF named = {} THEN {} ELSE {Cut(params[Min(named)].value)}

\* What parse_string_param copies for a key, {} if it finds none.  The first "key"
\* in quotes may be the name of a field or the whole of a value, and then the next
\* colon is that of the next field; without one, the first key: in the text counts.
Lookup(params, key) ==
    LET quoted == {i \in DOMAIN params : params[i].name = key \/ params[i].value = key}
        inside == {i \in DOMAIN params : <<params[i].value, key>> \in DOMAIN Embedded}
        first == Min(quoted)
    IN  IF quoted /= {}
        THEN IF params[first].name = key THEN {Cut(params[first].value)}
             ELSE IF first < Len(params) THEN {Cut(params[first + 1].value)} ELSE {}
        ELSE IF inside /= {} THEN {Embedded[<<params[Min(inside)].value, key>>]} ELSE {}

\* The other handlers under way lose what they have found.
Disturb(c, w) == [u \in ToolWorkers |-> IF u = w THEN c
                                       ELSE IF call[u].pc = "idle" THEN Idle
                                       ELSE [call[u] EXCEPT !.alone = FALSE]]

AllIdle == \A u \in ToolWorkers : call[u].pc = "idle"

Filling(w) == \E u \in ToolWorkers \ {w} : call[u].pc = "fill"

\* What reading the buffer may give while another worker writes to it.
Seen(w) == {value} \cup IF Filling(w) THEN {"torn"} ELSE {}

HasNeeds(c) == \A ks \in Handlers[c.tool].needs : ks \cap c.got /= {}

\* On to the next key that has to be asked for, or to what follows.
Advance(c) ==
    LET todo == Picked(c.todo, {i \in DOMAIN c.todo : c.todo[i].unless \cap c.got = {}})
        ends == todo = <<>> \/ (Head(todo).later /\ ~HasNeeds(c))
    IN  [c EXCEPT !.todo = todo,
                  !.pc = IF ~ends THEN "clear"
                         ELSE IF Handlers[c.tool].copies /\ c.local = Empty THEN "copy" ELSE "act"]

\* agent_execute_tool_by_name: what the agent makes of a call by one of the names
\* it offers.  A command or a query is handed on as it is, without its key, and
\* two of the names are not those of tools_execute.
Raw(text) == <<[name |-> Empty, value |-> text]>>
ByName(name, args) ==
    LET key == IF name \in {"shell", "zsh", "network"} THEN "command"
               ELSE IF name = "read_file" THEN "path"
               ELSE IF name = "http_get" THEN "url" ELSE "query"
    IN  IF name = "memory_store"
        THEN [tool |-> name, params |-> <<[name |-> "key", value |-> args.key],
                                          [name |-> "value", value |-> args.value]>>]
        ELSE IF key \in DOMAIN args THEN [tool |-> name, params |-> Raw(args[key])]
        ELSE [tool |-> Empty, params |-> <<>>]

\* tools_execute.  For a name it does not know it leaves result and error empty
\* (which agent_execute_tool_by_name reports as a success); Empty stands for
\* arguments that it could not parse.
Call(w) ==
    /\ call[w].pc = "idle"
    /\ \E r \in RequestsOf(w) :
          IF r.tool \in DOMAIN Handlers
          THEN call' = [call EXCEPT ![w] =
                           Advance([Idle EXCEPT !.tool = r.tool, !.params = r.params,
                                                !.todo = Handlers[r.tool].keys,
                                                !.alone = AllIdle])]
          ELSE UNCHANGED call
    /\ did' = [did EXCEPT ![w] = Nothing]
    /\ UNCHANGED value

Clear(w) ==
    /\ call[w].pc = "clear"
    /\ value' = Empty
    /\ call' = Disturb([call[w] EXCEPT !.pc = "fill"], w)
    /\ UNCHANGED did

\* The value, cut at the first comma, quote or brace; NULL if there is none or
\* nothing is left of it.
Fill(w) ==
    /\ call[w].pc = "fill"
    /\ LET key == Head(call[w].todo).key
           text == Lookup(call[w].params, key)
       IN  /\ value' \in IF text = {} THEN {value} ELSE text \cup (Seen(w) \cap {"torn"})
           /\ call' = Disturb(Advance([call[w] EXCEPT !.todo = Tail(@),
                                 !.got = @ \cup IF text = {} \/ value' = Empty THEN {} ELSE {key}]), w)
    /\ UNCHANGED did
-----------------------------------------------------------------------------
(* The rest of a handler. *)

\* on: what it acts on.
Did(c, on) == [Nothing EXCEPT !.tool = c.tool, !.params = c.params, !.on = on, !.alone = c.alone]

Finish(w, d) == did' = [did EXCEPT ![w] = d] /\ call' = [call EXCEPT ![w] = Idle]

\* The checks of a command; the shell policy is never initialised and accepts all.
check_dangerous_command(text) == text \notin Dangerous

\* canonicalize_path and the comparison with the workspace.
in_workspace(path) == path \notin Outside \cup Unresolved

Checked(tool, text) == /\ text /= Empty
                       /\ IF tool = "read" THEN in_workspace(text) ELSE check_dangerous_command(text)

\* The handlers that copy what they use: the command, or all of the parameters
\* if there is none; the path, which has to be there.
Copy(w) ==
    /\ call[w].pc = "copy"
    /\ \E text \in IF call[w].got /= {} THEN Seen(w)
                   ELSE IF call[w].tool = "read" THEN {Empty}
                   ELSE IF Len(call[w].params) = 1 /\ call[w].params[1].name = Empty
                   THEN {call[w].params[1].value} ELSE {"all"} :
          IF Checked(call[w].tool, text)
          THEN /\ call' = [call EXCEPT ![w] =
                              Advance([@ EXCEPT !.local = text,
                                                !.todo = Handlers[call[w].tool].rest])]
               /\ UNCHANGED did
          ELSE Finish(w, Did(call[w], <<>>))
    /\ UNCHANGED value

\* Mistake: a command is taken from the buffer, not from the copy.
CopiedBuffer(w) == value

Copied(w) == call[w].local

\* The copied text for the handlers that copy; for the others what every pointer
\* that is not NULL points to.
ActsOn(w) ==
    IF Handlers[call[w].tool].copies THEN <<Copied(w)>>
    ELSE IF ~HasNeeds(call[w]) THEN <<>>
    ELSE IF call[w].got = {} THEN <<"NULL">> ELSE <<value>>

Act(w) ==
    /\ call[w].pc = "act"
    /\ \E on \in {ActsOn(w), <<>>} : Finish(w, Did(call[w], on))
    /\ UNCHANGED value

ToolsNext == \E w \in ToolWorkers : Call(w) \/ Clear(w) \/ Fill(w) \/ Copy(w) \/ Act(w)

ToolsSpec == ToolsInit /\ [][ToolsNext]_toolVars
-----------------------------------------------------------------------------
Shells == {"shell", "zsh", "network"}

\* What a shell runs and what read opens is what was checked, whatever the other
\* workers parse meanwhile and whatever else the handler itself has parsed since.
RunsWhatItChecked ==
    \A w \in ToolWorkers :
        did[w].tool \in Shells \cup {"read"} /\ did[w].on /= <<>> =>
            Checked(did[w].tool, did[w].on[1])

\* No value in the request is the key or has it with a colon inside.
Plain(params, key) ==
    \A i \in DOMAIN params :
        params[i].value /= key /\ <<params[i].value, key>> \notin DOMAIN Embedded

\* The value that the first field of this name gives, "NULL" if nothing is left of it.
Given(params, key) ==
    LET named == {i \in DOMAIN params : params[i].name = key}
        text == IF named = {} THEN Empty ELSE Cut(params[Min(named)].value)
    IN  IF text = Empty THEN "NULL" ELSE text

\* A tool that asks for one key acts on this key's value and on nothing left in the
\* buffer by an earlier call, if no other worker came in between and no value in
\* the request reads like the key.
OneKeyIsFaithful ==
    \A w \in ToolWorkers :
        LET d == did[w]
            h == Handlers[d.tool]
        IN  d.alone /\ d.on /= <<>> /\ ~h.copies /\ h.keys = <<Key(h.keys[1].key)>> =>
                LET key == h.keys[1].key
                IN  Plain(d.params, key) => d.on[1] = Given(d.params, key)

\* The checks in front of the tools hold for what the tools then do.
ToolsFaithful == RunsWhatItChecked /\ OneKeyIsFaithful
=============================================================================
