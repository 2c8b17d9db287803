--------------------------------- MODULE McpTool --------------------------------
(***************************************************************************)
(* The governed MCP tool: discover_tool pins one tool of a server to the   *)
(* definition the configuration trusts; every invocation starts a server   *)
(* of its own, lists its tools again and calls the tool only if it is      *)
(* still the pinned one.  invoke_managed_tool_port waits for the           *)
(* invocation under the run's cancellation and deadline and terminates it  *)
(* when one of these wins.                                                 *)
(*                                                                         *)
(* The server is external: it may list anything, answer anything, fork a   *)
(* helper into its process group, end or hang.  A fingerprint is modelled  *)
(* by the definition it is of.                                             *)
(***************************************************************************)
EXTENDS Integers, FiniteSets, Sequences

CONSTANTS
    Wanted,         \* remote_name of the mapping
    OtherTool,      \* any other name a server lists
    Definitions,    \* definitions a server may give a tool
    Pinned,         \* expected_fingerprint
    Unsupported,    \* definitions outside the schema profile
    Cursors,        \* continuation cursors
    NoCursor,       \* a page without nextCursor
    MaxPages,       \* StdioServerConfig: pages,
    MaxTools,       \* tools
    MaxMessages     \* and messages read for one response

ASSUME McpAssumption ==
    /\ Wanted # OtherTool
    /\ Pinned \in Definitions
    /\ NoCursor \notin Cursors
    /\ MaxPages \in Nat \ {0} /\ MaxTools \in Nat \ {0} /\ MaxMessages \in Nat \ {0}

VARIABLES
    registered, \* whether the tool is registered, and with which capability
    use,        \* "discover" or "invoke": what the session is for
    step,       \* where the session is
    read,       \* messages read for the response that is awaited
    cursors,    \* cursors seen in the listing
    listed,     \* the tools listed in the session, in order
    pages,      \* the pages read
    sent,       \* history: tools/call requests sent in the session
    ended,      \* result of the session's work
    returned,   \* what the caller got
    child,      \* the server process
    helper      \* a process the server forked

sessionVars == <<read, cursors, listed, pages, sent>>
mcpVars == <<registered, use, step, sessionVars, ended, returned, child, helper>>

Tools == [name : {Wanted, OtherTool}, definition : Definitions]

McpInit ==
    /\ registered = "no"
    /\ use = "discover"
    /\ step = "idle"
    /\ read = 0 /\ cursors = {} /\ listed = <<>> /\ pages = 0 /\ sent = 0
    /\ ended = "-"
    /\ returned = "-"
    /\ child = "none"
    /\ helper = "none"

--------------------------------------------------------------------------------
(* Sessions.                                                               *)

(* Session::spawn, in a process group of its own.                          *)
Open(kind) ==
    /\ step \in {"idle", "settled"}
    /\ use' = kind
    /\ \/ step' = "initialize" /\ child' = "running" /\ returned' = "-"
       \/ step' = "settled" /\ child' = "none" /\ returned' = "Unavailable"
    /\ helper' = "none"
    /\ ended' = "-"
    /\ read' = 0 /\ cursors' = {} /\ listed' = <<>> /\ pages' = 0 /\ sent' = 0
    /\ UNCHANGED registered

discover_tool == registered = "no" /\ Open("discover")

(* A tool that is not ReadOnly is never dispatched through MCP.            *)
start_managed ==
    /\ registered = "ReadOnly"
    /\ Open("invoke")

start_refused ==
    /\ registered = "LocalWrite"
    /\ step = "settled" /\ returned # "AdapterFailure"
    /\ returned' = "AdapterFailure"
    /\ UNCHANGED <<registered, use, step, sessionVars, ended, child, helper>>

Signalled(process) == IF process = "running" THEN "killed" ELSE process

(* Mutant: the server is killed and not its group.                         *)
KillLeader == child' = Signalled(child) /\ UNCHANGED helper

(* signal_process_group and start_kill: the leader and, in its group, the  *)
(* helper, also when the leader has ended, since it is not reaped yet.     *)
KillGroup == child' = Signalled(child) /\ helper' = Signalled(helper)

(* The work of the session is over: with no await in between,              *)
(* terminate_and_reap kills the process group and waits for the server.    *)
Finish(v) ==
    /\ ended' = v
    /\ step' = "reaping"
    /\ KillGroup

Alive == UNCHANGED <<ended, child, helper>>

Works == step \in {"initialize", "list", "call"}

(* response skips notifications, up to a bound.                            *)
Notification ==
    /\ Works /\ child = "running"
    /\ IF read + 1 < MaxMessages THEN read' = read + 1 /\ UNCHANGED step /\ Alive
                                 ELSE Finish("MalformedResponse") /\ UNCHANGED read
    /\ UNCHANGED <<registered, use, cursors, listed, pages, sent, returned>>

(* Anything that is not the awaited response ends the session: a broken    *)
(* frame, another identifier, one seen before, an error, a closed pipe,    *)
(* another protocol revision, a listed tool with an outputSchema.          *)
BadResponse ==
    /\ Works
    /\ \E e \in {"MalformedResponse", "Unavailable", "ProtocolMismatch",
                  "UnsupportedTool"} :
          /\ e = "ProtocolMismatch" => step = "initialize"
          /\ e = "UnsupportedTool" => step = "list"
          /\ Finish(e)
    /\ UNCHANGED <<registered, use, sessionVars, returned>>

(* The negotiated revision is the one supported.                           *)
session_initialize ==
    /\ step = "initialize" /\ child = "running"
    /\ step' = "list"
    /\ read' = 0
    /\ UNCHANGED <<registered, use, cursors, listed, pages, sent, ended, returned,
                   child, helper>>

Found(tools) == {i \in DOMAIN tools : tools[i].name = Wanted}

Distinct(tools) ==
    \A i, j \in DOMAIN tools : tools[i].name = tools[j].name => i = j

(* Mutant: the definition is compared at discovery only.                   *)
ListedUnchecked(tools) ==
    IF Found(tools) = {} THEN Finish("UnsupportedTool") /\ UNCHANGED <<read, sent>>
    ELSE IF use = "invoke"
         THEN step' = "call" /\ read' = 0 /\ sent' = sent + 1 /\ Alive
    ELSE IF tools[CHOOSE i \in Found(tools) : TRUE].definition # Pinned
         THEN Finish("DefinitionDrift") /\ UNCHANGED <<read, sent>>
    ELSE Finish("Definition") /\ UNCHANGED <<read, sent>>

(* With the last page read: the tool must be there and be the pinned one.  *)
(* A discovery then checks the schema and registers the tool, an           *)
(* invocation sends tools/call.                                            *)
Listed(tools) ==
    LET tool == tools[CHOOSE i \in Found(tools) : TRUE] IN
    IF Found(tools) = {} THEN Finish("UnsupportedTool") /\ UNCHANGED <<read, sent>>
    ELSE IF tool.definition # Pinned
         THEN Finish("DefinitionDrift") /\ UNCHANGED <<read, sent>>
    ELSE IF use = "invoke"
         THEN step' = "call" /\ read' = 0 /\ sent' = sent + 1 /\ Alive
    ELSE /\ Finish(IF Pinned \in Unsupported THEN "UnsupportedTool" ELSE "Definition")
         /\ UNCHANGED <<read, sent>>

(* find_tool: one page of the listing.  A full listing, a repeated name    *)
(* and a repeated cursor are refused, and so are more pages than MaxPages. *)
find_tool ==
    /\ step = "list" /\ child = "running"
    /\ \E n \in 0..2 : \E new \in [1..n -> Tools], cursor \in Cursors \cup {NoCursor} :
          /\ listed' = listed \o new
          /\ pages' = pages + 1
          /\ cursors' = cursors \cup ({cursor} \ {NoCursor})
          /\ CASE Len(listed') > MaxTools ->
                    Finish("DiscoveryLimit") /\ UNCHANGED <<read, sent>>
               [] Len(listed') <= MaxTools /\ ~Distinct(listed') ->
                    Finish("AmbiguousDiscovery") /\ UNCHANGED <<read, sent>>
               [] Len(listed') <= MaxTools /\ Distinct(listed') /\ cursor = NoCursor ->
                    Listed(listed')
               [] OTHER ->
                    \/ /\ cursor \in cursors
                       /\ Finish("AmbiguousDiscovery") /\ UNCHANGED <<read, sent>>
                    \/ /\ cursor \notin cursors /\ pages' = MaxPages
                       /\ Finish("DiscoveryLimit") /\ UNCHANGED <<read, sent>>
                    \/ /\ cursor \notin cursors /\ pages' < MaxPages
                       /\ read' = 0 /\ UNCHANGED <<step, sent>> /\ Alive
    /\ UNCHANGED <<registered, use, returned>>

(* call_tool: normalize_result accepts bounded text or structured content. *)
call_tool ==
    /\ step = "call" /\ child = "running"
    /\ \E v \in {"Succeeded", "DomainFailure", "UnsupportedTool"} : Finish(v)
    /\ UNCHANGED <<registered, use, sessionVars, returned>>

(* The session's own timeout.                                              *)
TimedOut ==
    /\ Works
    /\ Finish("TimedOut")
    /\ UNCHANGED <<registered, use, sessionVars, returned>>

--------------------------------------------------------------------------------
(* The end of a session.                                                   *)

(* map_result, and the result of discover_tool.                            *)
map_result(v) ==
    CASE v \in {"Succeeded", "DomainFailure", "Definition", "Unavailable", "Interrupted"} -> v
      [] OTHER -> "AdapterFailure"

(* The wait for the server returns.                                        *)
Reaped ==
    /\ step = "reaping" /\ child = "exited"
    /\ child' = "reaped"
    /\ step' = "settled"
    /\ returned' = map_result(ended)
    /\ \/ /\ ended = "Definition"
          /\ registered' \in {"ReadOnly", "LocalWrite"}
       \/ ended # "Definition" /\ UNCHANGED registered
    /\ UNCHANGED <<use, sessionVars, ended, helper>>

(* The server is still there after TERMINATION_TIMEOUT: an error.          *)
ReapTimesOut ==
    /\ step = "reaping" /\ child = "killed"
    /\ step' = "settled"
    /\ returned' = "AdapterFailure"
    /\ UNCHANGED <<registered, use, sessionVars, ended, child, helper>>

(* The run is cancelled or its deadline passes: the wait is dropped.  The  *)
(* session is terminated by the handle, unless the wait had already taken  *)
(* it out to terminate it: then the handle has nothing to wait for.        *)
McpInterrupt ==
    /\ use = "invoke"
    /\ \/ Works /\ Finish("Interrupted") /\ UNCHANGED returned
       \/ /\ step = "reaping" /\ ended # "Interrupted"
          /\ step' = "settled" /\ returned' = "Interrupted"
          /\ Alive
    /\ UNCHANGED <<registered, use, sessionVars>>

(* The process of the harness ends.                                        *)
McpHarnessGone ==
    /\ step \notin {"idle", "settled", "lost"}
    /\ step' = "lost"
    /\ UNCHANGED <<registered, use, sessionVars, ended, returned, child, helper>>

(* The server and its helper (external).                                   *)
Fork ==
    /\ child = "running" /\ helper = "none"
    /\ helper' = "running"
    /\ UNCHANGED <<registered, use, step, sessionVars, ended, returned, child>>

ChildExits ==
    /\ child \in {"running", "killed"}
    /\ child' = "exited"
    /\ UNCHANGED <<registered, use, step, sessionVars, ended, returned, helper>>

HelperExits ==
    /\ helper \in {"running", "killed"}
    /\ helper' = "gone"
    /\ UNCHANGED <<registered, use, step, sessionVars, ended, returned, child>>

McpStep ==
    \/ discover_tool \/ start_managed \/ start_refused \/ Notification
    \/ BadResponse \/ session_initialize \/ find_tool \/ call_tool \/ TimedOut
    \/ Reaped \/ ReapTimesOut \/ McpInterrupt

McpNext == McpStep \/ McpHarnessGone \/ Fork \/ ChildExits \/ HelperExits

McpSpec == McpInit /\ [][McpNext]_mcpVars

--------------------------------------------------------------------------------
(* Properties.                                                             *)

(* "Invocation-time drift dispatches zero remote tool calls": a tools/call *)
(* goes out at most once in a session, and only when the session itself    *)
(* listed the wanted tool exactly once and with the pinned definition,     *)
(* within the bounds of the listing and for a ReadOnly tool.               *)
CallsPinnedTool ==
    sent > 0 =>
        /\ sent = 1
        /\ registered = "ReadOnly"
        /\ Cardinality(Found(listed)) = 1
        /\ \A i \in Found(listed) : listed[i].definition = Pinned
        /\ pages <= MaxPages /\ Len(listed) <= MaxTools

(* When the caller has its answer, the server and the helper in its group  *)
(* are gone or have the signal; with a result, the server is reaped.  The  *)
(* exceptions the code has: an interruption while the wait terminates the  *)
(* session, and a server that outlives the termination timeout, return     *)
(* before the server is reaped.                                            *)
SettledIsKilled ==
    step = "settled" =>
        /\ child # "running" /\ helper # "running"
        /\ returned \in {"Succeeded", "DomainFailure", "Definition"} => child = "reaped"
        /\ ended = "Interrupted" /\ returned = "Interrupted" => child = "reaped"

(* The adapter's timers fire; nothing is assumed of the server or of the   *)
(* kernel's delivery of the signal.                                        *)
McpFairness ==
    /\ WF_mcpVars(TimedOut)
    /\ WF_mcpVars(Reaped \/ ReapTimesOut)

(* A session ends whatever the server does: it may list, notify or hang as *)
(* it likes and the caller still gets an answer.                           *)
SessionEnds == step = "initialize" ~> step \in {"settled", "lost"}
================================================================================
