------------------------------ MODULE McpToolProofs -----------------------------
(***************************************************************************)
(* Proofs about the governed MCP tool, for any definitions, cursors and    *)
(* bounds of the listing.  The invariant follows a session: nothing is     *)
(* sent before its listing is complete, what was listed stays what it was  *)
(* checked to be, and a session that stopped working has killed its        *)
(* process group.                                                          *)
(***************************************************************************)
EXTENDS McpTool, FiniteSetTheorems, TLAPS

Stopped == {"reaping", "settled"}

(* The listing of the session justifies a call.                            *)
Justified ==
    /\ Distinct(listed)
    /\ Found(listed) # {}
    /\ \A i \in Found(listed) : listed[i].definition = Pinned
    /\ pages <= MaxPages /\ Len(listed) <= MaxTools

McpInv ==
    /\ pages \in Nat /\ listed \in Seq(Tools)
    /\ step \in {"initialize", "list"} => sent = 0 /\ pages < MaxPages
    /\ step = "idle" => sent = 0 /\ child = "none" /\ helper = "none"
    /\ sent \in {0, 1}
    /\ use \in {"discover", "invoke"}
    /\ sent > 0 => use = "invoke" /\ Justified
    /\ use = "invoke" => registered = "ReadOnly"
    /\ ended = "Definition" /\ step = "reaping" => use = "discover"
    /\ step \in Stopped => child # "running" /\ helper # "running"
    /\ SettledIsKilled

--------------------------------------------------------------------------------
USE McpAssumption

(* Every end of a session's work kills the process group.                  *)
LEMMA FinishKills ==
    ASSUME NEW v, Finish(v)
    PROVE  step' = "reaping" /\ ended' = v /\ child' # "running" /\ helper' # "running"
  BY DEF Finish, KillGroup, Signalled

(* With the whole listing read, the session ends, or it sends the one call *)
(* an invocation is for, with the wanted tool in it as it was pinned.      *)
LEMMA ListedOutcome ==
    ASSUME NEW tools, Distinct(tools), Listed(tools)
    PROVE  \/ /\ \E v : Finish(v) /\ (v = "Definition" => use # "invoke")
              /\ UNCHANGED <<read, sent>>
           \/ /\ step' = "call" /\ sent' = sent + 1 /\ use = "invoke" /\ Alive
              /\ Found(tools) # {}
              /\ \A i \in Found(tools) : tools[i].definition = Pinned
<1> DEFINE k == CHOOSE i \in Found(tools) : TRUE
           tool == tools[k]
<1>1. CASE Found(tools) = {}
  BY <1>1 DEF Listed
<1>2. CASE Found(tools) # {}
  <2>1. \A i \in Found(tools) : i = k
    BY <1>2 DEF Found, Distinct
  <2>2. CASE tool.definition # Pinned
    BY <1>2, <2>2 DEF Listed
  <2>3. CASE tool.definition = Pinned /\ use = "invoke"
    <3>1. step' = "call" /\ sent' = sent + 1 /\ Alive
      BY <1>2, <2>3 DEF Listed
    <3>2. \A i \in Found(tools) : tools[i].definition = Pinned
      BY <2>1, <2>3, Zenon
    <3> QED
      BY <1>2, <2>3, <3>1, <3>2
  <2>4. CASE tool.definition = Pinned /\ use # "invoke"
    BY <1>2, <2>4 DEF Listed
  <2> QED
    BY <2>2, <2>3, <2>4
<1> QED
  BY <1>1, <1>2

(* One page of the listing: it ends the session, completes the listing and *)
(* sends the call, or asks for another page within the bound.              *)
LEMMA PageOutcome ==
    ASSUME McpInv, find_tool
    PROVE  /\ pages' \in Nat /\ listed' \in Seq(Tools)
           /\ UNCHANGED <<registered, use, returned>>
           /\ \/ /\ \E v : Finish(v) /\ (v = "Definition" => use # "invoke")
                 /\ sent' = sent
              \/ step' = "call" /\ sent' = sent + 1 /\ use = "invoke" /\ Alive /\ Justified'
              \/ step' = "list" /\ sent' = sent /\ pages' < MaxPages /\ Alive
<1> DEFINE Page(new, cursor) ==
        /\ listed' = listed \o new
        /\ pages' = pages + 1
        /\ CASE Len(listed') > MaxTools ->
                  Finish("DiscoveryLimit") /\ UNCHANGED <<read, sent>>
             [] Len(listed') <= MaxTools /\ ~Distinct(listed') ->
                  Finish("AmbiguousDiscovery") /\ UNCHANGED <<read, sent>>
             [] Len(listed') <= MaxTools /\ Distinct(listed') /\ cursor = NoCursor ->
                  Listed(listed')
             [] OTHER ->
                  \/ /\ cursor \in cursors
                     /\ Finish("AmbiguousDiscovery") /\ UNCHANGED <<read, sent>>
                  \/ /\ cursor \notin cursors /\ pages' = MaxPages
                     /\ Finish("DiscoveryLimit") /\ UNCHANGED <<read, sent>>
                  \/ /\ cursor \notin cursors /\ pages' < MaxPages
                     /\ read' = 0 /\ UNCHANGED <<step, sent>> /\ Alive
<1>0. PICK n \in 0..2 : \E new \in [1..n -> Tools], cursor \in Cursors \cup {NoCursor} :
        Page(new, cursor)
  BY Zenon DEF find_tool
<1>1. PICK new \in [1..n -> Tools], cursor \in Cursors \cup {NoCursor} : Page(new, cursor)
  BY <1>0, Zenon
<1>2. step = "list" /\ UNCHANGED <<registered, use, returned>>
  BY DEF find_tool
<1>3. pages \in Nat /\ listed \in Seq(Tools) /\ pages < MaxPages
  BY <1>2 DEF McpInv
<1>4. pages' \in Nat /\ pages' <= MaxPages
  BY <1>1, <1>3
<1>5. new \in Seq(Tools)
  BY <1>1
<1>6. listed' \in Seq(Tools) /\ Len(listed') \in Nat
  BY <1>1, <1>3, <1>5
<1>7. CASE Len(listed') > MaxTools
  BY <1>1, <1>2, <1>4, <1>6, <1>7
<1>8. CASE Len(listed') <= MaxTools /\ ~Distinct(listed')
  BY <1>1, <1>2, <1>4, <1>6, <1>8
<1>9. CASE Len(listed') <= MaxTools /\ Distinct(listed') /\ cursor = NoCursor
  <2>1. Listed(listed')
    BY <1>1, <1>6, <1>9
  <2>2. Found(listed)' = Found(listed') /\ Distinct(listed)' = Distinct(listed')
    BY DEF Found, Distinct
  <2>3. \/ /\ \E v : Finish(v) /\ (v = "Definition" => use # "invoke")
           /\ UNCHANGED <<read, sent>>
        \/ /\ step' = "call" /\ sent' = sent + 1 /\ use = "invoke" /\ Alive
           /\ Found(listed') # {}
           /\ \A i \in Found(listed') : listed'[i].definition = Pinned
    BY <1>9, <2>1, ListedOutcome
  <2> QED
    BY <1>2, <1>4, <1>6, <1>9, <2>2, <2>3 DEF Justified
<1>10. CASE Len(listed') <= MaxTools /\ Distinct(listed') /\ cursor # NoCursor
  BY <1>1, <1>2, <1>4, <1>6, <1>10
<1> QED
  BY <1>6, <1>7, <1>8, <1>9, <1>10

(* A step that ends the session's work with its bookkeeping kept.          *)
LEMMA FinishKeeps ==
    ASSUME McpInv, NEW v, Finish(v), v = "Definition" => use # "invoke",
           sent' = sent, pages' = pages, listed' = listed,
           UNCHANGED <<registered, use, returned>>
    PROVE  McpInv'
<1>1. step' = "reaping" /\ ended' = v /\ child' # "running" /\ helper' # "running"
  BY FinishKills
<1>2. Justified => Justified'
  BY DEF Justified, Found, Distinct
<1> QED
  BY <1>1, <1>2 DEF McpInv, Stopped, SettledIsKilled

(* A step that leaves the listing, the call and the registration alone.    *)
LEMMA SessionKept ==
    ASSUME UNCHANGED <<sessionVars>>
    PROVE  UNCHANGED <<pages, listed, sent>> /\ (Justified => Justified')
  BY DEF sessionVars, Justified, Found, Distinct

(* The inductive invariant of the governed tool.                           *)
THEOREM McpInvariant == McpSpec => []McpInv
<1>1. McpInit => McpInv
  BY DEF McpInit, McpInv, Stopped, SettledIsKilled
<1>2. McpInv /\ [McpNext]_mcpVars => McpInv'
  <2> SUFFICES ASSUME McpInv, [McpNext]_mcpVars PROVE McpInv'
    OBVIOUS
  <2>1. CASE discover_tool
    BY <2>1 DEF discover_tool, Open, McpInv, Stopped, SettledIsKilled
  <2>2. CASE start_managed
    BY <2>2 DEF start_managed, Open, McpInv, Stopped, SettledIsKilled
  <2>3. CASE start_refused
    BY <2>3, SessionKept DEF start_refused, McpInv, Stopped, SettledIsKilled
  <2>4. CASE Notification
    <3>1. CASE read + 1 < MaxMessages
      <4>1. Justified => Justified'
        BY <2>4 DEF Notification, Justified, Found, Distinct
      <4> QED
        BY <2>4, <3>1, <4>1 DEF Notification, Alive, McpInv, Stopped, SettledIsKilled
    <3>2. CASE ~(read + 1 < MaxMessages)
      BY <2>4, <3>2, FinishKeeps DEF Notification, McpInv
    <3> QED
      BY <3>1, <3>2
  <2>5. CASE BadResponse
    BY <2>5, SessionKept, FinishKeeps DEF BadResponse, McpInv
  <2>6. CASE session_initialize
    <3>1. Justified => Justified'
      BY <2>6 DEF session_initialize, Justified, Found, Distinct
    <3> QED
      BY <2>6, <3>1 DEF session_initialize, McpInv, Stopped, SettledIsKilled
  <2>7. CASE find_tool
    <3>1. step = "list" /\ sent = 0
      BY <2>7 DEF find_tool, McpInv
    <3>2. /\ pages' \in Nat /\ listed' \in Seq(Tools)
          /\ UNCHANGED <<registered, use, returned>>
      BY <2>7, PageOutcome
    <3>3. CASE /\ \E v : Finish(v) /\ (v = "Definition" => use # "invoke")
               /\ sent' = sent
      <4>1. PICK v : Finish(v) /\ (v = "Definition" => use # "invoke")
        BY <3>3
      <4>2. step' = "reaping" /\ ended' = v /\ child' # "running" /\ helper' # "running"
        BY <4>1, FinishKills
      <4> QED
        BY <3>1, <3>2, <3>3, <4>1, <4>2 DEF McpInv, Stopped, SettledIsKilled
    <3>4. CASE step' = "call" /\ sent' = sent + 1 /\ use = "invoke" /\ Alive /\ Justified'
      BY <3>1, <3>2, <3>4 DEF Alive, McpInv, Stopped, SettledIsKilled
    <3>5. CASE step' = "list" /\ sent' = sent /\ pages' < MaxPages /\ Alive
      BY <3>1, <3>2, <3>5 DEF Alive, McpInv, Stopped, SettledIsKilled
    <3> QED
      BY <2>7, <3>3, <3>4, <3>5, PageOutcome
  <2>8. CASE call_tool
    BY <2>8, SessionKept, FinishKeeps DEF call_tool, McpInv
  <2>9. CASE TimedOut
    BY <2>9, SessionKept, FinishKeeps DEF TimedOut, McpInv
  <2>10. CASE Reaped
    BY <2>10, SessionKept DEF Reaped, McpInv, Stopped, SettledIsKilled
  <2>11. CASE ReapTimesOut
    BY <2>11, SessionKept DEF ReapTimesOut, McpInv, Stopped, SettledIsKilled
  <2>12. CASE McpInterrupt
    <3>1. CASE Works /\ Finish("Interrupted") /\ UNCHANGED returned
      BY <2>12, <3>1, SessionKept, FinishKeeps DEF McpInterrupt, McpInv
    <3>2. CASE /\ step = "reaping" /\ ended # "Interrupted"
               /\ step' = "settled" /\ returned' = "Interrupted"
               /\ Alive
      BY <2>12, <3>2, SessionKept
      DEF McpInterrupt, Alive, McpInv, Stopped, SettledIsKilled
    <3> QED
      BY <2>12, <3>1, <3>2 DEF McpInterrupt
  <2>13. CASE McpHarnessGone
    BY <2>13, SessionKept DEF McpHarnessGone, McpInv, Stopped, SettledIsKilled
  <2>14. CASE Fork
    BY <2>14, SessionKept DEF Fork, McpInv, Stopped, SettledIsKilled
  <2>15. CASE ChildExits
    BY <2>15, SessionKept DEF ChildExits, McpInv, Stopped, SettledIsKilled
  <2>16. CASE HelperExits
    BY <2>16, SessionKept DEF HelperExits, McpInv, Stopped, SettledIsKilled
  <2>17. CASE UNCHANGED mcpVars
    BY <2>17, SessionKept DEF mcpVars, McpInv, Stopped, SettledIsKilled
  <2> QED
    BY <2>1, <2>2, <2>3, <2>4, <2>5, <2>6, <2>7, <2>8, <2>9, <2>10, <2>11, <2>12,
       <2>13, <2>14, <2>15, <2>16, <2>17
    DEF McpNext, McpStep
<1> QED
  BY <1>1, <1>2, PTL DEF McpSpec

(* A remote tool call goes out at most once in a session, for a ReadOnly   *)
(* tool, after a bounded listing of this session that names the wanted     *)
(* tool exactly once and as pinned (find_tool before call_tool).           *)
THEOREM CallIsPinned == McpSpec => []CallsPinnedTool
<1>1. McpInv => CallsPinnedTool
  <2> SUFFICES ASSUME McpInv, sent > 0 PROVE CallsPinnedTool
    BY DEF CallsPinnedTool
  <2>1. Justified /\ sent = 1 /\ registered = "ReadOnly"
    BY DEF McpInv
  <2>2. PICK k : k \in Found(listed)
    BY <2>1 DEF Justified
  <2>3. Found(listed) = {k}
    BY <2>1, <2>2 DEF Justified, Found, Distinct
  <2>4. Cardinality(Found(listed)) = 1
    BY <2>3, FS_Singleton
  <2> QED
    BY <2>1, <2>4 DEF CallsPinnedTool, Justified
<1> QED
  BY <1>1, McpInvariant, PTL

(* When the caller has the answer of a session, the server and what it     *)
(* forked into its group were killed or have ended, and a result means     *)
(* that the server was reaped (terminate_and_reap).                        *)
THEOREM SettledSessionIsKilled == McpSpec => []SettledIsKilled
<1>1. McpInv => SettledIsKilled
  BY DEF McpInv
<1> QED
  BY <1>1, McpInvariant, PTL
================================================================================
