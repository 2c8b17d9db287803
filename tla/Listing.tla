-------------------------------- MODULE Listing --------------------------------
(***************************************************************************)
(* The paged reads of the service: conversations, the runs of a session,   *)
(* all runs for an operator, the approvals that wait, and the catalogue of *)
(* runs that the daemon loads when it starts.  A page is one query; what   *)
(* the page shows of an item is read afterwards, item by item, and the     *)
(* next page is a request of its own, so that runs begin, move and wait,   *)
(* and sessions are created and archived, in between.                      *)
(***************************************************************************)
EXTENDS Identity, Integers, FiniteSets, Sequences, SequencesExt

CONSTANTS
    RunIds,       \* run ids, numbered in the order of their text
    WaitIds,      \* wait ids, likewise
    SessionIds,   \* sessions of this build
    LegacySession,\* the session of runs stored before sessions had owners
    Readers,      \* the verified principals that read
    PageItems,    \* the limit of a page
    MaxSessions,  \* MAX_SESSIONS, also the page size of discover_runs
    MaxRows       \* rows added to the three tables together

ASSUME ListingAssumption ==
    /\ RunIds \subseteq Nat \ {0} /\ WaitIds \subseteq Nat \ {0}
    /\ LegacySession \notin SessionIds
    /\ Readers \subseteq Principals
    /\ {PageItems, MaxSessions, MaxRows} \subseteq Nat \ {0}

VARIABLES
    table,         \* the table runs, in the order of its rowid
    conversations, \* the table service_sessions, in the order of its rowid
    waits,         \* the table durable_approvals
    scan           \* the caller that goes through the pages

listingVars == <<table, conversations, waits, scan>>

(* The key of a run or a session is <<id>>, that of a wait <<run, wait>>.  *)
(* A cursor is nothing, or the key after which the page begins.            *)
Beginning == <<>>

NoReader == [id |-> "nobody", roles |-> {}]

Idling == [pc |-> "idle", kind |-> "none", by |-> NoReader, session |-> LegacySession,
           after |-> Beginning, next |-> Beginning, rows |-> <<>>, due |-> {},
           listed |-> <<>>, known |-> {}]

(* A store may hold a waiting run of a build without owners.               *)
LegacyRun(id) == [id |-> id, session |-> LegacySession, by |-> "nobody", disposition |-> "Waiting"]

ListingInit ==
    /\ conversations = <<>>
    /\ scan = Idling
    /\ \/ table = <<>> /\ waits = {}
       \/ \E id \in RunIds, w \in WaitIds :
              /\ table = <<LegacyRun(id)>>
              /\ waits = {[run |-> id, wait |-> w, status |-> "Waiting"]}

RunOf(id) == CHOOSE r \in ToSet(table) : r.id = id
Row(seq, id) == CHOOSE i \in DOMAIN seq : seq[i].id = id
Keys(rows) == {<<r.id>> : r \in rows}
WaitKey(w) == <<w.run, w.wait>>

(* project_legacy_unowned over what recover_run finds.                     *)
Disposition(r) ==
    IF r.by = "nobody" /\ r.disposition = "Waiting" THEN "Manual" ELSE r.disposition

MayPreview(p, id) ==
    /\ RunOf(id).by # "nobody"
    /\ \E w \in Allowed :
           authorize(p, "ReadApprovalPreview", Approval(w, RunOf(id).by, RunOf(id).by))

(* What a complete listing has to show: an item that is there, and fits    *)
(* the listing, from the first page to the last.                           *)
Fits(s) ==
    CASE s.kind \in {"operations", "catalogue"} -> Keys(ToSet(table))
      [] s.kind = "reconciliation" -> Keys({r \in ToSet(table) : Disposition(r) = "Manual"})
      [] s.kind = "history" -> Keys({r \in ToSet(table) : r.session = s.session})
      [] s.kind = "conversations" ->
             Keys({c \in ToSet(conversations) : c.owner = s.by.id /\ ~c.archived})
      [] s.kind = "waiting" ->
             {WaitKey(w) : w \in {x \in waits : x.status # "Consumed" /\ MayPreview(s.by, x.run)}}
      [] OTHER -> {}

StillDue == \E s \in {scan} : scan' = [s EXCEPT !.due = @ \cap Fits(s)']

--------------------------------------------------------------------------------
(* The writers.  What they write is the subject of other modules; here     *)
(* they move rows.  The daemon loads its catalogue before it serves, and   *)
(* what happens after the last page is no matter.                          *)

Serving == scan.kind # "catalogue" /\ scan.pc # "done"

Owned == {r \in ToSet(table) : r.by # "nobody"}

Room ==
    Len(conversations) + Cardinality(Owned)
        + Cardinality({w \in waits : RunOf(w.run) \in Owned}) < MaxRows

Busy(s) == {r \in ToSet(table) : r.session = s /\ r.disposition = "Running"}

CreateRow(s) ==
    /\ Serving /\ Room
    /\ \A c \in ToSet(conversations) : c.id # s
    /\ \E p \in Readers :
           /\ authorize(p, "CreateSession", Global)
           /\ conversations' = Append(conversations, [id |-> s, owner |-> p.id, archived |-> FALSE])
    /\ UNCHANGED <<table, waits>>
    /\ StillDue

(* No run of the session is active and the newest one has ended.           *)
ArchiveRow(s) ==
    /\ Serving
    /\ Busy(s) = {}
    /\ LET mine == SelectSeq(table, LAMBDA r : r.session = s)
       IN  mine # <<>> => Last(mine).disposition = "Completed"
    /\ \E i \in DOMAIN conversations :
           /\ conversations[i].id = s /\ ~conversations[i].archived
           /\ conversations' = [conversations EXCEPT ![i].archived = TRUE]
    /\ UNCHANGED <<table, waits>>
    /\ StillDue

BeginRow(id) ==
    /\ Serving /\ Room
    /\ \A r \in ToSet(table) : r.id # id
    /\ \E c \in ToSet(conversations) :
           /\ ~c.archived
           /\ Busy(c.id) = {}
           /\ table' = Append(table, [id |-> id, session |-> c.id, by |-> c.owner,
                                      disposition |-> "Running"])
    /\ UNCHANGED <<conversations, waits>>
    /\ StillDue

Moved(id, d) == table' = [table EXCEPT ![Row(table, id)].disposition = d]

SettleRun(id) ==
    /\ Serving
    /\ \E r \in ToSet(table) : r.id = id /\ r.disposition = "Running"
    /\ \E d \in {"Completed", "Manual"} :
           /\ d = "Completed" => \A x \in waits : x.run = id => x.status = "Consumed"
           /\ Moved(id, d)
    /\ UNCHANGED <<conversations, waits>>
    /\ StillDue

OpenRow(id, w) ==
    /\ Serving /\ Room
    /\ \E r \in ToSet(table) : r.id = id /\ r.disposition = "Running"
    /\ \A x \in waits : x.run = id => x.wait # w /\ x.status = "Consumed"
    /\ Moved(id, "Waiting")
    /\ waits' = waits \cup {[run |-> id, wait |-> w, status |-> "Waiting"]}
    /\ UNCHANGED conversations
    /\ StillDue

(* The rows of an approval: decided, resumed, consumed with its effect, or *)
(* aborted.                                                                *)
MoveRow(x, from, to, before, after) ==
    /\ Serving
    /\ x.status = from /\ RunOf(x.run).by # "nobody" /\ RunOf(x.run).disposition = before
    /\ before # after /\ after = "Running" => Busy(RunOf(x.run).session) = {}
    /\ waits' = (waits \ {x}) \cup {[x EXCEPT !.status = to]}
    /\ Moved(x.run, after)
    /\ UNCHANGED conversations
    /\ StillDue

MoveWait(x) ==
    \/ MoveRow(x, "Waiting", "Decided", "Waiting", "Waiting")
    \/ MoveRow(x, "Waiting", "Consumed", "Waiting", "Completed")
    \/ \E st \in {"Executing", "Consumed"} : MoveRow(x, "Decided", st, "Waiting", "Running")
    \/ MoveRow(x, "Executing", "Consumed", "Running", "Running")

--------------------------------------------------------------------------------
(* The queries.  Each takes one row more than the limit; the cursor of the *)
(* next page is the last row returned, if there was one more.              *)

PageSkipping(keys, limit) ==
    [rows |-> SubSeq(keys, 1, IF Len(keys) > limit THEN limit ELSE Len(keys)),
     next |-> IF Len(keys) > limit THEN keys[limit + 1] ELSE Beginning]

Page(keys, limit) ==
    [rows |-> SubSeq(keys, 1, IF Len(keys) > limit THEN limit ELSE Len(keys)),
     next |-> IF Len(keys) > limit THEN keys[limit] ELSE Beginning]

list_runs(after, limit) ==
    Page(SetToSortSeq({k \in Keys(ToSet(table)) : after = Beginning \/ k[1] > after[1]},
                      LAMBDA a, b : a[1] < b[1]), limit)

(* Before a rowid, newest first.                                           *)
Older(seq, after) ==
    Reverse(SubSeq(seq, 1, IF after = Beginning THEN Len(seq) ELSE Row(seq, after[1]) - 1))

KeysOf(seq) == [i \in DOMAIN seq |-> <<seq[i].id>>]

list_session_runs(session, after, limit) ==
    Page(KeysOf(SelectSeq(Older(table, after), LAMBDA r : r.session = session)), limit)

list_session_ownership(owner, after, limit) ==
    Page(KeysOf(SelectSeq(Older(conversations, after),
                       LAMBDA c : c.owner = owner /\ ~c.archived)), limit)

list_waiting(after, limit) ==
    LET Later(a, b) == a[1] > b[1] \/ (a[1] = b[1] /\ a[2] > b[2])
        keys == {WaitKey(w) : w \in {x \in waits : x.status # "Consumed"}}
    IN  Page(SetToSortSeq({k \in keys : after = Beginning \/ Later(k, after)},
                          LAMBDA a, b : Later(b, a)), limit)

--------------------------------------------------------------------------------
(* The handlers.                                                           *)

(* The authorization every handler asks for before it reads.               *)
May(p, kind, session) ==
    CASE kind = "operations" -> authorize(p, "ReadOperations", Global)
      [] kind = "reconciliation" -> authorize(p, "InspectReconciliation", Global)
      [] kind = "conversations" -> authorize(p, "ListSessions", Global)
      [] kind = "waiting" -> authorize(p, "ListWaiting", Global)
      [] kind = "history" ->
             \E c \in ToSet(conversations) :
                 c.id = session /\ authorize(p, "ReadSessionHistory", OwnedSession(c.owner))

Fetched(s, page) == [s EXCEPT !.rows = page.rows, !.next = page.next, !.pc = "items"]

FirstPage(kind, page, p, session) ==
    /\ scan.pc = "idle"
    /\ May(p, kind, session)
    /\ scan' = LET s == [Fetched(Idling, page) EXCEPT !.kind = kind, !.by = p, !.session = session]
               IN  [s EXCEPT !.due = Fits(s)]
    /\ UNCHANGED <<table, conversations, waits>>

NextPage(kind, page) ==
    /\ scan.pc = "page" /\ scan.kind = kind
    /\ scan' = Fetched(scan, page)
    /\ UNCHANGED <<table, conversations, waits>>

conversation_page ==
    \/ \E p \in Readers :
           FirstPage("conversations", list_session_ownership(p.id, Beginning, PageItems), p,
                     LegacySession)
    \/ NextPage("conversations", list_session_ownership(scan.by.id, scan.after, PageItems))

session_run_page ==
    \/ \E p \in Readers, s \in SessionIds :
           FirstPage("history", list_session_runs(s, Beginning, PageItems), p, s)
    \/ NextPage("history", list_session_runs(scan.session, scan.after, PageItems))

operational_run_page ==
    \E kind \in {"operations", "reconciliation"} :
        \/ \E p \in Readers :
               FirstPage(kind, list_runs(Beginning, PageItems), p, LegacySession)
        \/ NextPage(kind, list_runs(scan.after, PageItems))

waiting_page ==
    \/ \E p \in Readers :
           FirstPage("waiting", list_waiting(Beginning, PageItems), p, LegacySession)
    \/ NextPage("waiting", list_waiting(scan.after, PageItems))

(* What the handler adds to its answer for one row, read when it comes to  *)
(* that row: a wait the caller may not preview and, in the reconciliation  *)
(* list, a run that needs none are left out.                               *)
Shown(k) ==
    CASE scan.kind = "reconciliation" -> Disposition(RunOf(k[1])) = "Manual"
      [] scan.kind = "waiting" -> MayPreview(scan.by, k[1])
      [] OTHER -> TRUE

history_item ==
    /\ scan.pc = "items" /\ scan.rows # <<>>
    /\ LET k == Head(scan.rows)
       IN  scan' = [scan EXCEPT
                       !.rows = Tail(@),
                       !.listed = IF Shown(k) THEN Append(@, k) ELSE @,
                       !.known = IF scan.kind = "catalogue" THEN @ \cup {RunOf(k[1]).session} ELSE @]
    /\ UNCHANGED <<table, conversations, waits>>

(* The answer is complete; the caller asks for the page after the cursor,  *)
(* if it was given one.                                                    *)
PageAnswered ==
    /\ scan.pc = "items" /\ scan.rows = <<>> /\ scan.kind # "catalogue"
    /\ scan' = [scan EXCEPT !.after = scan.next,
                            !.pc = IF scan.next = Beginning THEN "done" ELSE "page"]
    /\ UNCHANGED <<table, conversations, waits>>

(* The daemon starts: a loop over the pages of all runs, given up when it  *)
(* has taken more than MAX_SESSIONS and there is another page.             *)
discover_first ==
    /\ scan.pc = "idle"
    /\ scan' = LET s == [Fetched(Idling, list_runs(Beginning, MaxSessions))
                            EXCEPT !.kind = "catalogue"]
               IN  [s EXCEPT !.due = Fits(s)]
    /\ UNCHANGED <<table, conversations, waits>>

discover_turn_early ==
    /\ scan.pc = "items" /\ scan.rows = <<>> /\ scan.kind = "catalogue"
    /\ scan' = CASE Len(scan.listed) > MaxSessions -> [scan EXCEPT !.pc = "refused"]
                 [] scan.next = Beginning -> [scan EXCEPT !.pc = "done"]
                 [] OTHER -> Fetched(scan, list_runs(scan.next, MaxSessions))
    /\ UNCHANGED <<table, conversations, waits>>

discover_turn ==
    /\ scan.pc = "items" /\ scan.rows = <<>> /\ scan.kind = "catalogue"
    /\ scan' = CASE scan.next = Beginning -> [scan EXCEPT !.pc = "done"]
                 [] Len(scan.listed) > MaxSessions -> [scan EXCEPT !.pc = "refused"]
                 [] OTHER -> Fetched(scan, list_runs(scan.next, MaxSessions))
    /\ UNCHANGED <<table, conversations, waits>>

LeaveList ==
    /\ scan.pc \in {"done", "refused"}
    /\ scan' = Idling
    /\ UNCHANGED <<table, conversations, waits>>

ListingNext ==
    \/ \E s \in SessionIds : CreateRow(s) \/ ArchiveRow(s)
    \/ \E id \in RunIds :
           \/ BeginRow(id) \/ SettleRun(id)
           \/ \E w \in WaitIds : OpenRow(id, w)
    \/ \E x \in waits : MoveWait(x)
    \/ conversation_page \/ session_run_page \/ operational_run_page \/ waiting_page
    \/ history_item \/ PageAnswered
    \/ discover_first \/ discover_turn
    \/ LeaveList

--------------------------------------------------------------------------------
(* A caller that follows the cursors to the end has seen every item that   *)
(* was there and fitted the listing all the while, and none of them twice, *)
(* although rows were added and changed between its pages.                 *)
ListsEachOnce ==
    /\ IsInjective(scan.listed)
    /\ scan.pc = "done" => scan.due \subseteq ToSet(scan.listed)

(* A daemon that starts knows the session of every run of its store.  It   *)
(* gives up for the number of runs only when the store has more than two   *)
(* pages of them, and then at every start, because no run is ever removed. *)
CatalogueWhole ==
    scan.kind = "catalogue" =>
        /\ scan.pc = "done" => {r.session : r \in ToSet(table)} = scan.known
        /\ scan.pc = "refused" => Len(table) > 2 * MaxSessions
================================================================================
