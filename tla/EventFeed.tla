------------------------------- MODULE EventFeed -------------------------------
(***************************************************************************)
(* How a client follows the journal of a run: the server-sent event stream *)
(* of the HTTP adapter and the validated pages of the desktop client, both *)
(* read from the store by cursor, behind the single blocking permit of the *)
(* SQLite adapter and the stream limits of the HTTP adapter.               *)
(*                                                                         *)
(* A cursor is the number of events already seen, so no cursor is 0 and    *)
(* after=n is n + 1.  Events are their sequence numbers.  The store is     *)
(* read in two autocommit statements, the run's row and its events; a      *)
(* commit changes both at once.  A future that is dropped gives its permit *)
(* back although its blocking closure runs on.                             *)
(***************************************************************************)
EXTENDS Naturals, Sequences, FiniteSets

CONSTANTS
    Runs,         \* runs with a journal
    Readers,      \* connections of clients
    Follows,      \* the run each of them follows
    StreamLimit,  \* MAX_SSE_CONNECTIONS
    PerRunLimit,  \* MAX_SSE_CONNECTIONS_PER_RUN
    PageSize,     \* SSE_PAGE_SIZE, and the limit of the desktop's pages
    MaxEvents,    \* journal length followed
    MaxFaults,    \* lost connections, dropped commands, process deaths
    NoRun

ASSUME FeedAssumption ==
    /\ Follows \in [Readers -> Runs]
    /\ IsFiniteSet(Readers)
    /\ NoRun \notin Runs
    /\ {StreamLimit, PerRunLimit, PageSize, MaxEvents, MaxFaults} \subseteq Nat
    /\ PageSize > 0 /\ PerRunLimit > 0 /\ StreamLimit >= PerRunLimit

VARIABLES
    len,       \* durable: events of a run, contiguous from 0
    permit,    \* the permit of the adapter is free
    writer,    \* the append in flight of the run's own task, and of a command
    detached,  \* appends whose future was dropped while they ran
    rd,        \* what the server does for a connection
    streams,   \* free permits of the global semaphore
    perRun,    \* free permits of a run's semaphore
    wire,      \* the event on its way to a client
    log,       \* what a client has applied
    faults

vars == <<len, permit, writer, detached, rd, streams, perRun, wire, log, faults>>

Writers == {"task", "command"}

NoWrite == [pc |-> "idle", run |-> NoRun, seq |-> 0]

Closed == [pc |-> "closed", sse |-> FALSE, next |-> 0, row |-> 0, hi |-> 0]

Init ==
    /\ len = [r \in Runs |-> 0]
    /\ permit = TRUE
    /\ writer = [w \in Writers |-> NoWrite]
    /\ detached = {}
    /\ rd = [k \in Readers |-> Closed]
    /\ streams = StreamLimit
    /\ perRun = [r \in Runs |-> PerRunLimit]
    /\ wire = [k \in Readers |-> <<>>]
    /\ log = [k \in Readers |-> <<>>]
    /\ faults = 0

Fails == faults < MaxFaults /\ faults' = faults + 1

--------------------------------------------------------------------------------
(* Appends: the event is made for the sequence the live context expects,   *)
(* and the transaction compares it with the row.                           *)

AppendQueue(w, r) ==
    /\ writer[w].pc = "idle"
    /\ len[r] < MaxEvents
    /\ writer' = [writer EXCEPT ![w] = [pc |-> "queued", run |-> r, seq |-> len[r]]]
    /\ UNCHANGED <<len, permit, detached, rd, streams, perRun, wire, log, faults>>

AppendAcquire(w) ==
    /\ writer[w].pc = "queued"
    /\ permit
    /\ permit' = FALSE
    /\ writer' = [writer EXCEPT ![w] = [@ EXCEPT !.pc = "running"]]
    /\ UNCHANGED <<len, detached, rd, streams, perRun, wire, log, faults>>

AfterAppend(r, seq) == IF len[r] = seq THEN [len EXCEPT ![r] = seq + 1] ELSE len

append_transition(w) ==
    /\ writer[w].pc = "running"
    /\ len' = AfterAppend(writer[w].run, writer[w].seq)
    /\ permit' = TRUE
    /\ writer' = [writer EXCEPT ![w] = NoWrite]
    /\ UNCHANGED <<detached, rd, streams, perRun, wire, log, faults>>

(* The handler of a command is dropped when its client disconnects.        *)
DropCommand ==
    /\ writer["command"].pc \in {"queued", "running"}
    /\ Fails
    /\ IF writer["command"].pc = "running"
       THEN /\ permit' = TRUE
            /\ detached' = detached \cup {[run |-> writer["command"].run,
                                           seq |-> writer["command"].seq]}
       ELSE UNCHANGED <<permit, detached>>
    /\ writer' = [writer EXCEPT !["command"] = NoWrite]
    /\ UNCHANGED <<len, rd, streams, perRun, wire, log>>

DetachedCommit(d) ==
    /\ len' = AfterAppend(d.run, d.seq)
    /\ detached' = detached \ {d}
    /\ UNCHANGED <<permit, writer, rd, streams, perRun, wire, log, faults>>

--------------------------------------------------------------------------------
(* Connections.  A stream takes a permit of the process, then one of the   *)
(* run, and gives the first one back when it does not get the second.      *)

Set(k, r) == rd' = [rd EXCEPT ![k] = r]

(* The cursor a client sends is the last event it applied.                 *)
Connect(k) ==
    /\ rd[k].pc = "closed" /\ wire[k] = <<>>
    /\ streams > 0
    /\ streams' = streams - 1
    /\ Set(k, [pc |-> "acquire", sse |-> TRUE, next |-> Len(log[k]), row |-> 0, hi |-> 0])
    /\ UNCHANGED <<len, permit, writer, detached, perRun, wire, log, faults>>

(* Mutant: the global permit is kept when the run has none left.           *)
AcquireRunKeepsGlobal(k) ==
    /\ rd[k].pc = "acquire"
    /\ IF perRun[Follows[k]] > 0
       THEN /\ perRun' = [perRun EXCEPT ![Follows[k]] = @ - 1]
            /\ Set(k, [rd[k] EXCEPT !.pc = "open", !.hi = rd[k].next])
       ELSE Set(k, Closed) /\ UNCHANGED perRun
    /\ UNCHANGED <<len, permit, writer, detached, streams, wire, log, faults>>

AcquireRun(k) ==
    /\ rd[k].pc = "acquire"
    /\ IF perRun[Follows[k]] > 0
       THEN /\ perRun' = [perRun EXCEPT ![Follows[k]] = @ - 1]
            /\ Set(k, [rd[k] EXCEPT !.pc = "open", !.hi = rd[k].next])
            /\ UNCHANGED streams
       ELSE /\ streams' = streams + 1
            /\ Set(k, Closed)
            /\ UNCHANGED perRun
    /\ UNCHANGED <<len, permit, writer, detached, wire, log, faults>>

(* The desktop asks for one page.                                          *)
Poll(k) ==
    /\ rd[k].pc = "closed" /\ wire[k] = <<>>
    /\ Set(k, [pc |-> "open", sse |-> FALSE, next |-> Len(log[k]), row |-> 0, hi |-> Len(log[k])])
    /\ UNCHANGED <<len, permit, writer, detached, streams, perRun, wire, log, faults>>

(* What ends a response gives both permits of a stream back.               *)
Release(k) ==
    IF rd[k].sse /\ rd[k].pc # "closed"
    THEN /\ streams' = streams + 1
         /\ perRun' = IF rd[k].pc = "acquire" THEN perRun
                      ELSE [perRun EXCEPT ![Follows[k]] = @ + 1]
    ELSE UNCHANGED <<streams, perRun>>

--------------------------------------------------------------------------------
(* Reading a page: the permit, the row, the events.                        *)

ReadQueue(k) ==
    /\ rd[k].pc = "open"
    /\ rd[k].next = rd[k].hi
    /\ Set(k, [rd[k] EXCEPT !.pc = "queued"])
    /\ UNCHANGED <<len, permit, writer, detached, streams, perRun, wire, log, faults>>

(* Mutant: reads do not wait for the permit.                               *)
ReadAcquireAtOnce(k) ==
    /\ rd[k].pc = "queued"
    /\ Set(k, [rd[k] EXCEPT !.pc = "row"])
    /\ UNCHANGED <<len, permit, writer, detached, streams, perRun, wire, log, faults>>

ReadAcquire(k) ==
    /\ rd[k].pc = "queued"
    /\ permit
    /\ permit' = FALSE
    /\ Set(k, [rd[k] EXCEPT !.pc = "row"])
    /\ UNCHANGED <<len, writer, detached, streams, perRun, wire, log, faults>>

ReadRow(k) ==
    /\ rd[k].pc = "row"
    /\ Set(k, [rd[k] EXCEPT !.pc = "events", !.row = len[Follows[k]]])
    /\ UNCHANGED <<len, permit, writer, detached, streams, perRun, wire, log, faults>>

(* load_run finds the row and the events at odds.                          *)
Torn(k) == rd[k].row # len[Follows[k]]

(* A cursor beyond the last event is refused.                              *)
Beyond(k) == rd[k].next > len[Follows[k]]

Least(a, b) == IF a < b THEN a ELSE b

(* Mutant: the page stops before the last event.                           *)
PageEndShort(k) == Least(rd[k].next + PageSize, IF rd[k].row = 0 THEN 0 ELSE rd[k].row - 1)

PageEnd(k) == Least(rd[k].next + PageSize, len[Follows[k]])

(* An empty page makes a stream poll again later, an error ends it with    *)
(* the event replay_boundary; a page request has its answer in both cases. *)
ReadEvents(k) ==
    /\ rd[k].pc = "events"
    /\ permit' = TRUE
    /\ IF Torn(k) \/ Beyond(k)
       THEN Release(k) /\ Set(k, Closed)
       ELSE /\ Set(k, [rd[k] EXCEPT !.pc = IF rd[k].sse THEN "open" ELSE "answer",
                                    !.row = 0, !.hi = PageEnd(k)])
            /\ UNCHANGED <<streams, perRun>>
    /\ UNCHANGED <<len, writer, detached, wire, log, faults>>

--------------------------------------------------------------------------------
(* Delivery.  The cursor of a stream moves with the event it sends.        *)

(* Mutant: the page is sent again because the cursor does not move.        *)
SendKeepsCursor(k) ==
    /\ rd[k].pc = "open" /\ rd[k].sse
    /\ rd[k].next < rd[k].hi /\ wire[k] = <<>>
    /\ wire' = [wire EXCEPT ![k] = <<rd[k].next>>]
    /\ Set(k, [rd[k] EXCEPT !.hi = rd[k].next])
    /\ UNCHANGED <<len, permit, writer, detached, streams, perRun, log, faults>>

Send(k) ==
    /\ rd[k].pc = "open" /\ rd[k].sse
    /\ rd[k].next < rd[k].hi /\ wire[k] = <<>>
    /\ wire' = [wire EXCEPT ![k] = <<rd[k].next>>]
    /\ Set(k, [rd[k] EXCEPT !.next = @ + 1])
    /\ UNCHANGED <<len, permit, writer, detached, streams, perRun, log, faults>>

Receive(k) ==
    /\ wire[k] # <<>>
    /\ log' = [log EXCEPT ![k] = @ \o wire[k]]
    /\ wire' = [wire EXCEPT ![k] = <<>>]
    /\ UNCHANGED <<len, permit, writer, detached, rd, streams, perRun, faults>>

(* Events next to hi - 1 of a page.                                        *)
Page(k) == [i \in 1..(rd[k].hi - rd[k].next) |-> rd[k].next + i - 1]

(* Contiguous from the event after the cursor the client sent.             *)
validate_event_page(events, cursor) == \A i \in 1..Len(events) : events[i] = cursor + i - 1

PageAnswer(k) ==
    /\ rd[k].pc = "answer"
    /\ log' = IF validate_event_page(Page(k), Len(log[k]))
              THEN [log EXCEPT ![k] = @ \o Page(k)] ELSE log
    /\ Set(k, Closed)
    /\ UNCHANGED <<len, permit, writer, detached, streams, perRun, wire, faults>>

(* SSE_MAX_LIFETIME: looked at between events; what was pending is dropped.*)
Deadline(k) ==
    /\ rd[k].pc = "open" /\ rd[k].sse
    /\ Release(k)
    /\ Set(k, Closed)
    /\ UNCHANGED <<len, permit, writer, detached, wire, log, faults>>

(* The connection is lost with what was on the wire; the server drops the  *)
(* response wherever it stands, and the permits it holds with it.          *)
Lose(k) ==
    /\ rd[k].pc # "closed"
    /\ Fails
    /\ permit' = (permit \/ rd[k].pc \in {"row", "events"})
    /\ Release(k)
    /\ Set(k, Closed)
    /\ wire' = [wire EXCEPT ![k] = <<>>]
    /\ UNCHANGED <<len, writer, detached, log>>

(* The process dies and is started again; an append in flight is either    *)
(* committed already or rolled back.                                       *)
Crash ==
    /\ Fails
    /\ permit' = TRUE
    /\ writer' = [w \in Writers |-> NoWrite]
    /\ detached' = {}
    /\ rd' = [k \in Readers |-> Closed]
    /\ streams' = StreamLimit
    /\ perRun' = [r \in Runs |-> PerRunLimit]
    /\ wire' = [k \in Readers |-> <<>>]
    /\ UNCHANGED <<len, log>>

--------------------------------------------------------------------------------

Writing ==
    \/ \E w \in Writers :
           (\E r \in Runs : AppendQueue(w, r)) \/ AppendAcquire(w) \/ append_transition(w)
    \/ DropCommand
    \/ \E d \in detached : DetachedCommit(d)

Reading(k) == ReadQueue(k) \/ ReadRow(k) \/ ReadEvents(k) \/ Send(k) \/ PageAnswer(k)

Next ==
    \/ Writing
    \/ \E k \in Readers : Connect(k) \/ AcquireRun(k) \/ Poll(k) \/ Deadline(k) \/ Lose(k)
    \/ \E k \in Readers : ReadAcquire(k) \/ Reading(k) \/ Receive(k)
    \/ Crash

Spec == Init /\ [][Next]_vars

(* The semaphore of the adapter serves its waiters in turn, the runtime    *)
(* polls what can proceed, and the client asks again when it has no        *)
(* response.                                                               *)
FairSpec ==
    /\ Spec
    /\ \A w \in Writers : SF_vars(AppendAcquire(w)) /\ WF_vars(append_transition(w))
    /\ \A k \in Readers : SF_vars(ReadAcquire(k)) /\ WF_vars(Reading(k)) /\ WF_vars(AcquireRun(k))
    /\ \A k \in Readers : SF_vars(Poll(k)) /\ WF_vars(Receive(k))

--------------------------------------------------------------------------------

Appends == [pc : {"idle", "queued", "running"}, run : Runs \cup {NoRun}, seq : Nat]

Connections ==
    [pc : {"closed", "acquire", "open", "queued", "row", "events", "answer"},
     sse : BOOLEAN, next : Nat, row : Nat, hi : Nat]

(* Every variable has its type.                                            *)
TypeOK ==
    /\ len \in [Runs -> Nat]
    /\ permit \in BOOLEAN
    /\ writer \in [Writers -> Appends]
    /\ \A w \in Writers : writer[w].pc # "idle" => writer[w].run \in Runs
    /\ detached \in SUBSET [run : Runs, seq : Nat]
    /\ rd \in [Readers -> Connections]
    /\ streams \in Nat
    /\ perRun \in [Runs -> Nat]
    /\ wire \in [Readers -> Seq(Nat)]
    /\ log \in [Readers -> Seq(Nat)]
    /\ faults \in Nat

(* What a client has applied is the beginning of the journal, each event   *)
(* once and in order, over any number of pages, lost connections, expired  *)
(* streams, failed reads and restarts of the service.                      *)
LogIsPrefix ==
    \A k \in Readers :
        /\ Len(log[k]) <= len[Follows[k]]
        /\ \A i \in 1..Len(log[k]) : log[k][i] = i - 1

(* Every permit of the stream limits is free or belongs to a response that *)
(* is still open: no way to end a stream loses or returns one twice.       *)
PermitsAccounted ==
    /\ streams + Cardinality({k \in Readers : rd[k].sse /\ rd[k].pc # "closed"}) = StreamLimit
    /\ \A r \in Runs :
           perRun[r] + Cardinality({k \in Readers : /\ Follows[k] = r /\ rd[k].sse
                                                    /\ rd[k].pc \notin {"closed", "acquire"}})
               = PerRunLimit

(* Between the two statements of a read nobody moves the journal, save an  *)
(* append whose command was dropped: one permit bounds the blocking work   *)
(* of the adapter as long as no future is dropped.                         *)
OnlyDetachedTears ==
    [][\A k \in Readers :
           rd[k].pc = "events" /\ len'[Follows[k]] # len[Follows[k]] => detached' # detached]_vars

(* A committed event reaches every client that keeps asking.               *)
FollowerCatchesUp == \A k \in Readers : []<>(Len(log[k]) = len[Follows[k]])

================================================================================
