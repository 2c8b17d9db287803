----------------------------- MODULE EventFeedProofs ---------------------------
(***************************************************************************)
(* Proofs about the event feed, for any runs, any finite set of            *)
(* connections and any limits.  The inductive invariant is in three parts: *)
(* what a connection and the wire hold continues what its client has       *)
(* applied; the permit of the adapter has at most one holder; the stream   *)
(* permits are accounted for.                                              *)
(***************************************************************************)
EXTENDS EventFeed, FiniteSetTheorems, TLAPS

(* A response r in progress and an event w on the wire continue what the   *)
(* client has applied, l, towards a journal of n events.                   *)
Continues(r, w, l, n) ==
    /\ \A i \in 1..Len(l) : l[i] = i - 1
    /\ Len(l) <= n
    /\ w = <<>> \/ (w = <<Len(l)>> /\ Len(l) < n)
    /\ r.pc # "closed" => r.next = Len(l) + Len(w)
    /\ r.pc \notin {"closed", "acquire"} => r.next <= r.hi /\ r.hi <= n
    /\ r.pc \in {"queued", "row", "events"} => r.next = r.hi
    /\ r.pc # "closed" /\ ~r.sse => w = <<>>
    /\ r.pc = "answer" => ~r.sse
    /\ r.pc = "acquire" => r.sse

Follower(k) == Continues(rd[k], wire[k], log[k], len[Follows[k]])

FollowInv == TypeOK /\ \A k \in Readers : Follower(k)

Reads(k) == rd[k].pc \in {"row", "events"}

Writes(w) == writer[w].pc = "running"

(* Who is in the adapter holds the permit, alone.                          *)
Exclusive ==
    /\ permit => (\A k \in Readers : ~Reads(k)) /\ (\A w \in Writers : ~Writes(w))
    /\ \A k \in Readers : Reads(k) => \A w \in Writers : ~Writes(w)
    /\ \A j, k \in Readers : Reads(j) /\ Reads(k) => j = k
    /\ \A v, w \in Writers : Writes(v) /\ Writes(w) => v = w

Streams == {k \in Readers : rd[k].sse /\ rd[k].pc # "closed"}

RunStreams(r) ==
    {k \in Readers : Follows[k] = r /\ rd[k].sse /\ rd[k].pc \notin {"closed", "acquire"}}

--------------------------------------------------------------------------------
LEMMA ConstantTypes ==
    /\ StreamLimit \in Nat /\ PerRunLimit \in Nat /\ PageSize \in Nat /\ MaxEvents \in Nat
    /\ \A k \in Readers : Follows[k] \in Runs
  BY FeedAssumption

(* A longer journal takes nothing back.                                    *)
LEMMA Longer ==
    ASSUME NEW r \in Connections, NEW w, NEW l \in Seq(Nat), NEW n \in Nat, NEW m \in Nat,
           n <= m, Continues(r, w, l, n)
    PROVE  Continues(r, w, l, m)
  BY DEF Continues, Connections

(* A new value of one connection.                                          *)
LEMMA SetOne ==
    ASSUME TypeOK, NEW k \in Readers, NEW r \in Connections, Set(k, r)
    PROVE  /\ rd' \in [Readers -> Connections]
           /\ rd'[k] = r
           /\ \A j \in Readers : j # k => rd'[j] = rd[j]
  BY DEF TypeOK, Set

(* A step of one connection is judged by that connection.                  *)
LEMMA OneFollower ==
    ASSUME FollowInv, NEW k \in Readers, Follower(k)', UNCHANGED len,
           \A j \in Readers : j # k => rd'[j] = rd[j] /\ wire'[j] = wire[j] /\ log'[j] = log[j]
    PROVE  \A j \in Readers : Follower(j)'
<1> SUFFICES ASSUME NEW j \in Readers PROVE Follower(j)'
  OBVIOUS
<1>1. CASE j = k
  BY <1>1
<1>2. CASE j # k
  BY <1>2 DEF FollowInv, Follower
<1> QED
  BY <1>1, <1>2

(* An append makes the journal one event longer or leaves it.              *)
LEMMA AppendGrows ==
    ASSUME TypeOK, NEW r \in Runs, NEW seq \in Nat, len' = AfterAppend(r, seq)
    PROVE  len' \in [Runs -> Nat] /\ \A q \in Runs : len[q] <= len'[q]
  BY DEF TypeOK, AfterAppend

LEMMA JournalGrows ==
    ASSUME FollowInv, len' \in [Runs -> Nat], \A q \in Runs : len[q] <= len'[q],
           UNCHANGED <<rd, wire, log>>
    PROVE  \A k \in Readers : Follower(k)'
<1> SUFFICES ASSUME NEW k \in Readers PROVE Follower(k)'
  OBVIOUS
<1>1. /\ rd[k] \in Connections
      /\ log[k] \in Seq(Nat) /\ len[Follows[k]] \in Nat /\ len'[Follows[k]] \in Nat
      /\ len[Follows[k]] <= len'[Follows[k]]
  BY ConstantTypes DEF FollowInv, TypeOK
<1>2. Continues(rd[k], wire[k], log[k], len[Follows[k]])
  BY DEF FollowInv, Follower
<1>3. Continues(rd[k], wire[k], log[k], len'[Follows[k]])
  BY <1>1, <1>2, Longer
<1> QED
  BY <1>3 DEF Follower

(* Where a response stands, with the wire empty or not.                    *)
LEMMA Standing ==
    ASSUME NEW r \in Connections, NEW w, NEW l \in Seq(Nat), NEW n \in Nat,
           Continues(r, w, l, n), r.pc # "closed"
    PROVE  /\ r.next <= n
           /\ w = <<>> => r.next = Len(l)
           /\ w # <<>> => w = <<Len(l)>> /\ r.next = Len(l) + 1
<1>1. r.next = Len(l) + Len(w) /\ Len(l) <= n /\ Len(l) \in Nat
  BY DEF Continues
<1>2. CASE w = <<>>
  BY <1>1, <1>2
<1>3. CASE w # <<>>
  <2>1. w = <<Len(l)>> /\ Len(l) < n
    BY <1>3 DEF Continues
  <2>2. Len(w) = 1
    BY <2>1
  <2> QED
    BY <1>1, <1>3, <2>1, <2>2
<1> QED
  BY <1>2, <1>3

LEMMA ClosedContinues ==
    ASSUME NEW r, NEW w, NEW l \in Seq(Nat), NEW n \in Nat, Continues(r, w, l, n)
    PROVE  Continues(Closed, w, l, n) /\ Continues(Closed, <<>>, l, n)
  BY DEF Continues, Closed

LEMMA ReleaseTypes ==
    ASSUME TypeOK, NEW k \in Readers, Release(k)
    PROVE  streams' \in Nat /\ perRun' \in [Runs -> Nat]
<1>1. streams \in Nat /\ perRun \in [Runs -> Nat]
  BY DEF TypeOK
<1>2. CASE rd[k].sse /\ rd[k].pc # "closed"
  <2>1. /\ streams' = streams + 1
        /\ perRun' = IF rd[k].pc = "acquire" THEN perRun
                     ELSE [perRun EXCEPT ![Follows[k]] = @ + 1]
    BY <1>2 DEF Release
  <2> QED
    BY <1>1, <2>1, ConstantTypes
<1>3. CASE ~(rd[k].sse /\ rd[k].pc # "closed")
  BY <1>1, <1>3 DEF Release
<1> QED
  BY <1>2, <1>3

LEMMA NextMoves ==
    ASSUME NEW r \in Connections
    PROVE  [r EXCEPT !.next = @ + 1] \in Connections
<1>1. r.next + 1 \in Nat
  BY DEF Connections
<1>2. \A n \in Nat : [r EXCEPT !.next = n] \in Connections
  BY DEF Connections
<1> QED
  BY <1>1, <1>2

(* A page that goes on where the log ends.                                 *)
LEMMA PageJoins ==
    ASSUME NEW l \in Seq(Nat), NEW p \in Seq(Nat),
           \A i \in 1..Len(l) : l[i] = i - 1,
           \A i \in 1..Len(p) : p[i] = Len(l) + i - 1
    PROVE  /\ l \o p \in Seq(Nat) /\ Len(l \o p) = Len(l) + Len(p)
           /\ \A i \in 1..Len(l \o p) : (l \o p)[i] = i - 1
<1>1. l \o p \in Seq(Nat) /\ Len(l \o p) = Len(l) + Len(p)
  OBVIOUS
<1>2. ASSUME NEW i \in 1..Len(l \o p) PROVE (l \o p)[i] = i - 1
  <2>1. i \in Nat /\ Len(l) \in Nat /\ Len(p) \in Nat
    BY <1>1
  <2>2. CASE i <= Len(l)
    BY <1>1, <2>1, <2>2
  <2>3. CASE i > Len(l)
    <3>1. i - Len(l) \in 1..Len(p) /\ (l \o p)[i] = p[i - Len(l)]
      BY <1>1, <2>1, <2>3
    <3>2. p[i - Len(l)] = Len(l) + (i - Len(l)) - 1
      BY <3>1
    <3> QED
      BY <2>1, <3>1, <3>2
  <2> QED
    BY <2>1, <2>2, <2>3
<1> QED
  BY <1>1, <1>2

LEMMA ClosedType == Closed \in Connections /\ NoWrite \in Appends
  BY DEF Closed, Connections, NoWrite, Appends

--------------------------------------------------------------------------------
(* What the connection and the wire hold continues the client's log.       *)
LEMMA FollowStep ==
    ASSUME FollowInv, [Next]_vars
    PROVE  FollowInv'
<1> USE ConstantTypes, ClosedType
<1>t. TypeOK /\ (\A k \in Readers : Follower(k))
  BY DEF FollowInv
<1>1. ASSUME NEW w \in Writers, NEW r \in Runs, AppendQueue(w, r) PROVE FollowInv'
  <2>1. \A k \in Readers : Follower(k)'
    BY <1>t, <1>1 DEF AppendQueue, Follower
  <2>2. TypeOK'
    BY <1>t, <1>1 DEF AppendQueue, TypeOK, Appends
  <2> QED
    BY <2>1, <2>2 DEF FollowInv
<1>2. ASSUME NEW w \in Writers, AppendAcquire(w) PROVE FollowInv'
  <2>1. \A k \in Readers : Follower(k)'
    BY <1>t, <1>2 DEF AppendAcquire, Follower
  <2>2. TypeOK'
    BY <1>t, <1>2, Zenon DEF AppendAcquire, TypeOK, Appends
  <2> QED
    BY <2>1, <2>2 DEF FollowInv
<1>3. ASSUME NEW w \in Writers, append_transition(w) PROVE FollowInv'
  <2>1. writer[w].run \in Runs /\ writer[w].seq \in Nat
    BY <1>t, <1>3 DEF append_transition, TypeOK, Appends
  <2>2. len' \in [Runs -> Nat] /\ \A q \in Runs : len[q] <= len'[q]
    BY <1>t, <1>3, <2>1, AppendGrows DEF append_transition
  <2>3. \A k \in Readers : Follower(k)'
    BY <1>3, <2>2, JournalGrows DEF append_transition
  <2>4. TypeOK'
    BY <1>t, <1>3, <2>2 DEF append_transition, TypeOK, Appends, NoWrite
  <2> QED
    BY <2>3, <2>4 DEF FollowInv
<1>4. CASE DropCommand
  <2>1. \A k \in Readers : Follower(k)'
    BY <1>t, <1>4 DEF DropCommand, Follower
  <2>2. "command" \in Writers
    BY DEF Writers
  <2>3. /\ writer' = [writer EXCEPT !["command"] = NoWrite]
        /\ faults' \in Nat
        /\ UNCHANGED <<len, rd, streams, perRun, wire, log>>
    BY <1>t, <1>4 DEF DropCommand, Fails, TypeOK
  <2>4. /\ writer' \in [Writers -> Appends]
        /\ \A w \in Writers : writer'[w].pc # "idle" => writer'[w].run \in Runs
    BY <1>t, <2>2, <2>3 DEF TypeOK, NoWrite
  <2>5. permit' \in BOOLEAN /\ detached' \in SUBSET [run : Runs, seq : Nat]
    <3>1. writer["command"].run \in Runs /\ writer["command"].seq \in Nat
      BY <1>t, <1>4, <2>2 DEF DropCommand, TypeOK, Appends
    <3>2. CASE writer["command"].pc = "running"
      BY <1>t, <1>4, <3>1, <3>2 DEF DropCommand, TypeOK
    <3>3. CASE writer["command"].pc # "running"
      BY <1>t, <1>4, <3>3 DEF DropCommand, TypeOK
    <3> QED
      BY <3>2, <3>3
  <2>6. TypeOK'
    BY <1>t, <2>3, <2>4, <2>5 DEF TypeOK
  <2> QED
    BY <2>1, <2>6 DEF FollowInv
<1>5. ASSUME NEW d \in detached, DetachedCommit(d) PROVE FollowInv'
  <2>1. d.run \in Runs /\ d.seq \in Nat
    BY <1>t DEF TypeOK
  <2>2. len' \in [Runs -> Nat] /\ \A q \in Runs : len[q] <= len'[q]
    BY <1>t, <1>5, <2>1, AppendGrows DEF DetachedCommit
  <2>3. \A k \in Readers : Follower(k)'
    BY <1>5, <2>2, JournalGrows DEF DetachedCommit
  <2>4. TypeOK'
    BY <1>t, <1>5, <2>2 DEF DetachedCommit, TypeOK
  <2> QED
    BY <2>3, <2>4 DEF FollowInv
<1>6. ASSUME NEW k \in Readers, Connect(k) PROVE FollowInv'
  <2> DEFINE r == [pc |-> "acquire", sse |-> TRUE, next |-> Len(log[k]), row |-> 0, hi |-> 0]
  <2>1. rd[k] \in Connections /\ log[k] \in Seq(Nat) /\ len[Follows[k]] \in Nat
    BY <1>t DEF TypeOK
  <2>2. r \in Connections /\ Set(k, r) /\ UNCHANGED <<len, wire, log>>
    BY <1>6, <2>1 DEF Connect, Connections
  <2>3. Continues(rd[k], wire[k], log[k], len[Follows[k]])
    BY <1>t DEF Follower
  <2>4. Continues(r, wire[k], log[k], len[Follows[k]])
    BY <1>6, <2>1, <2>3 DEF Connect, Continues, Connections
  <2> HIDE DEF r
  <2>5. /\ rd' \in [Readers -> Connections] /\ rd'[k] = r
        /\ \A j \in Readers : j # k => rd'[j] = rd[j]
    BY <1>t, <2>2, SetOne
  <2>6. \A j \in Readers : Follower(j)'
    BY <2>2, <2>4, <2>5, OneFollower DEF Follower
  <2>7. TypeOK'
    BY <1>t, <1>6, <2>5, SMTT(30) DEF Connect, TypeOK
  <2> QED
    BY <2>6, <2>7 DEF FollowInv
<1>7. ASSUME NEW k \in Readers, Poll(k) PROVE FollowInv'
  <2> DEFINE r == [pc |-> "open", sse |-> FALSE, next |-> Len(log[k]), row |-> 0,
                   hi |-> Len(log[k])]
  <2>1. rd[k] \in Connections /\ log[k] \in Seq(Nat) /\ len[Follows[k]] \in Nat
    BY <1>t DEF TypeOK
  <2>2. r \in Connections /\ Set(k, r) /\ UNCHANGED <<len, wire, log>>
    BY <1>7, <2>1, SMTT(30) DEF Poll, Connections
  <2>3. Continues(rd[k], wire[k], log[k], len[Follows[k]])
    BY <1>t DEF Follower
  <2>4. Continues(r, wire[k], log[k], len[Follows[k]])
    BY <1>7, <2>1, <2>3 DEF Poll, Continues, Connections
  <2> HIDE DEF r
  <2>5. /\ rd' \in [Readers -> Connections] /\ rd'[k] = r
        /\ \A j \in Readers : j # k => rd'[j] = rd[j]
    BY <1>t, <2>2, SetOne
  <2>6. \A j \in Readers : Follower(j)'
    BY <2>2, <2>4, <2>5, OneFollower DEF Follower
  <2>7. TypeOK'
    BY <1>t, <1>7, <2>5 DEF Poll, TypeOK
  <2> QED
    BY <2>6, <2>7 DEF FollowInv
<1>8. ASSUME NEW k \in Readers, ReadQueue(k) PROVE FollowInv'
  <2> DEFINE r == [rd[k] EXCEPT !.pc = "queued"]
  <2>1. rd[k] \in Connections /\ log[k] \in Seq(Nat) /\ len[Follows[k]] \in Nat
    BY <1>t DEF TypeOK
  <2>2. r \in Connections /\ Set(k, r) /\ UNCHANGED <<len, wire, log>>
    BY <1>8, <2>1, Zenon DEF ReadQueue, Connections
  <2>3. Continues(rd[k], wire[k], log[k], len[Follows[k]])
    BY <1>t DEF Follower
  <2>4. Continues(r, wire[k], log[k], len[Follows[k]])
    BY <1>8, <2>1, <2>3, Zenon DEF ReadQueue, Continues, Connections
  <2> HIDE DEF r
  <2>5. /\ rd' \in [Readers -> Connections] /\ rd'[k] = r
        /\ \A j \in Readers : j # k => rd'[j] = rd[j]
    BY <1>t, <2>2, SetOne
  <2>6. \A j \in Readers : Follower(j)'
    BY <2>2, <2>4, <2>5, OneFollower DEF Follower
  <2>7. TypeOK'
    BY <1>t, <1>8, <2>5 DEF ReadQueue, TypeOK
  <2> QED
    BY <2>6, <2>7 DEF FollowInv
<1>9. ASSUME NEW k \in Readers, ReadAcquire(k) PROVE FollowInv'
  <2> DEFINE r == [rd[k] EXCEPT !.pc = "row"]
  <2>1. rd[k] \in Connections /\ log[k] \in Seq(Nat) /\ len[Follows[k]] \in Nat
    BY <1>t DEF TypeOK
  <2>2. r \in Connections /\ Set(k, r) /\ UNCHANGED <<len, wire, log>>
    BY <1>9, <2>1, Zenon DEF ReadAcquire, Connections
  <2>3. Continues(rd[k], wire[k], log[k], len[Follows[k]])
    BY <1>t DEF Follower
  <2>4. Continues(r, wire[k], log[k], len[Follows[k]])
    BY <1>9, <2>1, <2>3, Zenon DEF ReadAcquire, Continues, Connections
  <2> HIDE DEF r
  <2>5. /\ rd' \in [Readers -> Connections] /\ rd'[k] = r
        /\ \A j \in Readers : j # k => rd'[j] = rd[j]
    BY <1>t, <2>2, SetOne
  <2>6. \A j \in Readers : Follower(j)'
    BY <2>2, <2>4, <2>5, OneFollower DEF Follower
  <2>7. TypeOK'
    BY <1>t, <1>9, <2>5, Zenon DEF ReadAcquire, TypeOK
  <2> QED
    BY <2>6, <2>7 DEF FollowInv
<1>10. ASSUME NEW k \in Readers, ReadRow(k) PROVE FollowInv'
  <2> DEFINE r == [rd[k] EXCEPT !.pc = "events", !.row = len[Follows[k]]]
  <2>1. rd[k] \in Connections /\ log[k] \in Seq(Nat) /\ len[Follows[k]] \in Nat
    BY <1>t DEF TypeOK
  <2>2. r \in Connections /\ Set(k, r) /\ UNCHANGED <<len, wire, log>>
    BY <1>10, <2>1, Zenon DEF ReadRow, Connections
  <2>3. Continues(rd[k], wire[k], log[k], len[Follows[k]])
    BY <1>t DEF Follower
  <2>4. Continues(r, wire[k], log[k], len[Follows[k]])
    BY <1>10, <2>1, <2>3, Zenon DEF ReadRow, Continues, Connections
  <2> HIDE DEF r
  <2>5. /\ rd' \in [Readers -> Connections] /\ rd'[k] = r
        /\ \A j \in Readers : j # k => rd'[j] = rd[j]
    BY <1>t, <2>2, SetOne
  <2>6. \A j \in Readers : Follower(j)'
    BY <2>2, <2>4, <2>5, OneFollower DEF Follower
  <2>7. TypeOK'
    BY <1>t, <1>10, <2>5 DEF ReadRow, TypeOK
  <2> QED
    BY <2>6, <2>7 DEF FollowInv
<1>11. ASSUME NEW k \in Readers, AcquireRun(k) PROVE FollowInv'
  <2> DEFINE r == IF perRun[Follows[k]] > 0
                  THEN [rd[k] EXCEPT !.pc = "open", !.hi = rd[k].next] ELSE Closed
  <2>1. rd[k] \in Connections /\ log[k] \in Seq(Nat) /\ len[Follows[k]] \in Nat
    BY <1>t DEF TypeOK
  <2>2. Continues(rd[k], wire[k], log[k], len[Follows[k]])
    BY <1>t DEF Follower
  <2>3. r \in Connections /\ Set(k, r) /\ UNCHANGED <<len, wire, log>>
    BY <1>11, <2>1, Zenon DEF AcquireRun, Connections
  <2>4. Continues(r, wire[k], log[k], len[Follows[k]])
    <3>1. CASE perRun[Follows[k]] > 0
      <4>1. rd[k].pc = "acquire"
        BY <1>11 DEF AcquireRun
      <4>2. rd[k].next <= len[Follows[k]]
        BY <2>1, <2>2, <4>1, Standing, Zenon
      <4>3. r.pc = "open" /\ r.hi = rd[k].next /\ r.next = rd[k].next /\ r.sse = rd[k].sse
        BY <2>1, <3>1 DEF Connections
      <4>4. rd[k].next \in Nat /\ rd[k].next = Len(log[k]) + Len(wire[k])
        BY <2>1, <2>2, <4>1, Zenon DEF Continues, Connections
      <4>5. rd[k].next <= rd[k].next
        BY <4>4
      <4>6. /\ \A i \in 1..Len(log[k]) : log[k][i] = i - 1
            /\ Len(log[k]) <= len[Follows[k]]
            /\ \/ wire[k] = <<>>
               \/ wire[k] = <<Len(log[k])>> /\ Len(log[k]) < len[Follows[k]]
            /\ ~rd[k].sse => wire[k] = <<>>
        BY <2>2, <4>1 DEF Continues
      <4> HIDE DEF r
      <4> QED
        BY <4>2, <4>3, <4>4, <4>5, <4>6, Zenon DEF Continues
    <3>2. CASE ~(perRun[Follows[k]] > 0)
      BY <2>1, <2>2, <3>2, ClosedContinues
    <3> QED
      BY <3>1, <3>2
  <2> HIDE DEF r
  <2>5. /\ rd' \in [Readers -> Connections] /\ rd'[k] = r
        /\ \A j \in Readers : j # k => rd'[j] = rd[j]
    BY <1>t, <2>3, SetOne
  <2>6. \A j \in Readers : Follower(j)'
    BY <2>3, <2>4, <2>5, OneFollower DEF Follower
  <2>7. streams' \in Nat /\ perRun' \in [Runs -> Nat]
    <3>1. streams \in Nat /\ perRun \in [Runs -> Nat]
      BY <1>t DEF TypeOK
    <3>2. CASE perRun[Follows[k]] > 0
      <4>1. UNCHANGED streams /\ perRun' = [perRun EXCEPT ![Follows[k]] = @ - 1]
        BY <1>11, <3>2 DEF AcquireRun
      <4> QED
        BY <3>1, <3>2, <4>1
    <3>3. CASE ~(perRun[Follows[k]] > 0)
      BY <1>11, <3>1, <3>3 DEF AcquireRun
    <3> QED
      BY <3>2, <3>3
  <2>8. TypeOK'
    BY <1>t, <1>11, <2>5, <2>7, Zenon DEF AcquireRun, TypeOK
  <2> QED
    BY <2>6, <2>8 DEF FollowInv
<1>12. ASSUME NEW k \in Readers, ReadEvents(k) PROVE FollowInv'
  <2> DEFINE r == IF Torn(k) \/ Beyond(k) THEN Closed
                  ELSE [rd[k] EXCEPT !.pc = IF rd[k].sse THEN "open" ELSE "answer",
                                     !.row = 0, !.hi = PageEnd(k)]
  <2>1. rd[k] \in Connections /\ log[k] \in Seq(Nat) /\ len[Follows[k]] \in Nat
    BY <1>t DEF TypeOK
  <2>2. Continues(rd[k], wire[k], log[k], len[Follows[k]])
    BY <1>t DEF Follower
  <2>3. Set(k, r) /\ UNCHANGED <<len, wire, log>>
    BY <1>12 DEF ReadEvents
  <2>4. r \in Connections /\ Continues(r, wire[k], log[k], len[Follows[k]])
    <3>1. CASE Torn(k) \/ Beyond(k)
      BY <2>1, <2>2, <3>1, ClosedContinues
    <3>2. CASE ~(Torn(k) \/ Beyond(k))
      <4>1. PageEnd(k) \in Nat /\ rd[k].next <= PageEnd(k) /\ PageEnd(k) <= len[Follows[k]]
        BY <2>1, <3>2, SMTT(30) DEF PageEnd, Least, Beyond, Connections
      <4> QED
        BY <1>12, <2>1, <2>2, <3>2, <4>1, Zenon DEF ReadEvents, Continues, Connections
    <3> QED
      BY <3>1, <3>2
  <2> HIDE DEF r
  <2>5. /\ rd' \in [Readers -> Connections] /\ rd'[k] = r
        /\ \A j \in Readers : j # k => rd'[j] = rd[j]
    BY <1>t, <2>3, <2>4, SetOne
  <2>6. \A j \in Readers : Follower(j)'
    BY <2>3, <2>4, <2>5, OneFollower DEF Follower
  <2>7. streams' \in Nat /\ perRun' \in [Runs -> Nat]
    <3>1. CASE Torn(k) \/ Beyond(k)
      BY <1>t, <1>12, <3>1, ReleaseTypes DEF ReadEvents
    <3>2. CASE ~(Torn(k) \/ Beyond(k))
      BY <1>t, <1>12, <3>2 DEF ReadEvents, TypeOK
    <3> QED
      BY <3>1, <3>2
  <2>8. TypeOK'
    BY <1>t, <1>12, <2>5, <2>7, Zenon DEF ReadEvents, TypeOK
  <2> QED
    BY <2>6, <2>8 DEF FollowInv
<1>13. ASSUME NEW k \in Readers, Send(k) PROVE FollowInv'
  <2> DEFINE r == [rd[k] EXCEPT !.next = @ + 1]
  <2>1. rd[k] \in Connections /\ log[k] \in Seq(Nat) /\ len[Follows[k]] \in Nat
    BY <1>t DEF TypeOK
  <2>2. Continues(rd[k], wire[k], log[k], len[Follows[k]])
    BY <1>t DEF Follower
  <2>3. /\ r \in Connections /\ Set(k, r) /\ UNCHANGED <<len, log>>
        /\ wire' = [wire EXCEPT ![k] = <<rd[k].next>>] /\ wire[k] = <<>>
        /\ rd[k].pc = "open" /\ rd[k].sse /\ rd[k].next < rd[k].hi
    <3>1. r \in Connections
      BY <2>1, NextMoves
    <3> QED
      BY <1>13, <3>1 DEF Send
  <2>4. rd[k].next = Len(log[k])
    BY <2>1, <2>2, <2>3, Standing, Zenon
  <2>5. Continues(r, <<rd[k].next>>, log[k], len[Follows[k]])
    <3>1. Len(<<rd[k].next>>) = 1 /\ <<rd[k].next>> = <<Len(log[k])>>
      BY <2>4
    <3>2. rd[k].next <= rd[k].hi /\ rd[k].hi <= len[Follows[k]]
      BY <2>2, <2>3 DEF Continues
    <3>3. /\ r.next = Len(log[k]) + 1 /\ r.hi = rd[k].hi /\ r.pc = "open" /\ r.sse
          /\ Len(log[k]) < rd[k].hi /\ Len(log[k]) \in Nat /\ rd[k].hi \in Nat
      BY <2>1, <2>3, <2>4, Zenon DEF Connections
    <3>4. \A i \in 1..Len(log[k]) : log[k][i] = i - 1
      BY <2>2 DEF Continues
    <3> QED
      BY <2>1, <3>1, <3>2, <3>3, <3>4 DEF Continues
  <2> HIDE DEF r
  <2>6. /\ rd' \in [Readers -> Connections] /\ rd'[k] = r
        /\ \A j \in Readers : j # k => rd'[j] = rd[j]
    BY <1>t, <2>3, SetOne
  <2>7. /\ wire' \in [Readers -> Seq(Nat)] /\ wire'[k] = <<rd[k].next>>
        /\ \A j \in Readers : j # k => wire'[j] = wire[j]
    BY <1>t, <2>1, <2>3 DEF TypeOK, Connections
  <2>8. \A j \in Readers : Follower(j)'
    BY <2>3, <2>5, <2>6, <2>7, OneFollower DEF Follower
  <2>9. TypeOK'
    BY <1>t, <1>13, <2>6, <2>7, Zenon DEF Send, TypeOK
  <2> QED
    BY <2>8, <2>9 DEF FollowInv
<1>14. ASSUME NEW k \in Readers, Receive(k) PROVE FollowInv'
  <2>1. rd[k] \in Connections /\ log[k] \in Seq(Nat) /\ len[Follows[k]] \in Nat
    BY <1>t DEF TypeOK
  <2>2. Continues(rd[k], wire[k], log[k], len[Follows[k]])
    BY <1>t DEF Follower
  <2>3. /\ wire[k] # <<>> /\ UNCHANGED <<len, rd>>
        /\ log' = [log EXCEPT ![k] = @ \o wire[k]] /\ wire' = [wire EXCEPT ![k] = <<>>]
    BY <1>14 DEF Receive
  <2>4. wire[k] = <<Len(log[k])>> /\ Len(log[k]) < len[Follows[k]]
    BY <2>2, <2>3 DEF Continues
  <2>5. log[k] \o wire[k] = Append(log[k], Len(log[k]))
    BY <2>1, <2>4
  <2>6. Continues(rd[k], <<>>, Append(log[k], Len(log[k])), len[Follows[k]])
    BY <2>1, <2>2, <2>4, SMTT(30) DEF Continues, Connections
  <2>7. /\ wire' \in [Readers -> Seq(Nat)] /\ wire'[k] = <<>>
        /\ \A j \in Readers : j # k => wire'[j] = wire[j]
    BY <1>t, <2>3 DEF TypeOK
  <2>8. /\ log' \in [Readers -> Seq(Nat)] /\ log'[k] = Append(log[k], Len(log[k]))
        /\ \A j \in Readers : j # k => log'[j] = log[j]
    BY <1>t, <2>1, <2>3, <2>5 DEF TypeOK
  <2>9. \A j \in Readers : Follower(j)'
    BY <2>3, <2>6, <2>7, <2>8, OneFollower, ZenonT(60) DEF Follower
  <2>10. TypeOK'
    BY <1>t, <1>14, <2>7, <2>8, Zenon DEF Receive, TypeOK
  <2> QED
    BY <2>9, <2>10 DEF FollowInv
<1>15. ASSUME NEW k \in Readers, PageAnswer(k) PROVE FollowInv'
  <2>1. rd[k] \in Connections /\ log[k] \in Seq(Nat) /\ len[Follows[k]] \in Nat
    BY <1>t DEF TypeOK
  <2>2. Continues(rd[k], wire[k], log[k], len[Follows[k]])
    BY <1>t DEF Follower
  <2>3. /\ rd[k].pc = "answer" /\ Set(k, Closed) /\ UNCHANGED <<len, wire>>
        /\ log' = IF validate_event_page(Page(k), Len(log[k]))
                  THEN [log EXCEPT ![k] = @ \o Page(k)] ELSE log
    BY <1>15 DEF PageAnswer
  <2>4. /\ wire[k] = <<>> /\ rd[k].next = Len(log[k])
        /\ rd[k].next <= rd[k].hi /\ rd[k].hi <= len[Follows[k]]
    <3>1. /\ wire[k] = <<>>
          /\ rd[k].next <= rd[k].hi /\ rd[k].hi <= len[Follows[k]]
      BY <2>2, <2>3 DEF Continues
    <3>2. rd[k].pc # "closed"
      BY <2>3
    <3>3. rd[k].next = Len(log[k])
      <4>1. wire[k] = <<>> => rd[k].next = Len(log[k])
        BY ONLY <2>1, <2>2, <3>2, Standing, Zenon
      <4> QED
        BY <3>1, <4>1
    <3> QED
      BY <3>1, <3>3
  <2>5. Page(k) \in Seq(Nat) /\ Len(Page(k)) = rd[k].hi - rd[k].next
    <3>1. rd[k].next \in Nat /\ rd[k].hi \in Nat
      BY <2>1 DEF Connections
    <3>2. rd[k].hi - rd[k].next \in Nat
      BY <2>4, <3>1
    <3> DEFINE m == rd[k].hi - rd[k].next
    <3>3. \A i \in 1..m : rd[k].next + i - 1 \in Nat
      BY <3>1, <3>2
    <3>4. Page(k) \in [1..m -> Nat]
      BY <3>3 DEF Page
    <3> HIDE DEF m
    <3>5. Page(k) \in Seq(Nat) /\ Len(Page(k)) = m
      BY <3>2, <3>4 DEF m
    <3> QED
      BY <3>5 DEF m
  <2>6. \A i \in 1..Len(Page(k)) : Page(k)[i] = rd[k].next + i - 1
    BY <2>5, Zenon DEF Page
  <2> DEFINE l == log[k] \o Page(k)
  <2>7. /\ l \in Seq(Nat) /\ Len(l) = Len(log[k]) + Len(Page(k))
        /\ \A i \in 1..Len(l) : l[i] = i - 1
    <3>1. \A i \in 1..Len(log[k]) : log[k][i] = i - 1
      BY <2>2 DEF Continues
    <3>2. \A i \in 1..Len(Page(k)) : Page(k)[i] = Len(log[k]) + i - 1
      BY <2>4, <2>6
    <3> QED
      BY <2>1, <2>5, <3>1, <3>2, PageJoins, Zenon
  <2>8. Len(l) = rd[k].hi
    <3>1. rd[k].hi \in Nat /\ Len(log[k]) \in Nat
      BY <2>1 DEF Connections
    <3> HIDE DEF l
    <3> QED
      BY <2>4, <2>5, <2>7, <3>1
  <2>9. Continues(Closed, <<>>, l, len[Follows[k]])
    <3> HIDE DEF l
    <3> QED
      BY <2>4, <2>7, <2>8, Zenon DEF Continues, Closed
  <2> HIDE DEF l
  <2>10. Continues(Closed, <<>>, log[k], len[Follows[k]])
    BY <2>1, <2>2, ClosedContinues
  <2>11. /\ log' \in [Readers -> Seq(Nat)]
         /\ log'[k] = l \/ log'[k] = log[k]
         /\ \A j \in Readers : j # k => log'[j] = log[j]
    BY <1>t, <2>1, <2>3, <2>7, Zenon DEF TypeOK, l
  <2>12. /\ rd' \in [Readers -> Connections] /\ rd'[k] = Closed
         /\ \A j \in Readers : j # k => rd'[j] = rd[j]
    BY <1>t, <2>3, SetOne
  <2>13. \A j \in Readers : Follower(j)'
    BY <2>3, <2>4, <2>9, <2>10, <2>11, <2>12, OneFollower, Zenon DEF Follower
  <2>14. TypeOK'
    BY <1>t, <1>15, <2>11, <2>12, Zenon DEF PageAnswer, TypeOK
  <2> QED
    BY <2>13, <2>14 DEF FollowInv
<1>16. ASSUME NEW k \in Readers, Deadline(k) \/ Lose(k) PROVE FollowInv'
  <2>1. rd[k] \in Connections /\ log[k] \in Seq(Nat) /\ len[Follows[k]] \in Nat
    BY <1>t DEF TypeOK
  <2>2. Continues(rd[k], wire[k], log[k], len[Follows[k]])
    BY <1>t DEF Follower
  <2>3. /\ Set(k, Closed) /\ Release(k) /\ UNCHANGED <<len, log, writer, detached>>
        /\ wire' = wire \/ wire' = [wire EXCEPT ![k] = <<>>]
        /\ faults' \in Nat /\ permit' \in BOOLEAN
    <3>1. faults \in Nat /\ permit \in BOOLEAN
      BY <1>t DEF TypeOK
    <3>2. CASE Deadline(k)
      BY <3>1, <3>2 DEF Deadline
    <3>3. CASE Lose(k)
      BY <3>1, <3>3 DEF Lose, Fails
    <3> QED
      BY <1>16, <3>2, <3>3
  <2>4. /\ Continues(Closed, wire[k], log[k], len[Follows[k]])
        /\ Continues(Closed, <<>>, log[k], len[Follows[k]])
    BY <2>1, <2>2, ClosedContinues
  <2>5. /\ rd' \in [Readers -> Connections] /\ rd'[k] = Closed
        /\ \A j \in Readers : j # k => rd'[j] = rd[j]
    BY <1>t, <2>3, SetOne
  <2>6. /\ wire' \in [Readers -> Seq(Nat)] /\ (wire'[k] = wire[k] \/ wire'[k] = <<>>)
        /\ \A j \in Readers : j # k => wire'[j] = wire[j]
    <3>1. wire \in [Readers -> Seq(Nat)]
      BY <1>t DEF TypeOK
    <3>2. CASE wire' = wire
      BY <3>1, <3>2
    <3>3. CASE wire' = [wire EXCEPT ![k] = <<>>]
      BY <3>1, <3>3
    <3> QED
      BY <2>3, <3>2, <3>3
  <2>7. \A j \in Readers : Follower(j)'
    BY <2>3, <2>4, <2>5, <2>6, OneFollower, Zenon DEF Follower
  <2>8. streams' \in Nat /\ perRun' \in [Runs -> Nat]
    BY <1>t, <2>3, ReleaseTypes
  <2>9. TypeOK'
    BY <1>t, <2>3, <2>5, <2>6, <2>8, Zenon DEF TypeOK
  <2> QED
    BY <2>7, <2>9 DEF FollowInv
<1>17. CASE Crash
  <2>1. \A k \in Readers : Follower(k)'
    <3> SUFFICES ASSUME NEW k \in Readers PROVE Follower(k)'
      OBVIOUS
    <3>1. log[k] \in Seq(Nat) /\ len[Follows[k]] \in Nat
      BY <1>t DEF TypeOK
    <3>2. Continues(Closed, <<>>, log[k], len[Follows[k]])
      BY <1>t, <3>1, ClosedContinues DEF Follower
    <3>3. rd'[k] = Closed /\ wire'[k] = <<>> /\ UNCHANGED <<len, log>>
      BY <1>17 DEF Crash
    <3> QED
      BY <3>2, <3>3 DEF Follower
  <2>2. TypeOK'
    BY <1>t, <1>17 DEF Crash, Fails, TypeOK, NoWrite
  <2> QED
    BY <2>1, <2>2 DEF FollowInv
<1>18. CASE UNCHANGED vars
  BY <1>18, Zenon DEF vars, FollowInv, TypeOK, Follower
<1> QED
  BY <1>1, <1>2, <1>3, <1>4, <1>5, <1>6, <1>7, <1>8, <1>9, <1>10, <1>11, <1>12, <1>13,
     <1>14, <1>15, <1>16, <1>17, <1>18
  DEF Next, Writing, Reading

--------------------------------------------------------------------------------
(* The permit of the adapter has at most one holder.                       *)

LEMMA PermitKept ==
    ASSUME Exclusive, UNCHANGED permit,
           \A k \in Readers : Reads(k)' => Reads(k),
           \A w \in Writers : Writes(w)' => Writes(w)
    PROVE  Exclusive'
  BY Zenon DEF Exclusive

LEMMA PermitFreed ==
    ASSUME \A k \in Readers : ~Reads(k)', \A w \in Writers : ~Writes(w)'
    PROVE  Exclusive'
  BY Zenon DEF Exclusive

(* A step of one connection that does not enter the adapter.               *)
LEMMA OutsideStep ==
    ASSUME TypeOK, Exclusive, NEW k \in Readers, NEW r \in Connections, Set(k, r),
           r.pc \in {"row", "events"} => Reads(k), UNCHANGED <<permit, writer>>
    PROVE  Exclusive'
<1>1. rd'[k] = r /\ \A j \in Readers : j # k => rd'[j] = rd[j]
  BY SetOne
<1>2. \A j \in Readers : Reads(j)' => Reads(j)
  BY <1>1 DEF Reads
<1>3. \A w \in Writers : Writes(w)' => Writes(w)
  BY DEF Writes
<1> QED
  BY <1>2, <1>3, PermitKept

(* A reader that leaves the adapter frees the permit.                      *)
LEMMA ReaderLeaves ==
    ASSUME TypeOK, Exclusive, NEW k \in Readers, NEW r \in Connections, Set(k, r),
           r.pc \notin {"row", "events"}, Reads(k), UNCHANGED writer
    PROVE  Exclusive'
<1>1. rd'[k] = r /\ \A j \in Readers : j # k => rd'[j] = rd[j]
  BY SetOne
<1>2. \A j \in Readers : ~Reads(j)'
  BY <1>1 DEF Reads, Exclusive
<1>3. \A w \in Writers : ~Writes(w)'
  BY DEF Writes, Exclusive
<1> QED
  BY <1>2, <1>3, PermitFreed

(* So does a writer.                                                       *)
LEMMA WriterLeaves ==
    ASSUME TypeOK, Exclusive, NEW w \in Writers, Writes(w),
           writer' = [writer EXCEPT ![w] = NoWrite], UNCHANGED rd
    PROVE  Exclusive'
<1>1. writer'[w] = NoWrite /\ \A v \in Writers : v # w => writer'[v] = writer[v]
  BY DEF TypeOK
<1>2. \A j \in Readers : ~Reads(j)'
  BY DEF Reads, Exclusive
<1>3. \A v \in Writers : ~Writes(v)'
  BY <1>1 DEF Writes, Exclusive, NoWrite
<1> QED
  BY <1>2, <1>3, PermitFreed

LEMMA ExclusiveStep ==
    ASSUME FollowInv, Exclusive, [Next]_vars
    PROVE  Exclusive'
<1>t. TypeOK /\ \A k \in Readers : rd[k] \in Connections
  BY Zenon DEF FollowInv, TypeOK
<1>c. Closed \in Connections /\ Closed.pc = "closed"
  BY ClosedType DEF Closed
<1>1. ASSUME NEW w \in Writers, NEW r \in Runs, AppendQueue(w, r) PROVE Exclusive'
  <2>1. \A v \in Writers : Writes(v)' => Writes(v)
    BY <1>t, <1>1 DEF AppendQueue, Writes, TypeOK
  <2>2. UNCHANGED permit /\ \A k \in Readers : Reads(k)' => Reads(k)
    BY <1>1 DEF AppendQueue, Reads
  <2> QED
    BY <2>1, <2>2, PermitKept
<1>2. ASSUME NEW w \in Writers, AppendAcquire(w) PROVE Exclusive'
  <2>1. \A v \in Writers : v # w => ~Writes(v)'
    BY <1>t, <1>2 DEF AppendAcquire, Writes, TypeOK, Exclusive
  <2>2. permit' = FALSE /\ \A k \in Readers : ~Reads(k)'
    BY <1>2 DEF AppendAcquire, Reads, Exclusive
  <2> QED
    BY <2>1, <2>2, Zenon DEF Exclusive
<1>3. ASSUME NEW w \in Writers, append_transition(w) PROVE Exclusive'
  BY <1>t, <1>3, WriterLeaves, Zenon DEF append_transition, Writes
<1>4. CASE DropCommand
  <2>1. "command" \in Writers /\ writer' = [writer EXCEPT !["command"] = NoWrite] /\ UNCHANGED rd
    BY <1>4 DEF DropCommand, Writers
  <2>2. CASE Writes("command")
    BY <1>t, <2>1, <2>2, WriterLeaves, Zenon
  <2>3. CASE ~Writes("command")
    <3>1. UNCHANGED permit
      BY <1>4, <2>3 DEF DropCommand, Writes
    <3>2. \A v \in Writers : Writes(v)' => Writes(v)
      BY <1>t, <2>1 DEF Writes, NoWrite, TypeOK
    <3>3. \A k \in Readers : Reads(k)' => Reads(k)
      BY <2>1 DEF Reads
    <3> QED
      BY <3>1, <3>2, <3>3, PermitKept
  <2> QED
    BY <2>2, <2>3
<1>5. ASSUME NEW d \in detached, DetachedCommit(d) PROVE Exclusive'
  <2>1. UNCHANGED <<permit, writer, rd>>
    BY <1>5 DEF DetachedCommit
  <2> QED
    BY <2>1, PermitKept DEF Reads, Writes
<1>6. ASSUME NEW k \in Readers, Connect(k) PROVE Exclusive'
  <2> DEFINE r == [pc |-> "acquire", sse |-> TRUE, next |-> Len(log[k]), row |-> 0, hi |-> 0]
  <2>1. r \in Connections
    BY <1>t DEF TypeOK, Connections
  <2>2. r.pc \in {"row", "events"} => Reads(k)
    BY <1>t, <1>c, <1>6 DEF Connect, Reads, Connections
  <2>3. Set(k, r) /\ UNCHANGED <<permit, writer>>
    BY <1>6 DEF Connect
  <2> HIDE DEF r
  <2> QED
    BY <1>t, <2>1, <2>2, <2>3, OutsideStep
<1>7. ASSUME NEW k \in Readers, Poll(k) PROVE Exclusive'
  <2> DEFINE r == [pc |-> "open", sse |-> FALSE, next |-> Len(log[k]), row |-> 0,
                   hi |-> Len(log[k])]
  <2>1. r \in Connections
    BY <1>t DEF TypeOK, Connections
  <2>2. r.pc \in {"row", "events"} => Reads(k)
    BY <1>t, <1>c, <1>7 DEF Poll, Reads, Connections
  <2>3. Set(k, r) /\ UNCHANGED <<permit, writer>>
    BY <1>7 DEF Poll
  <2> HIDE DEF r
  <2> QED
    BY <1>t, <2>1, <2>2, <2>3, OutsideStep
<1>8. ASSUME NEW k \in Readers, ReadQueue(k) PROVE Exclusive'
  <2> DEFINE r == [rd[k] EXCEPT !.pc = "queued"]
  <2>1. r \in Connections
    BY <1>t, Zenon DEF Connections, TypeOK
  <2>2. r.pc \in {"row", "events"} => Reads(k)
    BY <1>t, <1>c, <1>8 DEF ReadQueue, Reads, Connections
  <2>3. Set(k, r) /\ UNCHANGED <<permit, writer>>
    BY <1>8 DEF ReadQueue
  <2> HIDE DEF r
  <2> QED
    BY <1>t, <2>1, <2>2, <2>3, OutsideStep
<1>9. ASSUME NEW k \in Readers, ReadRow(k) PROVE Exclusive'
  <2> DEFINE r == [rd[k] EXCEPT !.pc = "events", !.row = len[Follows[k]]]
  <2>1. r \in Connections
    BY <1>t, ConstantTypes, Zenon DEF Connections, TypeOK
  <2>2. r.pc \in {"row", "events"} => Reads(k)
    BY <1>t, <1>c, <1>9 DEF ReadRow, Reads, Connections
  <2>3. Set(k, r) /\ UNCHANGED <<permit, writer>>
    BY <1>9 DEF ReadRow
  <2> HIDE DEF r
  <2> QED
    BY <1>t, <2>1, <2>2, <2>3, OutsideStep
<1>10. ASSUME NEW k \in Readers, Send(k) PROVE Exclusive'
  <2> DEFINE r == [rd[k] EXCEPT !.next = @ + 1]
  <2>1. r \in Connections
    BY <1>t, NextMoves
  <2>2. r.pc \in {"row", "events"} => Reads(k)
    BY <1>t, <1>c, <1>10 DEF Send, Reads, Connections
  <2>3. Set(k, r) /\ UNCHANGED <<permit, writer>>
    BY <1>10 DEF Send
  <2> HIDE DEF r
  <2> QED
    BY <1>t, <2>1, <2>2, <2>3, OutsideStep
<1>11. ASSUME NEW k \in Readers, AcquireRun(k) PROVE Exclusive'
  <2> DEFINE r == IF perRun[Follows[k]] > 0
                  THEN [rd[k] EXCEPT !.pc = "open", !.hi = rd[k].next] ELSE Closed
  <2>1. r \in Connections
    BY <1>t, <1>c, Zenon DEF Connections
  <2>2. r.pc \in {"row", "events"} => Reads(k)
    BY <1>t, <1>c, <1>11 DEF AcquireRun, Reads, Connections
  <2>3. Set(k, r) /\ UNCHANGED <<permit, writer>>
    BY <1>11 DEF AcquireRun
  <2> HIDE DEF r
  <2> QED
    BY <1>t, <2>1, <2>2, <2>3, OutsideStep
<1>12. ASSUME NEW k \in Readers, PageAnswer(k) \/ Deadline(k) PROVE Exclusive'
  BY <1>t, <1>c, <1>12, OutsideStep DEF PageAnswer, Deadline
<1>13. ASSUME NEW k \in Readers, Receive(k) PROVE Exclusive'
  <2>1. UNCHANGED <<permit, writer, rd>>
    BY <1>13 DEF Receive
  <2> QED
    BY <2>1, PermitKept DEF Reads, Writes
<1>14. ASSUME NEW k \in Readers, ReadAcquire(k) PROVE Exclusive'
  <2>1. /\ permit /\ permit' = FALSE /\ UNCHANGED writer
        /\ rd' = [rd EXCEPT ![k] = [rd[k] EXCEPT !.pc = "row"]]
    BY <1>14 DEF ReadAcquire, Set
  <2>2. \A j \in Readers : j # k => ~Reads(j)'
    BY <1>t, <2>1 DEF Reads, Exclusive, TypeOK
  <2>3. \A w \in Writers : ~Writes(w)'
    BY <2>1 DEF Writes, Exclusive
  <2> QED
    BY <2>1, <2>2, <2>3, Zenon DEF Exclusive
<1>15. ASSUME NEW k \in Readers, ReadEvents(k) PROVE Exclusive'
  <2> DEFINE r == IF Torn(k) \/ Beyond(k) THEN Closed
                  ELSE [rd[k] EXCEPT !.pc = IF rd[k].sse THEN "open" ELSE "answer",
                                     !.row = 0, !.hi = PageEnd(k)]
  <2>1. PageEnd(k) \in Nat
    BY <1>t, ConstantTypes DEF PageEnd, Least, Connections, TypeOK
  <2>2. r \in Connections /\ r.pc \notin {"row", "events"}
    BY <1>t, <1>c, <2>1, Zenon DEF Connections
  <2>3. Set(k, r) /\ UNCHANGED writer /\ Reads(k)
    BY <1>15 DEF ReadEvents, Reads
  <2> HIDE DEF r
  <2> QED
    BY <1>t, <2>2, <2>3, ReaderLeaves
<1>16. ASSUME NEW k \in Readers, Lose(k) PROVE Exclusive'
  <2>1. Set(k, Closed) /\ UNCHANGED writer
    BY <1>16 DEF Lose
  <2>2. CASE Reads(k)
    BY <1>t, <1>c, <2>1, <2>2, ReaderLeaves
  <2>3. CASE ~Reads(k)
    <3>1. permit' = (permit \/ Reads(k)) /\ permit \in BOOLEAN
      BY <1>t, <1>16 DEF Lose, Reads, TypeOK
    <3>2. UNCHANGED permit
      BY <2>3, <3>1, Zenon
    <3> QED
      BY <1>t, <1>c, <2>1, <3>2, OutsideStep
  <2> QED
    BY <2>2, <2>3
<1>17. CASE Crash
  <2>1. \A k \in Readers : ~Reads(k)'
    BY <1>17 DEF Crash, Reads, Closed
  <2>2. \A w \in Writers : ~Writes(w)'
    BY <1>17 DEF Crash, Writes, NoWrite
  <2> QED
    BY <2>1, <2>2, PermitFreed
<1>18. CASE UNCHANGED vars
  BY <1>18, PermitKept DEF vars, Reads, Writes
<1> QED
  BY <1>1, <1>2, <1>3, <1>4, <1>5, <1>6, <1>7, <1>8, <1>9, <1>10, <1>11, <1>12, <1>13,
     <1>14, <1>15, <1>16, <1>17, <1>18
  DEF Next, Writing, Reading

--------------------------------------------------------------------------------
(* The stream permits are accounted for.                                   *)

InStream(r) == r.sse /\ r.pc # "closed"

InRun(r) == r.sse /\ r.pc \notin {"closed", "acquire"}

LEMMA StreamCounts ==
    /\ IsFiniteSet(Streams) /\ Cardinality(Streams) \in Nat
    /\ \A r : IsFiniteSet(RunStreams(r)) /\ Cardinality(RunStreams(r)) \in Nat
<1>1. IsFiniteSet(Readers)
  BY FeedAssumption
<1>2. \A S : S \subseteq Readers => IsFiniteSet(S) /\ Cardinality(S) \in Nat
  BY <1>1, FS_Subset, FS_CardinalityType
<1>3. Streams \subseteq Readers /\ \A r : RunStreams(r) \subseteq Readers
  BY DEF Streams, RunStreams
<1> QED
  BY <1>2, <1>3

LEMMA Accounted ==
    PermitsAccounted <=> /\ streams + Cardinality(Streams) = StreamLimit
                         /\ \A r \in Runs : perRun[r] + Cardinality(RunStreams(r)) = PerRunLimit
  BY DEF PermitsAccounted, Streams, RunStreams

LEMMA AccountedNext ==
    PermitsAccounted' <=> /\ streams' + Cardinality(Streams') = StreamLimit
                          /\ \A r \in Runs :
                                 perRun'[r] + Cardinality(RunStreams(r)') = PerRunLimit
  BY DEF PermitsAccounted, Streams, RunStreams

(* A response that keeps its part in the counts.                           *)
LEMMA CountsKept ==
    ASSUME PermitsAccounted, UNCHANGED <<streams, perRun>>,
           \A j \in Readers : /\ InStream(rd'[j]) <=> InStream(rd[j])
                              /\ InRun(rd'[j]) <=> InRun(rd[j])
    PROVE  PermitsAccounted'
<1>1. Streams' = Streams
  BY DEF Streams, InStream
<1>2. \A r : RunStreams(r)' = RunStreams(r)
  BY DEF RunStreams, InRun
<1> QED
  BY <1>1, <1>2, Accounted, AccountedNext

LEMMA OneKeeps ==
    ASSUME TypeOK, PermitsAccounted, UNCHANGED <<streams, perRun>>,
           NEW k \in Readers, NEW r \in Connections, Set(k, r),
           InStream(r) <=> InStream(rd[k]), InRun(r) <=> InRun(rd[k])
    PROVE  PermitsAccounted'
<1>1. rd'[k] = r /\ \A j \in Readers : j # k => rd'[j] = rd[j]
  BY SetOne
<1>2. \A j \in Readers : /\ InStream(rd'[j]) <=> InStream(rd[j])
                         /\ InRun(rd'[j]) <=> InRun(rd[j])
  BY <1>1
<1> QED
  BY <1>2, CountsKept

(* The end of a response gives back what it holds.                         *)
LEMMA ReleasedCounts ==
    ASSUME TypeOK, PermitsAccounted, NEW k \in Readers, Set(k, Closed), Release(k)
    PROVE  PermitsAccounted'
<1> DEFINE f == Follows[k]
<1>0. /\ rd[k] \in Connections /\ f \in Runs /\ StreamLimit \in Nat /\ PerRunLimit \in Nat
      /\ streams \in Nat /\ perRun \in [Runs -> Nat]
  BY ConstantTypes DEF TypeOK
<1>1. rd'[k] = Closed /\ \A j \in Readers : j # k => rd'[j] = rd[j]
  BY ClosedType, SetOne
<1>2. ~InStream(Closed) /\ ~InRun(Closed)
  BY DEF InStream, InRun, Closed
<1>3. Streams' = Streams \ {k} /\ (k \in Streams <=> InStream(rd[k]))
  BY <1>1, <1>2 DEF Streams, InStream
<1>4. /\ RunStreams(f)' = RunStreams(f) \ {k} /\ (k \in RunStreams(f) <=> InRun(rd[k]))
      /\ \A r \in Runs : r # f => RunStreams(r)' = RunStreams(r)
  BY <1>1, <1>2 DEF RunStreams, InRun
<1>5. /\ streams + Cardinality(Streams) = StreamLimit
      /\ \A r \in Runs : perRun[r] + Cardinality(RunStreams(r)) = PerRunLimit
  BY Accounted
<1>6. Cardinality(Streams') = IF InStream(rd[k]) THEN Cardinality(Streams) - 1
                              ELSE Cardinality(Streams)
  BY <1>3, StreamCounts, FS_RemoveElement, Zenon
<1>7. Cardinality(RunStreams(f)') = IF InRun(rd[k]) THEN Cardinality(RunStreams(f)) - 1
                                    ELSE Cardinality(RunStreams(f))
  <2>1. IsFiniteSet(RunStreams(f))
    BY StreamCounts
  <2> QED
    BY <1>4, <2>1, FS_RemoveElement, ZenonT(60)
<1>8. streams' = IF InStream(rd[k]) THEN streams + 1 ELSE streams
  BY DEF Release, InStream
<1>9. perRun' = IF InRun(rd[k]) THEN [perRun EXCEPT ![f] = @ + 1] ELSE perRun
  BY <1>0 DEF Release, InRun, Connections
<1>10. streams' + Cardinality(Streams') = StreamLimit
  BY <1>0, <1>5, <1>6, <1>8, StreamCounts
<1>11. ASSUME NEW r \in Runs PROVE perRun'[r] + Cardinality(RunStreams(r)') = PerRunLimit
  <2>1. perRun[r] \in Nat /\ Cardinality(RunStreams(r)) \in Nat
    BY <1>0, StreamCounts, Zenon
  <2>2. CASE r = f
    BY <1>0, <1>5, <1>7, <1>9, <2>1, <2>2
  <2>3. CASE r # f
    BY <1>0, <1>4, <1>5, <1>9, <2>3, Zenon
  <2> QED
    BY <2>2, <2>3
<1> QED
  BY <1>10, <1>11, AccountedNext

LEMMA PermitsStep ==
    ASSUME FollowInv, PermitsAccounted, [Next]_vars
    PROVE  PermitsAccounted'
<1>t. TypeOK /\ \A k \in Readers : rd[k] \in Connections
  BY Zenon DEF FollowInv, TypeOK
<1>u. UNCHANGED <<rd, streams, perRun>> => PermitsAccounted'
  BY CountsKept
<1>1. ASSUME NEW w \in Writers,
             (\E r \in Runs : AppendQueue(w, r)) \/ AppendAcquire(w) \/ append_transition(w)
      PROVE  PermitsAccounted'
  BY <1>1, <1>u DEF AppendQueue, AppendAcquire, append_transition
<1>2. CASE DropCommand
  BY <1>2, <1>u DEF DropCommand
<1>3. ASSUME NEW d \in detached, DetachedCommit(d) PROVE PermitsAccounted'
  BY <1>3, <1>u DEF DetachedCommit
<1>4. ASSUME NEW k \in Readers, Receive(k) PROVE PermitsAccounted'
  BY <1>4, <1>u DEF Receive
<1>5. CASE UNCHANGED vars
  BY <1>5, <1>u DEF vars
<1>6. ASSUME NEW k \in Readers, Poll(k) PROVE PermitsAccounted'
  <2> DEFINE r == [pc |-> "open", sse |-> FALSE, next |-> Len(log[k]), row |-> 0,
                   hi |-> Len(log[k])]
  <2>1. r \in Connections
    BY <1>t DEF TypeOK, Connections
  <2>2. (InStream(r) <=> InStream(rd[k])) /\ (InRun(r) <=> InRun(rd[k]))
    BY <1>t, <1>6 DEF Poll, InStream, InRun, Connections
  <2>3. Set(k, r) /\ UNCHANGED <<streams, perRun>>
    BY <1>6 DEF Poll
  <2> HIDE DEF r
  <2> QED
    BY <1>t, <2>1, <2>2, <2>3, OneKeeps
<1>7. ASSUME NEW k \in Readers, ReadQueue(k) PROVE PermitsAccounted'
  <2> DEFINE r == [rd[k] EXCEPT !.pc = "queued"]
  <2>1. r \in Connections
    BY <1>t DEF Connections
  <2>2. (InStream(r) <=> InStream(rd[k])) /\ (InRun(r) <=> InRun(rd[k]))
    BY <1>t, <1>7 DEF ReadQueue, InStream, InRun, Connections
  <2>3. Set(k, r) /\ UNCHANGED <<streams, perRun>>
    BY <1>7 DEF ReadQueue
  <2> HIDE DEF r
  <2> QED
    BY <1>t, <2>1, <2>2, <2>3, OneKeeps
<1>8. ASSUME NEW k \in Readers, ReadAcquire(k) PROVE PermitsAccounted'
  <2> DEFINE r == [rd[k] EXCEPT !.pc = "row"]
  <2>1. r \in Connections
    BY <1>t DEF Connections
  <2>2. (InStream(r) <=> InStream(rd[k])) /\ (InRun(r) <=> InRun(rd[k]))
    BY <1>t, <1>8 DEF ReadAcquire, InStream, InRun, Connections
  <2>3. Set(k, r) /\ UNCHANGED <<streams, perRun>>
    BY <1>8 DEF ReadAcquire
  <2> HIDE DEF r
  <2> QED
    BY <1>t, <2>1, <2>2, <2>3, OneKeeps
<1>9. ASSUME NEW k \in Readers, ReadRow(k) PROVE PermitsAccounted'
  <2> DEFINE r == [rd[k] EXCEPT !.pc = "events", !.row = len[Follows[k]]]
  <2>1. r \in Connections
    BY <1>t, ConstantTypes, Zenon DEF Connections, TypeOK
  <2>2. (InStream(r) <=> InStream(rd[k])) /\ (InRun(r) <=> InRun(rd[k]))
    BY <1>t, <1>9 DEF ReadRow, InStream, InRun, Connections
  <2>3. Set(k, r) /\ UNCHANGED <<streams, perRun>>
    BY <1>9 DEF ReadRow
  <2> HIDE DEF r
  <2> QED
    BY <1>t, <2>1, <2>2, <2>3, OneKeeps
<1>10. ASSUME NEW k \in Readers, Send(k) PROVE PermitsAccounted'
  <2> DEFINE r == [rd[k] EXCEPT !.next = @ + 1]
  <2>1. r \in Connections
    BY <1>t, NextMoves
  <2>2. (InStream(r) <=> InStream(rd[k])) /\ (InRun(r) <=> InRun(rd[k]))
    BY <1>t, <1>10 DEF Send, InStream, InRun, Connections
  <2>3. Set(k, r) /\ UNCHANGED <<streams, perRun>>
    BY <1>10 DEF Send
  <2> HIDE DEF r
  <2> QED
    BY <1>t, <2>1, <2>2, <2>3, OneKeeps
<1>11. ASSUME NEW k \in Readers, PageAnswer(k) PROVE PermitsAccounted'
  <2>1. rd[k].pc = "answer" /\ ~rd[k].sse
    BY <1>11, Zenon DEF PageAnswer, FollowInv, Follower, Continues
  <2>2. ~InStream(rd[k]) /\ ~InRun(rd[k]) /\ ~InStream(Closed) /\ ~InRun(Closed)
    BY <2>1 DEF InStream, InRun, Closed
  <2> QED
    BY <1>t, <1>11, <2>2, ClosedType, OneKeeps, Zenon DEF PageAnswer
<1>12. ASSUME NEW k \in Readers, Deadline(k) \/ Lose(k) PROVE PermitsAccounted'
  BY <1>t, <1>12, ReleasedCounts, Zenon DEF Deadline, Lose
<1>13. ASSUME NEW k \in Readers, ReadEvents(k) PROVE PermitsAccounted'
  <2>1. CASE Torn(k) \/ Beyond(k)
    BY <1>t, <1>13, <2>1, ReleasedCounts DEF ReadEvents
  <2>2. CASE ~(Torn(k) \/ Beyond(k))
    <3> DEFINE r == [rd[k] EXCEPT !.pc = IF rd[k].sse THEN "open" ELSE "answer",
                                  !.row = 0, !.hi = PageEnd(k)]
    <3>1. PageEnd(k) \in Nat
      BY <1>t, ConstantTypes, SMTT(30) DEF PageEnd, Least, Connections, TypeOK
    <3>2. r \in Connections
      BY <1>t, <3>1, Zenon DEF Connections
    <3>3. (InStream(r) <=> InStream(rd[k])) /\ (InRun(r) <=> InRun(rd[k]))
      BY <1>t, <1>13 DEF ReadEvents, InStream, InRun, Connections
    <3>4. Set(k, r) /\ UNCHANGED <<streams, perRun>>
      BY <1>13, <2>2 DEF ReadEvents
    <3> HIDE DEF r
    <3> QED
      BY <1>t, <3>2, <3>3, <3>4, OneKeeps
  <2> QED
    BY <2>1, <2>2
<1>14. ASSUME NEW k \in Readers, Connect(k) PROVE PermitsAccounted'
  <2> DEFINE r == [pc |-> "acquire", sse |-> TRUE, next |-> Len(log[k]), row |-> 0, hi |-> 0]
  <2>1. r \in Connections /\ InStream(r) /\ ~InRun(r)
    BY <1>t, SMTT(30) DEF TypeOK, Connections, InStream, InRun
  <2>2. /\ Set(k, r) /\ streams' = streams - 1 /\ streams > 0 /\ UNCHANGED perRun
        /\ ~InStream(rd[k]) /\ ~InRun(rd[k])
    BY <1>14 DEF Connect, InStream, InRun
  <2> HIDE DEF r
  <2>3. rd'[k] = r /\ \A j \in Readers : j # k => rd'[j] = rd[j]
    BY <1>t, <2>1, <2>2, SetOne
  <2>4. Streams' = Streams \cup {k} /\ k \notin Streams
    BY <2>1, <2>2, <2>3, Zenon DEF Streams, InStream
  <2>5. \A q : RunStreams(q)' = RunStreams(q)
    BY <2>1, <2>2, <2>3 DEF RunStreams, InRun
  <2>6. Cardinality(Streams') = Cardinality(Streams) + 1
    BY <2>4, StreamCounts, FS_AddElement
  <2>7. streams' + Cardinality(Streams') = streams + Cardinality(Streams)
    BY <1>t, <2>2, <2>6, StreamCounts DEF TypeOK
  <2> QED
    BY <2>2, <2>5, <2>7, Accounted, AccountedNext
<1>15. ASSUME NEW k \in Readers, AcquireRun(k) PROVE PermitsAccounted'
  <2> DEFINE f == Follows[k]
             r == [rd[k] EXCEPT !.pc = "open", !.hi = rd[k].next]
  <2>0. /\ f \in Runs /\ perRun \in [Runs -> Nat] /\ streams \in Nat
        /\ StreamLimit \in Nat /\ PerRunLimit \in Nat
    BY <1>t, ConstantTypes DEF TypeOK
  <2>1. CASE perRun[f] > 0
    <3>1. /\ Set(k, r) /\ UNCHANGED streams /\ perRun' = [perRun EXCEPT ![f] = @ - 1]
          /\ rd[k].pc = "acquire"
      BY <1>15, <2>1 DEF AcquireRun
    <3>2. r \in Connections /\ r.pc = "open" /\ r.sse = rd[k].sse
      BY <1>t, Zenon DEF Connections
    <3> HIDE DEF r
    <3>3. rd'[k] = r /\ \A j \in Readers : j # k => rd'[j] = rd[j]
      BY <1>t, <3>1, <3>2, SetOne, Zenon
    <3>4. rd[k].sse
      BY <3>1, Zenon DEF FollowInv, Follower, Continues
    <3>5. Streams' = Streams
      BY <3>1, <3>2, <3>3 DEF Streams
    <3>6. RunStreams(f)' = RunStreams(f) \cup {k} /\ k \notin RunStreams(f)
      BY <3>1, <3>2, <3>3, <3>4, Zenon DEF RunStreams
    <3>7. \A q \in Runs : q # f => RunStreams(q)' = RunStreams(q)
      BY <3>3 DEF RunStreams
    <3>8. Cardinality(RunStreams(f)') = Cardinality(RunStreams(f)) + 1
      BY <3>6, StreamCounts, FS_AddElement, Zenon
    <3>9. ASSUME NEW q \in Runs
          PROVE  perRun'[q] + Cardinality(RunStreams(q)') = perRun[q] + Cardinality(RunStreams(q))
      <4>1. perRun[q] \in Nat /\ Cardinality(RunStreams(q)) \in Nat
        BY <2>0, StreamCounts
      <4>2. CASE q = f
        BY <2>0, <3>1, <3>8, <4>1, <4>2, SMTT(30)
      <4>3. CASE q # f
        BY <2>0, <3>1, <3>7, <4>3, Zenon
      <4> QED
        BY <4>2, <4>3
    <3> QED
      BY <3>1, <3>5, <3>9, Accounted, AccountedNext, Zenon
  <2>2. CASE ~(perRun[f] > 0)
    <3>1. /\ Set(k, Closed) /\ streams' = streams + 1 /\ UNCHANGED perRun
          /\ rd[k].pc = "acquire"
      BY <1>15, <2>2 DEF AcquireRun
    <3>2. rd[k].sse
      BY <3>1, Zenon DEF FollowInv, Follower, Continues
    <3>3. Release(k)
      BY <3>1, <3>2 DEF Release
    <3> QED
      BY <1>t, <3>1, <3>3, ReleasedCounts
  <2> QED
    BY <2>1, <2>2
<1>16. CASE Crash
  <2>1. /\ streams' = StreamLimit /\ perRun' = [r \in Runs |-> PerRunLimit]
        /\ rd' = [k \in Readers |-> Closed]
    BY <1>16 DEF Crash
  <2>2. Streams' = {} /\ \A r : RunStreams(r)' = {}
    BY <2>1 DEF Streams, RunStreams, Closed
  <2> QED
    BY <2>1, <2>2, ConstantTypes, FS_EmptySet, AccountedNext
<1> QED
  BY <1>1, <1>2, <1>3, <1>4, <1>5, <1>6, <1>7, <1>8, <1>9, <1>10, <1>11, <1>12, <1>13,
     <1>14, <1>15, <1>16
  DEF Next, Writing, Reading

--------------------------------------------------------------------------------
FeedInv == FollowInv /\ Exclusive /\ PermitsAccounted

(* The inductive invariant of the event feed.                              *)
THEOREM FeedInvariant == Spec => []FeedInv
<1>1. Init => FeedInv
  <2> SUFFICES ASSUME Init PROVE FeedInv
    OBVIOUS
  <2>1. TypeOK
    BY ConstantTypes, ClosedType DEF Init, TypeOK, NoWrite
  <2>2. ASSUME NEW k \in Readers PROVE Follower(k)
    BY ConstantTypes DEF Init, Follower, Continues, Closed
  <2>3. Exclusive
    BY DEF Init, Exclusive, Reads, Writes, Closed, NoWrite
  <2>4. PermitsAccounted
    <3>1. Streams = {} /\ \A r : RunStreams(r) = {}
      BY DEF Init, Streams, RunStreams, Closed
    <3>2. streams = StreamLimit /\ \A r \in Runs : perRun[r] = PerRunLimit
      BY DEF Init
    <3>3. Cardinality(Streams) = 0 /\ \A r : Cardinality(RunStreams(r)) = 0
      BY <3>1, FS_EmptySet
    <3> QED
      BY <3>2, <3>3, ConstantTypes, Accounted
  <2> QED
    BY <2>1, <2>2, <2>3, <2>4 DEF FeedInv, FollowInv
<1>2. FeedInv /\ [Next]_vars => FeedInv'
  BY FollowStep, ExclusiveStep, PermitsStep DEF FeedInv
<1> QED
  BY <1>1, <1>2, PTL DEF Spec

(* What a client has applied is always the beginning of the journal of the *)
(* run it follows: pages, streams, failed reads, lost connections and      *)
(* restarts neither repeat nor skip an event.                              *)
THEOREM ClientSeesPrefix == Spec => []LogIsPrefix
<1>1. FeedInv => LogIsPrefix
  BY Zenon DEF FeedInv, FollowInv, Follower, Continues, LogIsPrefix
<1> QED
  BY <1>1, FeedInvariant, PTL

(* The global and the per-run stream permits are never lost and never      *)
(* given back twice, whatever ends a stream (StreamPermits).               *)
THEOREM StreamPermitsAccounted == Spec => []PermitsAccounted
<1>1. FeedInv => PermitsAccounted
  BY DEF FeedInv
<1> QED
  BY <1>1, FeedInvariant, PTL

(* A journal moves between the two statements of a read only by an append  *)
(* whose command was dropped: the blocking permit keeps all others out.    *)
THEOREM TearsOnlyDetached == Spec => OnlyDetachedTears
<1> DEFINE Tears == \A k \in Readers : rd[k].pc = "events" /\ len'[Follows[k]] # len[Follows[k]]
                                           => detached' # detached
<1>1. FeedInv /\ [Next]_vars => [Tears]_vars
  <2> SUFFICES ASSUME FeedInv, Next, NEW k \in Readers, rd[k].pc = "events",
                      len'[Follows[k]] # len[Follows[k]]
               PROVE  detached' # detached
    BY DEF vars
  <2>1. len' # len
    OBVIOUS
  <2>2. \A w \in Writers : ~append_transition(w)
    BY DEF FeedInv, Exclusive, Reads, Writes, append_transition
  <2>3. CASE Writing
    <3>1. PICK d \in detached : DetachedCommit(d)
      BY <2>1, <2>2, <2>3 DEF Writing, AppendQueue, AppendAcquire, DropCommand
    <3> QED
      BY <3>1 DEF DetachedCommit
  <2>4. ~Crash
    BY <2>1 DEF Crash
  <2>5. ASSUME NEW j \in Readers
        PROVE  ~(Connect(j) \/ AcquireRun(j) \/ Poll(j) \/ Deadline(j) \/ Lose(j))
    BY <2>1 DEF Connect, AcquireRun, Poll, Deadline, Lose
  <2>6. ASSUME NEW j \in Readers PROVE ~(ReadAcquire(j) \/ Reading(j) \/ Receive(j))
    BY <2>1, Zenon
    DEF ReadAcquire, Reading, Receive, ReadQueue, ReadRow, ReadEvents, Send, PageAnswer
  <2> QED
    BY <2>3, <2>4, <2>5, <2>6, Zenon DEF Next
<1> QED
  BY <1>1, FeedInvariant, PTL DEF Spec, OnlyDetachedTears
================================================================================
