----------------------------- MODULE MCReadPath -----------------------------
(* ReadPath with the cases of the run.                                     *)
EXTENDS ReadPath

MCText == << <<1>>, <<1, 1>>, <<2>> >>
MCFingerprint == <<5, 777, 4000>>

\* Batches by commit timestamp: the length each writes for each key, -1 for none.
None == -1
Histories == {
    << <<1, 1, 1>>, <<None, 0, None>>, <<None, 65535, None>>, <<0, None, None>> >>,
    << <<None, 1, 1>>, <<1, None, 1>>, <<None, None, 0>>, <<None, None, None>> >>,
    << <<1, None, 1>>, <<1, None, None>>, <<0, None, None>>, <<None, None, 1>> >>,
    << <<1, 1, 1>>, <<1, 1, 1>>, <<1, 1, 1>>, <<1, 0, 1>> >>,
    << <<None, 1, None>>, <<None, 0, None>>, <<1, None, 1>>, <<None, 1, None>> >> }

\* Where each batch is: 0 memtable, 1 immutable memtable, 2 and 3 L0, 4 and 5 levels.
Placements == { <<5, 4, 2, 0>>, <<4, 4, 3, 2>>, <<5, 5, 4, 4>>, <<0, 0, 0, 0>>,
                <<3, 2, 1, 0>>, <<5, 4, 3, 2>> }

EntriesAt(h, place, p) ==
    {[key |-> k, ts |-> t, len |-> h[t][k]] :
        <<k, t>> \in {x \in (1..3) \X (1..Len(h)) : place[x[2]] = p /\ h[x[2]][x[1]] # None}}

\* What a compaction at watermark w leaves of the versions S.
Collected(S, w, bottom) ==
    {e \in S : \/ e.ts > w
               \/ /\ \A f \in S : f.key = e.key /\ f.ts <= w => f.ts <= e.ts
                  /\ ~bottom \/ e.len # 0 \/ \E f \in S : f.key = e.key /\ f.ts > w}

NonEmpty(s) == SelectSeq(s, LAMBDA S : S # {})

\* A level is cut between user keys.
Cut(S, k) == NonEmpty(<<{e \in S : e.key <= k}, {e \in S : e.key > k}>>)

State(h, place, w, cut) ==
    [mem |-> EntriesAt(h, place, 0),
     imm |-> <<EntriesAt(h, place, 1)>>,
     l0 |-> NonEmpty(<<EntriesAt(h, place, 2), EntriesAt(h, place, 3)>>),
     levels |-> <<Cut(Collected(EntriesAt(h, place, 4), w,
                                EntriesAt(h, place, 5) = {}), cut),
                  Cut(Collected(EntriesAt(h, place, 5), w, TRUE), cut)>>]

Request(kind, lower, upper) == [kind |-> kind, lower |-> lower, upper |-> upper]

Gets  == {Request("get", Included(k, 0), Unbounded) : k \in 1..3}
Scans == {Request("scan", lower, upper) :
             lower \in {Unbounded, Included(2, 0), Excluded(1, 0), Excluded(2, 0)},
             upper \in {Unbounded, Included(2, 0), Excluded(3, 0), Excluded(2, 0)}}

CaseOf(state, request, readTs, mine, bad) ==
    state @@ request @@ [readTs |-> readTs, own |-> mine, bad |-> bad, nextTs |-> 9]

States(readTs) ==
    {State(h, place, w, cut) :
        h \in Histories, place \in Placements, w \in {0, readTs}, cut \in {1, 2, 3}}

Plain ==
    {CaseOf(state, request, 3, << >>, {}) : state \in States(3), request \in Gets \cup Scans}

Earlier ==
    {CaseOf(state, request, 2, << >>, {}) :
        state \in States(2), request \in Gets \cup {Request("scan", Unbounded, Included(2, 0))}}

WithOwn ==
    {CaseOf(state, request, 3, mine, {}) :
        state \in {State(h, <<5, 4, 2, 0>>, 0, 2) : h \in Histories},
        request \in Gets \cup Scans,
        mine \in {2 :> 0, 1 :> 2 @@ 3 :> 0, 1 :> 0 @@ 2 :> 2}}

WithBadBlock ==
    UNION {{CaseOf(state, request, 3, << >>, {<<S, i>>}) :
               S \in TablesOf(state), i \in {1, 2},
               request \in Gets \cup {Request("scan", Unbounded, Unbounded),
                                      Request("scan", Excluded(1, 0), Unbounded)}} :
           state \in {State(h, <<5, 4, 2, 0>>, 0, 2) : h \in Histories}}

\* A write that failed and was tried again left two versions with one timestamp: the
\* first one frozen, or flushed, before the second came.
Again(state, k, flushed) ==
    LET old == [key |-> k, ts |-> 3, len |-> 1]
    IN  [state EXCEPT !.mem = @ \cup {[key |-> k, ts |-> 3, len |-> 2]},
                      !.imm = IF flushed THEN @ ELSE <<@[1] \cup {old}>>,
                      !.l0 = IF flushed THEN <<{old}>> \o @ ELSE @]

Repeated ==
    {CaseOf(Again(state, k, flushed), request, 3, << >>, {}) :
        state \in {State(<< <<1, 1, 1>>, <<1, 0, 1>> >>, <<5, 4>>, 0, 2),
                   State(<< <<1, 1, 1>>, <<1, 0, 1>> >>, <<3, 2>>, 0, 2)},
        k \in 1..3, flushed \in BOOLEAN, request \in Gets \cup Scans}

MCCases == Plain \cup Earlier \cup WithOwn \cup WithBadBlock \cup Repeated
=============================================================================
