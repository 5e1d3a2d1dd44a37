----------------------------- MODULE ActVersions -----------------------------
(***************************************************************************)
(* The editions of regulatory acts: the commands of                        *)
(* application/act_versioning and application/documents/delete.py over the *)
(* interval rules of domain/knowledge/acts/timeline.py.  A row of          *)
(* act_versions has an act (or none: it waits for an administrator), a     *)
(* start, an end and a flag.  Uploads, corrections, relinkings and         *)
(* deletions rewrite the rows of one or two acts in a transaction that     *)
(* holds the locks of those acts to its end: one step, after the unlocked  *)
(* read that says which act to lock.                                       *)
(*                                                                         *)
(* Dates are 1..MaxDate and None = 0 is a missing one: date.min among      *)
(* starts, open among ends.  Ids come from a sequence, so they order the   *)
(* insertions; a document has one edition.  All documents have one scope:  *)
(* another scope makes a command fail or an upload pending.                *)
(***************************************************************************)
EXTENDS Integers, FiniteSets

CONSTANTS
    Acts,           \* regulatory acts
    NoAct,          \* act_id NULL: pending manual linkage
    MaxVersions,    \* bound: uploads
    MaxPending,     \* bound: editions that wait for a link at a time
    MaxDate,        \* bound: days
    Requests,       \* the pairs of a start and an end that a correction provides
    Commands        \* concurrent corrections and deletions

Versions == 1 .. MaxVersions
None == 0
Dates == 1 .. MaxDate
MaybeDate == 0 .. MaxDate
Keep == -1          \* a field that the request does not provide

ASSUME ActsAssumption == NoAct \notin Acts
ASSUME BoundAssumption ==
    MaxVersions \in Nat /\ MaxPending \in Nat /\ MaxDate \in Nat \ {0}
ASSUME RequestsAssumption ==
    Requests \subseteq ({Keep} \cup MaybeDate) \X ({Keep} \cup MaybeDate)

ValidDates(x) == x.from = None \/ x.to = None \/ x.from <= x.to

RawRow == [act : Acts \cup {NoAct}, from : MaybeDate, to : MaybeDate, cur : BOOLEAN]
Row == {x \in RawRow : ValidDates(x)}
Blank == [act |-> NoAct, from |-> None, to |-> None, cur |-> FALSE]
Idle == [v |-> 0, seen |-> Blank]

VARIABLES
    next,       \* the sequence of act_versions.id
    live,       \* the ids of the existing rows
    row,        \* act_versions, and with it the copies in the chunks
    cmd,        \* a command: its edition, and what the first read returned
    today,      \* the date of the service
    ended,      \* history: editions whose end is the one that a request gave
    stray,      \* history: editions with another end that counts as explicit
    overwritten,\* history: a pending edition was written from an outdated read
    conflict    \* history: the unique index of current editions refused a write

history == <<ended, stray, overwritten, conflict>>
vars == <<next, live, row, cmd, today, history>>

Editions(a) == {v \in live : row[v].act = a}

-----------------------------------------------------------------------------
(* The interval rules, for editions S of an act and rows r.                *)

Earliest(D) == IF D = {} THEN None ELSE CHOOSE d \in D : \A x \in D : d <= x

Precedes(r, v, w) ==
    r[v].from < r[w].from \/ (r[v].from = r[w].from /\ v < w)

After(r, S, v) == {w \in S : Precedes(r, v, w)}

(* The start of the next edition in this order.                            *)
SuccessorStart(r, S, v) == Earliest({r[w].from : w \in After(r, S, v)})

Cap(end, boundary) ==
    IF end = None \/ (boundary # None /\ boundary < end) THEN boundary ELSE end

ExplicitEnd(r, S, v) ==
    IF r[v].to = SuccessorStart(r, S, v) THEN None ELSE r[v].to

Rebuild(r, S, end) ==
    LET to == [v \in S |-> Cap(end[v], SuccessorStart(r, S, v))]
        eligible == {v \in S : r[v].from <= today /\ (to[v] = None \/ today < to[v])}
    IN  [v \in Versions |->
            IF v \in S
            THEN [r[v] EXCEPT !.to = to[v],
                              !.cur = v \in eligible /\ After(r, eligible, v) = {}]
            ELSE r[v]]

IsLatest(S, d) ==
    IF d = None
    THEN \A v \in S : ~row[v].cur
    ELSE d <= today /\ \A v \in S : row[v].from <= today => row[v].from <= d

SuccessorDate(S, d) ==
    IF d = None THEN None ELSE Earliest({x \in {row[w].from : w \in S} : d < x})

InsertBoundaryMutant(S, d) ==
    [v \in Versions |->
        IF v \in S /\ d # None
        THEN [row[v] EXCEPT !.to = IF @ = None \/ d < @ THEN d ELSE @,
                            !.cur = @ /\ ~IsLatest(S, d)]
        ELSE row[v]]

InsertBoundary(S, d) ==
    LET latest == IsLatest(S, d)
    IN  [v \in Versions |->
            IF v \in S /\ d # None
            THEN [row[v] EXCEPT
                    !.to = IF row[v].from <= d /\ (@ = None \/ d < @) THEN d ELSE @,
                    !.cur = @ /\ ~latest]
            ELSE row[v]]

-----------------------------------------------------------------------------
(* Saving.                                                                 *)

OneCurrent(L, r) ==
    \A v, w \in L : r[v].cur /\ r[w].cur /\ r[v].act = r[w].act /\ r[v].act # NoAct => v = w

SaveOrderMutant(r, new) == [v \in Versions |-> IF new[v].cur THEN new[v] ELSE r[v]]

(* save_changes writes the demoted rows before the promoted one.           *)
SaveOrder(r, new) == [v \in Versions |-> IF new[v].cur THEN r[v] ELSE new[v]]

SaveAccepted(L, r, new) ==
    new = r \/ (OneCurrent(L, new) /\ OneCurrent(L, SaveOrder(r, new)))

(* A session writes the columns that differ from what it has read.         *)
Written(stored, read, edited) ==
    [c \in DOMAIN stored |-> IF edited[c] = read[c] THEN stored[c] ELSE edited[c]]

NoEnd == [v \in Versions |-> Keep]

(* The end of v is what explicit_ends takes for a derived one.             *)
Derived(L, r, v) ==
    r[v].to = IF r[v].act = NoAct THEN None
              ELSE SuccessorStart(r, {w \in L : r[w].act = r[v].act}, v)

(* The editions whose end a request gave, now or before.                   *)
Given(L, new, end) ==
    {v \in L : /\ new[v].to # None
               /\ \/ end[v] = new[v].to
                  \/ v \in ended /\ new[v].to = row[v].to}

(* The editions with an end that explicit_ends takes for an explicit one   *)
(* although no request gave it.  An undated edition gets one when the      *)
(* edition that closed it is not the next in the order, or leaves; a dated *)
(* one has it from its time without a date, or is among the odd ones of a  *)
(* relinking.                                                              *)
Strays(L, new, end, odd) ==
    {v \in L : /\ ~Derived(L, new, v)
               /\ \/ v \in odd
                  \/ v \in stray /\ end[v] = Keep
                  \/ new[v].from = None /\ new[v].to # None /\ v \notin Given(L, new, end)}

(* The rows new of the ids L replace the table unless the index refuses    *)
(* one of the writes.  end is what the request gave as an end, odd the     *)
(* editions that a relinking leaves with an end that is not the next start.*)
Commit(L, accepted, new, end, odd) ==
    /\ live' = IF accepted THEN L ELSE live
    /\ row' = IF accepted THEN new ELSE row
    /\ ended' = IF accepted THEN Given(L, new, end) ELSE ended
    /\ stray' = IF accepted THEN Strays(L, new, end, odd) ELSE stray
    /\ conflict' = (conflict \/ ~accepted)

-----------------------------------------------------------------------------
Init ==
    /\ next = 1
    /\ live = {}
    /\ row = [v \in Versions |-> Blank]
    /\ cmd = [c \in Commands |-> Idle]
    /\ today = 1
    /\ ended = {}
    /\ stray = {}
    /\ overwritten = FALSE
    /\ conflict = FALSE

(* create_version_in_uow for a new document: act a was found or created by *)
(* its number, d is the extracted start or None when it is not trusted.    *)
Upload(a, d) ==
    LET S == IF a = NoAct THEN {} ELSE Editions(a)
        L == live \cup {next}
        closed == InsertBoundary(S, d)
        new == [closed EXCEPT ![next] =
                    [act |-> a, from |-> d, to |-> SuccessorDate(S, d), cur |-> IsLatest(S, d)]]
    IN  /\ next \in Versions
        /\ a = NoAct => Cardinality(Editions(NoAct)) < MaxPending
        /\ Commit(L, SaveAccepted(live, row, closed) /\ OneCurrent(L, new), new, NoEnd, {})
        /\ next' = next + 1
        /\ UNCHANGED <<cmd, today, overwritten>>

(* The unlocked read of an edition by a correction or a deletion; of a     *)
(* linked one only the act is used.                                        *)
Load(c, v) ==
    /\ cmd[c] = Idle
    /\ v \in live
    /\ cmd' = [cmd EXCEPT ![c] =
                [v |-> v, seen |-> IF row[v].act = NoAct THEN row[v]
                                   ELSE [Blank EXCEPT !.act = row[v].act]]]
    /\ UNCHANGED <<next, live, row, today, history>>

FoundMutant(c) == cmd[c].v \in live

(* A linked edition is looked up again in the rows read under the lock of  *)
(* its act; of one without an act there is only the first read.            *)
Found(c) == cmd[c].seen.act # NoAct => cmd[c].v \in Editions(cmd[c].seen.act)

Read(c) == IF cmd[c].seen.act = NoAct THEN cmd[c].seen ELSE row[cmd[c].v]

Edited(c, f, e, a) ==
    [Read(c) EXCEPT !.act = a,
                    !.from = IF f = Keep THEN @ ELSE f,
                    !.to = IF e = Keep THEN @ ELSE e]

(* An end that the request provides must be later than the start.          *)
LaterEnd(x, e) == x.from # None /\ e \in Dates => x.from < e

(* The edition has been written since the unlocked read of it.             *)
Stale(c) ==
    cmd[c].seen.act = NoAct /\ cmd[c].v \in live /\ row[cmd[c].v] # cmd[c].seen

(* rebuild validates the editions it has gone through.                     *)
Validated(new, S) == \A w \in S : ValidDates(new[w])

(* A correction of dates inside an act.                                    *)
Correct(c, f, e) ==
    LET v == cmd[c].v
        a == cmd[c].seen.act
        S == Editions(a)
        edited == Edited(c, f, e, a)
        end == [w \in S |-> IF w = v /\ e # Keep THEN e ELSE ExplicitEnd(row, S, w)]
        new == Rebuild([row EXCEPT ![v] = edited], S, end)
    IN  /\ cmd[c] # Idle /\ a # NoAct /\ Found(c)
        /\ f # Keep \/ e # Keep
        /\ LaterEnd(edited, e)
        /\ Validated(new, S)
        /\ Commit(live, SaveAccepted(live, row, new), new, [NoEnd EXCEPT ![v] = e], {})
        /\ cmd' = [cmd EXCEPT ![c] = Idle]
        /\ UNCHANGED <<next, today, overwritten>>

(* A correction of a pending edition writes that row only.                 *)
CorrectPending(c, f, e) ==
    LET v == cmd[c].v
        edited == Edited(c, f, e, NoAct)
        new == [row EXCEPT ![v] = Written(@, cmd[c].seen, edited)]
    IN  /\ cmd[c] # Idle /\ cmd[c].seen.act = NoAct /\ v \in live
        /\ f # Keep \/ e # Keep
        /\ LaterEnd(edited, e) /\ ValidDates(edited)
        /\ Commit(live, OneCurrent(live, new), new, [NoEnd EXCEPT ![v] = e], {})
        /\ overwritten' = (overwritten \/ Stale(c))
        /\ cmd' = [cmd EXCEPT ![c] = Idle]
        /\ UNCHANGED <<next, today>>

ReconnectedMutant(r, a, v) == r

(* The rows after edition v has left act a.                                *)
Reconnected(r, a, v) ==
    LET S == Editions(a)
    IN  IF a = NoAct THEN r
        ELSE Rebuild(r, S \ {v}, [w \in S |-> ExplicitEnd(row, S, w)])

(* What an edition becomes among the editions T of the act it joins, or    *)
(* alone when it is unlinked.                                              *)
Joined(x, T) ==
    [x EXCEPT !.to = IF @ = None THEN SuccessorDate(T, x.from) ELSE @,
              !.cur = IF x.act = NoAct
                      THEN x.from <= today /\ (x.to = None \/ today < x.to)
                      ELSE IsLatest(T, x.from)]

(* A relinking saves the neighbours in the target act, then the row, then  *)
(* the editions it leaves.  It closes an equal start of a later id, and it *)
(* does not cap an end beyond the next start: those rows are odd.          *)
Relink(c, f, e, a) ==
    LET v == cmd[c].v
        source == cmd[c].seen.act
        asked == Edited(c, f, e, a)
        leaving == IF e = Keep /\ source # NoAct
                   THEN [asked EXCEPT !.to = ExplicitEnd(row, Editions(source), v)] ELSE asked
        T == IF a = NoAct THEN {} ELSE Editions(a) \ {v}
        closed == InsertBoundary(T, leaving.from)
        edited == Joined(leaving, T)
        moved == [closed EXCEPT ![v] = Written(@, Read(c), edited)]
        new == Reconnected(moved, source, v)
        boundary == SuccessorDate(T, leaving.from)
        equal == {w \in T : v < w /\ row[w].from = leaving.from /\ leaving.from # None}
        late == boundary # None /\ boundary < leaving.to
    IN  /\ cmd[c] # Idle /\ a # source /\ Found(c) /\ v \in live
        /\ a = NoAct => Cardinality(Editions(NoAct)) < MaxPending
        /\ LaterEnd(edited, e) /\ ValidDates(edited)
        /\ source # NoAct => Validated(new, Editions(source) \ {v})
        /\ Commit(live,
                  /\ SaveAccepted(live, row, closed)
                  /\ OneCurrent(live, moved)
                  /\ SaveAccepted(live, moved, new),
                  new, [NoEnd EXCEPT ![v] = e],
                  IF equal # {} \/ late THEN equal \cup {v} ELSE {})
        /\ overwritten' = (overwritten \/ Stale(c))
        /\ cmd' = [cmd EXCEPT ![c] = Idle]
        /\ UNCHANGED <<next, today>>

(* delete_document_in_uow: the cascade removes the row before the timeline *)
(* is reconnected.                                                         *)
Delete(c) ==
    LET v == cmd[c].v
        L == live \ {v}
        rest == [row EXCEPT ![v] = Blank]
        new == Reconnected(rest, cmd[c].seen.act, v)
    IN  /\ cmd[c] # Idle /\ Found(c)
        /\ cmd[c].seen.act # NoAct => Validated(new, Editions(cmd[c].seen.act) \ {v})
        /\ Commit(L, SaveAccepted(L, rest, new), new, NoEnd, {})
        /\ overwritten' = (overwritten \/ Stale(c))
        /\ cmd' = [cmd EXCEPT ![c] = Idle]
        /\ UNCHANGED <<next, today>>

(* A command that fails: not found under the lock, invalid, disconnected.  *)
Abort(c) ==
    /\ cmd[c] # Idle
    /\ cmd' = [cmd EXCEPT ![c] = Idle]
    /\ UNCHANGED <<next, live, row, today, history>>

Midnight ==
    /\ today < MaxDate
    /\ today' = today + 1
    /\ UNCHANGED <<next, live, row, cmd, history>>

Next ==
    \/ \E a \in Acts \cup {NoAct}, d \in MaybeDate : Upload(a, d)
    \/ \E c \in Commands :
        \/ \E v \in Versions : Load(c, v)
        \/ \E q \in Requests :
            \/ Correct(c, q[1], q[2])
            \/ CorrectPending(c, q[1], q[2])
            \/ \E a \in Acts \cup {NoAct} : Relink(c, q[1], q[2], a)
        \/ Delete(c)
        \/ Abort(c)
    \/ Midnight

Spec == Init /\ [][Next]_vars

-----------------------------------------------------------------------------
(* Every stored row has an act that exists and, until a pending edition is *)
(* written from an outdated read, valid dates; ids are given out once      *)
(* (create, update and validate_dates of the act versions).                *)
TypeOK ==
    /\ next \in 1 .. MaxVersions + 1
    /\ live \subseteq 1 .. next - 1
    /\ row \in [Versions -> IF overwritten THEN RawRow ELSE Row]
    /\ cmd \in [Commands -> [v : 0 .. next - 1, seen : RawRow]]
    /\ today \in Dates
    /\ ended \subseteq live /\ stray \subseteq live
    /\ overwritten \in BOOLEAN
    /\ conflict \in BOOLEAN

(* No order of the writes of one transaction is refused by the unique      *)
(* index of current editions: demotions come before promotions, and a      *)
(* moved row before the rows it leaves (save_changes, relink_version).     *)
(* Only a command that wrote an outdated read may precede a refusal.       *)
NoConflict == conflict => overwritten

(* A dated edition of an act ends where the next one starts.  Only an end  *)
(* that a request gave may come earlier: whatever uploads, corrections,    *)
(* moves and deletions went before, the timeline has no other gap and no   *)
(* overlap.  Two kinds of history are excepted, both named: the strays,    *)
(* and a pending edition written from an outdated read (timeline.py with   *)
(* its callers).                                                           *)
Adjacent ==
    overwritten \/
    \A v \in live :
        row[v].act # NoAct /\ row[v].from # None =>
            LET start == SuccessorStart(row, Editions(row[v].act), v)
            IN  \/ row[v].to = start
                \/ v \in ended /\ (start = None \/ row[v].to < start)
                \/ v \in stray

(* What with_temporal_filter and build_temporal_clause let through.        *)
InForce(v, day) ==
    LET x == row[v]
    IN  /\ x.from <= day
        /\ x.to = None \/ day < x.to
        /\ x.cur \/ x.from # None \/ x.to # None

(* The latest editions that have begun by a day.                           *)
Begun(a, day) == {v \in Editions(a) : row[v].from <= day}
Latest(a, day) == {v \in Begun(a, day) : \A w \in Begun(a, day) : row[w].from <= row[v].from}

(* From today on, a search on a day by which an act has begun finds an     *)
(* edition of it in force, unless a request ended one of the latest that   *)
(* have begun or the code has mistaken the end of one for explicit (stray):*)
(* what a command makes of the neighbours never hides the act.  Pending    *)
(* editions written from an outdated read are excepted as in Adjacent.     *)
ActServed ==
    overwritten \/
    \A a \in Acts, day \in Dates :
        /\ today <= day
        /\ Begun(a, day) # {}
        /\ Latest(a, day) \cap (ended \cup stray) = {}
        => \E v \in Editions(a) : InForce(v, day)

(* An end that no neighbour gave is known as such.                         *)
EndFacts ==
    /\ \A v \in ended : row[v].to # None
    /\ \A v \in live :
        row[v].to # None /\ (row[v].act = NoAct \/ row[v].from = None)
        => v \in ended \cup stray \/ Derived(live, row, v)

(* The inductive invariant: the timelines, the flags and the ends as every *)
(* command finds them, until one writes an outdated read.                  *)
IInv ==
    /\ TypeOK
    /\ ~overwritten => NoConflict /\ Adjacent /\ OneCurrent(live, row) /\ EndFacts
=============================================================================
