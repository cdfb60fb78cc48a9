-------------------------- MODULE KlineMirrorProofs --------------------------
(***************************************************************************)
(* Proofs about the goroutines of Store.Upsert, for any number of pushes   *)
(* and any open times.                                                     *)
(***************************************************************************)
EXTENDS KlineMirror, CandlesProofs

(* The strengthening.                                                      *)

\* The goroutines a new one comes after have ended, and so have those whose
\* writes are behind an acknowledged one.
OnlyEndedAreOlder ==
  /\ \A r \in Ranks : \A q \in before[r] : job[q] = "ended"
  /\ \A op \in {"upsert", "set"} : \A q \in passed[op] : job[q] = "ended"

\* A candle carries the rank of its push.
RanksAreExact == \A r \in Ranks : pushed[r].v = r

\* The servers hold what was pushed, ...
OnlyPushed ==
  /\ \A c \in latest : c.v \in Ranks /\ c = pushed[c.v]
  /\ \A c \in ToSet(rows) : c.v \in Ranks /\ c = pushed[c.v]

\* ... and so do the commands, which are all among those left behind.
OnlyLeftAreLate ==
  /\ late \subseteq left
  /\ \A c \in left : c.candle.v \in Ranks /\ c.candle = pushed[c.candle.v]

IInv ==
  /\ TypeOK
  /\ OnlyEndedAreOlder
  /\ RanksAreExact
  /\ OnlyPushed
  /\ OnlyLeftAreLate
  /\ OldPushesStayBehind

-----------------------------------------------------------------------------
\* A function on an initial range of the numbers, and one more value.
LEMMA AppendToFunction ==
  ASSUME NEW S, NEW n \in Nat, NEW f \in [1..n -> S], NEW e \in S
  PROVE  /\ Append(f, e) \in [1..n + 1 -> S]
         /\ \A i \in 1..n : Append(f, e)[i] = f[i]
         /\ Append(f, e)[n + 1] = e
<1>1. f \in Seq(S) /\ Len(f) = n
  BY LenProperties, SeqDef
<1>2. /\ Append(f, e) \in Seq(S) /\ Len(Append(f, e)) = n + 1
      /\ \A i \in 1..n : Append(f, e)[i] = f[i]
      /\ Append(f, e)[n + 1] = e
  BY <1>1, AppendProperties
<1>3. Append(f, e) \in [1..n + 1 -> S]
  BY <1>2, LenProperties
<1>4. QED
  BY <1>2, <1>3

\* The initial states satisfy the invariant.
LEMMA InitIInv == Init => IInv
<1> SUFFICES ASSUME Init PROVE IInv
  OBVIOUS
<1>1. Len(pushed) = 0 /\ Ranks = {}
  BY DEF Init, Ranks
<1>2. TypeOK
  <2>1. MaxPush \in Nat
    BY MirrorAssumption, LenProperties DEF MaxPush
  <2>2. Ascending(rows) /\ ToSet(rows) = {}
    BY DEF Init, Ascending, ToSet
  <2>3. job \in [Ranks -> {"upsert", "set", "publish", "ended"}]
        /\ before \in [Ranks -> SUBSET Ranks]
    BY <1>1 DEF Init
  <2>4. QED
    BY <1>1, <2>1, <2>2, <2>3 DEF Init, TypeOK
<1>3. ToSet(rows) = {}
  BY DEF Init, ToSet
<1>4. QED
  BY <1>1, <1>2, <1>3 DEF Init, IInv, OnlyEndedAreOlder, RanksAreExact,
     OnlyPushed, OnlyLeftAreLate, OldPushesStayBehind

-----------------------------------------------------------------------------
(* The steps.                                                              *)

\* What the other lemmas use of the types.
LEMMA PushedTypes ==
  ASSUME TypeOK
  PROVE  /\ Len(pushed) \in Nat /\ Ranks = 1..Len(pushed)
         /\ \A r \in Ranks : pushed[r] \in Candle
BY LenProperties, ElementOfSeq DEF TypeOK, Ranks

\* Store.Upsert starts a goroutine.
LEMMA PushStep ==
  ASSUME IInv, Push
  PROVE  IInv'
<1> DEFINE n == Len(pushed)
           Stages == {"upsert", "set", "publish", "ended"}
           c == [t |-> OpenTimes[n + 1], v |-> n + 1]
           older == {r \in Ranks : job[r] = "ended"}
<1>1. n \in Nat /\ Ranks = 1..n /\ \A r \in Ranks : pushed[r] \in Candle
  BY PushedTypes DEF IInv
<1>2. MaxPush \in Nat /\ n < MaxPush /\ OpenTimes[n + 1] \in Times
  BY <1>1, MirrorAssumption, LenProperties, ElementOfSeq DEF Push, MaxPush
<1>3. c \in Candle
  BY <1>1, <1>2 DEF Candle
<1>4. /\ pushed' \in Seq(Candle) /\ Len(pushed') = n + 1
      /\ \A r \in Ranks : pushed'[r] = pushed[r]
      /\ pushed'[n + 1] = c
  BY <1>1, <1>3, AppendProperties DEF Push, IInv, TypeOK
<1>5. Ranks' = 1..n + 1
  BY <1>4 DEF Ranks
<1>6. /\ job' \in [1..n + 1 -> Stages]
      /\ \A r \in Ranks : job'[r] = job[r]
  <2>1. job \in [1..n -> Stages] /\ FirstOperation \in Stages
    BY <1>1 DEF IInv, TypeOK, FirstOperation, AfterUpsert
  <2>2. job' = Append(job, FirstOperation)
    BY DEF Push
  <2>3. n \in Nat
    BY <1>1
  <2> HIDE DEF n, Stages
  <2>4. job' \in [1..n + 1 -> Stages]
    BY <2>1, <2>2, <2>3, AppendToFunction
  <2>5. \A r \in 1..n : job'[r] = job[r]
    BY <2>1, <2>2, <2>3, AppendToFunction
  <2>6. QED
    BY <1>1, <2>4, <2>5
<1>7. /\ before' \in [1..n + 1 -> SUBSET Ranks]
      /\ \A r \in Ranks : before'[r] = before[r]
      /\ before'[n + 1] = older
  <2>1. before \in [1..n -> SUBSET Ranks] /\ older \in SUBSET Ranks
    BY <1>1 DEF IInv, TypeOK
  <2>2. before' = Append(before, older)
    BY DEF Push
  <2>3. n \in Nat
    BY <1>1
  <2> DEFINE Sets == SUBSET Ranks
  <2>4. before \in [1..n -> Sets] /\ older \in Sets
    BY <2>1
  <2> HIDE DEF n, older, Sets
  <2>5. before' \in [1..n + 1 -> Sets]
    BY <2>2, <2>3, <2>4, AppendToFunction
  <2>6. \A r \in 1..n : before'[r] = before[r]
    BY <2>2, <2>3, <2>4, AppendToFunction
  <2>7. before'[n + 1] = older
    BY <2>2, <2>3, <2>4, AppendToFunction
  <2> USE DEF n, Sets
  <2>8. QED
    BY <1>1, <2>5, <2>6, <2>7
<1>8. TypeOK'
  <2>1. before' \in [1..n + 1 -> SUBSET (1..n + 1)]
    BY <1>1, <1>7
  <2>2. passed' \in [{"upsert", "set"} -> SUBSET (1..n + 1)]
    BY <1>1 DEF IInv, TypeOK, Push, serverVars
  <2>3. n + 1 <= MaxPush
    BY <1>1, <1>2
  <2>4. job' \in [Ranks' -> Stages] /\ before' \in [Ranks' -> SUBSET Ranks']
        /\ passed' \in [{"upsert", "set"} -> SUBSET Ranks']
    BY <1>5, <1>6, <2>1, <2>2
  <2>5. /\ hasDB' \in BOOLEAN /\ hasRedis' \in BOOLEAN
        /\ rows' \in Seq(Candle) /\ Ascending(rows)'
        /\ latest' \subseteq Candle /\ late' \subseteq Command
        /\ left' \subseteq Command
    BY DEF IInv, TypeOK, Push, serverVars, Ascending
  <2>6. MaxPush' = MaxPush
    BY DEF MaxPush
  <2>7. QED
    BY <1>4, <2>3, <2>4, <2>5, <2>6 DEF TypeOK, Command
<1>9. OnlyEndedAreOlder'
  <2>1. \A r \in Ranks : \A q \in before[r] : job'[q] = "ended"
    BY <1>6 DEF IInv, TypeOK, OnlyEndedAreOlder
  <2>2. \A q \in older : job'[q] = "ended"
    BY <1>6
  <2>3. \A r \in Ranks' : \A q \in before'[r] : job'[q] = "ended"
    BY <1>1, <1>5, <1>7, <2>1, <2>2
  <2>4. \A op \in {"upsert", "set"} : \A q \in passed'[op] : job'[q] = "ended"
    BY <1>6 DEF IInv, TypeOK, OnlyEndedAreOlder, Push, serverVars
  <2>5. QED
    BY <2>3, <2>4 DEF OnlyEndedAreOlder
<1>10. RanksAreExact'
  BY <1>1, <1>4, <1>5 DEF IInv, RanksAreExact
<1>11. OnlyPushed'
  BY <1>1, <1>4, <1>5 DEF IInv, OnlyPushed, Push, serverVars, ToSet
<1>12. OnlyLeftAreLate'
  BY <1>1, <1>4, <1>5 DEF IInv, OnlyLeftAreLate, Push, serverVars
<1>13. OldPushesStayBehind'
  <2>1. \A op, r : r \in Ranks => Cmd(op, r)' = Cmd(op, r)
    BY <1>4 DEF Cmd
  <2>2. /\ latest' = latest /\ rows' = rows /\ passed' = passed /\ left' = left
        /\ ToSet(rows)' = ToSet(rows)
    BY DEF Push, serverVars, ToSet
  <2>3. \A k \in latest : k.v \in passed["set"] => Cmd("set", k.v)' \in left
    BY <2>1 DEF IInv, OldPushesStayBehind, OnlyPushed
  <2>4. \A k \in ToSet(rows) : \A r \in passed["upsert"] :
          k.v = r => Cmd("upsert", r)' \in left
    BY <2>1 DEF IInv, OldPushesStayBehind, OnlyPushed
  <2>5. QED
    BY <2>2, <2>3, <2>4 DEF OldPushesStayBehind
<1>14. QED
  BY <1>8, <1>9, <1>10, <1>11, <1>12, <1>13 DEF IInv

\* persistExternal goes on: the pushes stay, and what has ended stays ended.
LEMMA ProceedKeeps ==
  ASSUME IInv, NEW r \in Ranks, NEW op \in {"upsert", "set", "publish"},
         NEW next \in {"set", "publish", "ended"}, Proceed(r, op, next)
  PROVE  /\ hasDB' \in BOOLEAN /\ hasRedis' \in BOOLEAN
         /\ pushed' = pushed /\ Ranks' = Ranks /\ MaxPush' = MaxPush
         /\ job' \in [Ranks -> {"upsert", "set", "publish", "ended"}]
         /\ before' \in [Ranks -> SUBSET Ranks]
         /\ \A q \in Ranks : job[q] = "ended" => job'[q] = "ended"
         /\ \A q \in Ranks : before'[q] \subseteq before[q]
<1>1. /\ job \in [Ranks -> {"upsert", "set", "publish", "ended"}]
      /\ before \in [Ranks -> SUBSET Ranks]
  BY DEF IInv, TypeOK
<1>2. /\ hasDB' \in BOOLEAN /\ hasRedis' \in BOOLEAN /\ pushed' = pushed
      /\ Ranks' = Ranks /\ MaxPush' = MaxPush
  BY DEF IInv, TypeOK, Proceed, Ranks, MaxPush
<1>3. job[r] = op /\ job' = [job EXCEPT ![r] = next]
  BY DEF Proceed
<1>4. CASE next = "ended"
  <2>1. before' = [before EXCEPT ![r] = {}]
    BY <1>4 DEF Proceed
  <2>2. QED
    BY <1>1, <1>2, <1>3, <2>1
<1>5. CASE next # "ended"
  <2>1. before' = before
    BY <1>5 DEF Proceed
  <2>2. QED
    BY <1>1, <1>2, <1>3, <2>1
<1>6. QED
  BY <1>4, <1>5

\* An acknowledged write puts only finished goroutines behind it, so not
\* its own.
LEMMA AcknowledgedKeeps ==
  ASSUME IInv, NEW r \in Ranks, NEW op \in {"upsert", "set"}, job[r] = op,
         Acknowledged(op, r)
  PROVE  /\ passed' \in [{"upsert", "set"} -> SUBSET Ranks]
         /\ \A o \in {"upsert", "set"} : \A q \in passed'[o] : job[q] = "ended"
         /\ \A o \in {"upsert", "set"} : o # op => passed'[o] = passed[o]
         /\ \A q \in passed'[op] : q \in passed[op] \/ q \in before[r]
<1>1. /\ passed \in [{"upsert", "set"} -> SUBSET Ranks]
      /\ before \in [Ranks -> SUBSET Ranks]
  BY DEF IInv, TypeOK
<1>2. /\ \A q \in before[r] : job[q] = "ended"
      /\ \A o \in {"upsert", "set"} : \A q \in passed[o] : job[q] = "ended"
  BY DEF IInv, OnlyEndedAreOlder
<1>3. passed' = [passed EXCEPT ![op] = passed[op] \cup
        {q \in before[r] : op = "set" \/ pushed[q].t = pushed[r].t}]
  BY DEF Acknowledged
<1>4. QED
  BY <1>1, <1>2, <1>3

\* What a goroutine's step must still be shown to keep, beside its progress.
LEMMA ServersKept ==
  ASSUME IInv, NEW r \in Ranks, NEW op \in {"upsert", "set", "publish"},
         NEW next \in {"set", "publish", "ended"}, Proceed(r, op, next),
         rows' \in Seq(Candle), Ascending(rows'), latest' \subseteq Candle,
         late' \subseteq left', left' \subseteq Command,
         passed' \in [{"upsert", "set"} -> SUBSET Ranks],
         \A o \in {"upsert", "set"} : \A q \in passed'[o] : job[q] = "ended",
         \A c \in latest' : c.v \in Ranks /\ c = pushed[c.v],
         \A c \in ToSet(rows') : c.v \in Ranks /\ c = pushed[c.v],
         \A c \in left' : /\ c.candle.v \in Ranks
                          /\ c.candle = pushed[c.candle.v],
         \A c \in latest' : c.v \in passed'["set"] => Cmd("set", c.v) \in left',
         \A c \in ToSet(rows') : \A q \in passed'["upsert"] :
           c.v = q => Cmd("upsert", q) \in left'
  PROVE  IInv'
<1>1. /\ hasDB' \in BOOLEAN /\ hasRedis' \in BOOLEAN
      /\ pushed' = pushed /\ Ranks' = Ranks /\ MaxPush' = MaxPush
      /\ job' \in [Ranks -> {"upsert", "set", "publish", "ended"}]
      /\ before' \in [Ranks -> SUBSET Ranks]
      /\ \A q \in Ranks : job[q] = "ended" => job'[q] = "ended"
      /\ \A q \in Ranks : before'[q] \subseteq before[q]
  BY ProceedKeeps
<1>2. /\ before \in [Ranks -> SUBSET Ranks]
      /\ pushed \in Seq(Candle) /\ Len(pushed) <= MaxPush
  BY DEF IInv, TypeOK
<1>3. TypeOK'
  <2>1. Ascending(rows)'
    BY DEF Ascending
  <2>2. QED
    BY <1>1, <1>2, <2>1 DEF TypeOK, Command
<1>4. OnlyEndedAreOlder'
  <2>1. \A q \in Ranks : \A p \in before[q] : job[p] = "ended"
    BY DEF IInv, OnlyEndedAreOlder
  <2>2. \A q \in Ranks : \A p \in before'[q] : job'[p] = "ended"
    BY <1>1, <1>2, <2>1
  <2>3. \A o \in {"upsert", "set"} : \A q \in passed'[o] : job'[q] = "ended"
    BY <1>1
  <2>4. QED
    BY <1>1, <2>2, <2>3 DEF OnlyEndedAreOlder
<1>5. RanksAreExact'
  BY <1>1 DEF IInv, RanksAreExact
<1>6. OnlyPushed' /\ OnlyLeftAreLate'
  BY <1>1 DEF OnlyPushed, OnlyLeftAreLate, ToSet
<1>7. OldPushesStayBehind'
  <2>1. \A o, q : Cmd(o, q)' = Cmd(o, q)
    BY <1>1 DEF Cmd
  <2>2. ToSet(rows)' = ToSet(rows')
    BY DEF ToSet
  <2>3. QED
    BY <2>1, <2>2 DEF OldPushesStayBehind
<1>8. QED
  BY <1>3, <1>4, <1>5, <1>6, <1>7 DEF IInv

\* What IInv says of the servers, in the form ServersKept asks for.
LEMMA ServersNow ==
  ASSUME IInv
  PROVE  /\ rows \in Seq(Candle) /\ Ascending(rows) /\ latest \subseteq Candle
         /\ late \subseteq left /\ left \subseteq Command
         /\ passed \in [{"upsert", "set"} -> SUBSET Ranks]
         /\ \A o \in {"upsert", "set"} : \A q \in passed[o] : job[q] = "ended"
         /\ \A c \in latest : c.v \in Ranks /\ c = pushed[c.v]
         /\ \A c \in ToSet(rows) : c.v \in Ranks /\ c = pushed[c.v]
         /\ \A c \in left : /\ c.candle.v \in Ranks
                            /\ c.candle = pushed[c.candle.v]
         /\ \A c \in latest : c.v \in passed["set"] => Cmd("set", c.v) \in left
         /\ \A c \in ToSet(rows) : \A q \in passed["upsert"] :
              c.v = q => Cmd("upsert", q) \in left
BY DEF IInv, TypeOK, OnlyEndedAreOlder, OnlyPushed, OnlyLeftAreLate,
   OldPushesStayBehind

\* A command of the servers, and the candle it carries.
LEMMA CommandOf ==
  ASSUME IInv, NEW r \in Ranks, NEW op \in {"upsert", "set"}
  PROVE  /\ Cmd(op, r) \in Command
         /\ Cmd(op, r).candle = pushed[r] /\ pushed[r] \in Candle
         /\ pushed[r].v = r
BY PushedTypes DEF IInv, RanksAreExact, Cmd, Command

\* What is left behind is the command itself, or nothing.
LEMMA UnansweredKeeps ==
  ASSUME IInv, NEW r \in Ranks, NEW op \in {"upsert", "set"},
         Unanswered(op, r)
  PROVE  /\ left \subseteq left' /\ late' \subseteq left'
         /\ left' \subseteq Command
         /\ \A c \in left' : /\ c.candle.v \in Ranks
                            /\ c.candle = pushed[c.candle.v]
<1>1. CASE late' = late /\ left' = left
  BY <1>1, ServersNow
<1>2. CASE late' = late \cup {Cmd(op, r)} /\ left' = left \cup {Cmd(op, r)}
  BY <1>2, CommandOf, ServersNow
<1>3. QED
  BY <1>1, <1>2 DEF Unanswered

\* The row is written: what the write puts behind it had other open times,
\* or was this very row.
LEMMA UpsertRowStep ==
  ASSUME IInv, NEW r \in Ranks, UpsertRow(r)
  PROVE  IInv'
<1>1. Proceed(r, "upsert", AfterUpsert) /\ job[r] = "upsert"
      /\ AfterUpsert \in {"set", "publish", "ended"}
      /\ Acknowledged("upsert", r)
  BY DEF UpsertRow, Proceed, AfterUpsert
<1>2. rows' = Upsert(rows, pushed[r]) /\ latest' = latest /\ late' = late
      /\ left' = left
  BY DEF UpsertRow
<1>3. pushed[r] \in Candle /\ pushed[r].v = r
  BY CommandOf
<1>4. /\ rows' \in Seq(Candle) /\ Ascending(rows')
      /\ ToSet(rows') =
           {d \in ToSet(rows) : d.t # pushed[r].t} \cup {pushed[r]}
  BY <1>2, <1>3, ServersNow, UpsertContents
<1>5. /\ passed' \in [{"upsert", "set"} -> SUBSET Ranks]
      /\ \A o \in {"upsert", "set"} : \A q \in passed'[o] : job[q] = "ended"
      /\ passed'["set"] = passed["set"]
      /\ \A q \in passed'["upsert"] : q \in passed["upsert"]
           \/ (q \in before[r] /\ pushed[q].t = pushed[r].t)
  <2>1. /\ passed' \in [{"upsert", "set"} -> SUBSET Ranks]
        /\ \A o \in {"upsert", "set"} : \A q \in passed'[o] : job[q] = "ended"
        /\ passed'["set"] = passed["set"]
    BY <1>1, AcknowledgedKeeps
  <2>2. passed' = [passed EXCEPT !["upsert"] = passed["upsert"] \cup
          {q \in before[r] : "upsert" = "set" \/ pushed[q].t = pushed[r].t}]
    BY <1>1 DEF Acknowledged
  <2>3. QED
    BY <2>1, <2>2, ServersNow
<1>6. \A c \in ToSet(rows') : c.v \in Ranks /\ c = pushed[c.v]
  BY <1>3, <1>4, ServersNow
<1>7. \A c \in ToSet(rows') : \A q \in passed'["upsert"] :
        c.v = q => Cmd("upsert", q) \in left
  <2> SUFFICES ASSUME NEW c \in ToSet(rows'), c.v \in passed'["upsert"]
               PROVE  Cmd("upsert", c.v) \in left
    OBVIOUS
  <2>1. job[c.v] = "ended"
    BY <1>5
  <2>2. c.v # r
    BY <1>1, <2>1
  <2>3. c \in ToSet(rows) /\ c.t # pushed[r].t
    BY <1>3, <1>4, <2>2
  <2>4. c.v \in passed["upsert"]
    BY <1>5, <1>6, <2>3
  <2>5. QED
    BY <2>3, <2>4, ServersNow
<1>8. QED
  BY <1>1, <1>2, <1>4, <1>5, <1>6, <1>7, ServersNow, ServersKept

\* The latest bar is set to a push whose goroutine has not ended.
LEMMA SetLatestStep ==
  ASSUME IInv, NEW r \in Ranks, SetLatest(r)
  PROVE  IInv'
<1>1. Proceed(r, "set", "publish") /\ job[r] = "set" /\ Acknowledged("set", r)
  BY DEF SetLatest, Proceed
<1>2. rows' = rows /\ latest' = {pushed[r]} /\ Unanswered("set", r)
  BY DEF SetLatest
<1>3. pushed[r] \in Candle /\ pushed[r].v = r
  BY CommandOf
<1>4. /\ passed' \in [{"upsert", "set"} -> SUBSET Ranks]
      /\ \A o \in {"upsert", "set"} : \A q \in passed'[o] : job[q] = "ended"
      /\ passed'["upsert"] = passed["upsert"]
  BY <1>1, AcknowledgedKeeps
<1>5. r \notin passed'["set"]
  BY <1>1, <1>4
<1>6. /\ left \subseteq left' /\ late' \subseteq left' /\ left' \subseteq Command
      /\ \A c \in left' : /\ c.candle.v \in Ranks
                         /\ c.candle = pushed[c.candle.v]
  BY <1>2, UnansweredKeeps
<1>7. QED
  BY <1>1, <1>2, <1>3, <1>4, <1>5, <1>6, ServersNow, ServersKept

\* An operation that fails leaves at most its own command behind.
LEMMA FailsStep ==
  ASSUME IInv, NEW r \in Ranks, NEW op \in {"upsert", "set"},
         NEW next \in {"set", "publish", "ended"},
         Proceed(r, op, next), Fails(op, r)
  PROVE  IInv'
<1>1. /\ rows' = rows /\ latest' = latest /\ passed' = passed
      /\ Unanswered(op, r)
  BY DEF Fails
<1>2. /\ left \subseteq left' /\ late' \subseteq left' /\ left' \subseteq Command
      /\ \A c \in left' : /\ c.candle.v \in Ranks
                         /\ c.candle = pushed[c.candle.v]
  BY <1>1, UnansweredKeeps
<1>3. QED
  BY <1>1, <1>2, ServersNow, ServersKept

\* Publishing leaves nothing.
LEMMA PublishStep ==
  ASSUME IInv, NEW r \in Ranks, Publish(r)
  PROVE  IInv'
<1>1. Proceed(r, "publish", "ended") /\ rows' = rows /\ latest' = latest
      /\ late' = late /\ passed' = passed /\ left' = left
  BY DEF Publish, serverVars
<1>2. QED
  BY <1>1, ServersNow, ServersKept

\* A command applied late was left behind, and so may overwrite anything.
LEMMA LateCommandStep ==
  ASSUME IInv, LateCommand
  PROVE  IInv'
<1>1. PICK c \in late :
        /\ late' \subseteq late
        /\ IF c.op = "upsert"
           THEN rows' = Upsert(rows, c.candle) /\ latest' = latest
           ELSE latest' = {c.candle} /\ rows' = rows
        /\ UNCHANGED <<jobVars, passed, left>>
  BY DEF LateCommand
<1>2. /\ c \in left /\ c \in Command /\ c.candle \in Candle
      /\ c.op \in {"upsert", "set"} /\ c = [op |-> c.op, candle |-> c.candle]
      /\ c.candle.v \in Ranks /\ c.candle = pushed[c.candle.v]
  BY <1>1, ServersNow DEF Command
<1>3. c = Cmd(c.op, c.candle.v)
  BY <1>2 DEF Cmd
<1>4. /\ hasDB' = hasDB /\ hasRedis' = hasRedis /\ pushed' = pushed
      /\ job' = job /\ before' = before /\ passed' = passed /\ left' = left
      /\ Ranks' = Ranks /\ MaxPush' = MaxPush
  BY <1>1 DEF jobVars, Ranks, MaxPush
<1>5. /\ rows' \in Seq(Candle) /\ Ascending(rows') /\ latest' \subseteq Candle
      /\ \A d \in ToSet(rows') :
           d \in ToSet(rows) \/ (d = c.candle /\ c.op = "upsert")
      /\ \A d \in latest' : d \in latest \/ (d = c.candle /\ c.op = "set")
  <2>1. CASE c.op = "upsert"
    <3>1. /\ rows' \in Seq(Candle) /\ Ascending(rows')
          /\ ToSet(rows') =
               {d \in ToSet(rows) : d.t # c.candle.t} \cup {c.candle}
      BY <1>1, <1>2, <2>1, ServersNow, UpsertContents
    <3>2. latest' = latest
      BY <1>1, <2>1
    <3>3. QED
      BY <2>1, <3>1, <3>2, ServersNow
  <2>2. CASE c.op = "set"
    <3>1. rows' = rows /\ latest' = {c.candle}
      BY <1>1, <2>2
    <3>2. QED
      BY <1>2, <2>2, <3>1, ServersNow
  <2>3. QED
    BY <1>2, <2>1, <2>2
<1>6. TypeOK'
  <2>1. Ascending(rows)' /\ late' \subseteq Command
    BY <1>1, <1>5, ServersNow DEF Ascending
  <2>2. QED
    BY <1>4, <1>5, <2>1 DEF IInv, TypeOK, Command
<1>7. OnlyEndedAreOlder' /\ RanksAreExact'
  BY <1>4 DEF IInv, OnlyEndedAreOlder, RanksAreExact
<1>8. OnlyPushed'
  <2>1. \A d \in ToSet(rows') : d.v \in Ranks /\ d = pushed[d.v]
    BY <1>2, <1>5, ServersNow
  <2>2. \A d \in latest' : d.v \in Ranks /\ d = pushed[d.v]
    BY <1>2, <1>5, ServersNow
  <2>3. QED
    BY <1>4, <2>1, <2>2 DEF OnlyPushed, ToSet
<1>9. OnlyLeftAreLate'
  BY <1>1, <1>4 DEF IInv, OnlyLeftAreLate
<1>10. OldPushesStayBehind'
  <2>1. \A o, q : Cmd(o, q)' = Cmd(o, q)
    BY <1>4 DEF Cmd
  <2>2. \A d \in latest' : d.v \in passed["set"] => Cmd("set", d.v) \in left
    BY <1>2, <1>3, <1>5, ServersNow
  <2>3. \A d \in ToSet(rows') : \A q \in passed["upsert"] :
          d.v = q => Cmd("upsert", q) \in left
    BY <1>2, <1>3, <1>5, ServersNow
  <2>4. ToSet(rows)' = ToSet(rows')
    BY DEF ToSet
  <2>5. QED
    BY <1>4, <2>1, <2>2, <2>3, <2>4 DEF OldPushesStayBehind
<1>11. QED
  BY <1>6, <1>7, <1>8, <1>9, <1>10 DEF IInv

\* A step that changes nothing.
LEMMA StutterStep ==
  ASSUME IInv, UNCHANGED vars
  PROVE  IInv'
<1>1. /\ hasDB' = hasDB /\ hasRedis' = hasRedis /\ pushed' = pushed
      /\ job' = job /\ before' = before /\ rows' = rows /\ latest' = latest
      /\ late' = late /\ passed' = passed /\ left' = left
  BY DEF vars, jobVars, serverVars
<1>2. TypeOK'
  BY <1>1 DEF IInv, TypeOK, MaxPush, Ranks, Command, Ascending
<1>3. OnlyEndedAreOlder' /\ RanksAreExact' /\ OnlyPushed' /\ OnlyLeftAreLate'
      /\ OldPushesStayBehind'
  BY <1>1 DEF IInv, OnlyEndedAreOlder, RanksAreExact, OnlyPushed,
     OnlyLeftAreLate, OldPushesStayBehind, Ranks, ToSet, Cmd
<1>4. QED
  BY <1>2, <1>3 DEF IInv

\* Every step keeps the invariant.
LEMMA NextIInv == IInv /\ [Next]_vars => IInv'
<1> SUFFICES ASSUME IInv, [Next]_vars PROVE IInv'
  OBVIOUS
<1>1. CASE Push
  BY <1>1, PushStep
<1>2. ASSUME NEW r \in Ranks, UpsertRowFails(r) PROVE IInv'
  <2>1. /\ Proceed(r, "upsert", AfterUpsert) /\ Fails("upsert", r)
        /\ AfterUpsert \in {"set", "publish", "ended"}
    BY <1>2 DEF UpsertRowFails, AfterUpsert
  <2>2. QED
    BY <2>1, FailsStep
<1>3. ASSUME NEW r \in Ranks, SetLatestFails(r) PROVE IInv'
  <2>1. Proceed(r, "set", "publish") /\ Fails("set", r)
    BY <1>3 DEF SetLatestFails
  <2>2. QED
    BY <2>1, FailsStep
<1>4. ASSUME NEW r \in Ranks, Publish(r) PROVE IInv'
  BY <1>4, PublishStep
<1>5. ASSUME NEW r \in Ranks, UpsertRow(r) PROVE IInv'
  BY <1>5, UpsertRowStep
<1>6. ASSUME NEW r \in Ranks, SetLatest(r) PROVE IInv'
  BY <1>6, SetLatestStep
<1>7. CASE LateCommand
  BY <1>7, LateCommandStep
<1>8. CASE Finished \/ UNCHANGED vars
  BY <1>8, StutterStep DEF Finished
<1>9. QED
  BY <1>1, <1>2, <1>3, <1>4, <1>5, <1>6, <1>7, <1>8 DEF Next, OwnStep

\* The invariant holds in every reachable state.
LEMMA Invariance == Spec => []IInv
BY InitIInv, NextIInv, PTL DEF Spec

-----------------------------------------------------------------------------
(* The results.                                                            *)

\* Every variable has its type, and the rows of a pair stay one per open
\* time, for any number of goroutines and whatever the servers do.
THEOREM TypeCorrect == Spec => []TypeOK
<1>1. IInv => TypeOK
  BY DEF IInv
<1>2. QED
  BY <1>1, Invariance, PTL

\* Neither the rows nor the latest bar go back to a push that was done with
\* when the goroutine of an acknowledged write was started, unless by a
\* command that a timeout, or the client's retry of a SET, has left behind.
THEOREM OldStaysBehind == Spec => []OldPushesStayBehind
<1>1. IInv => OldPushesStayBehind
  BY DEF IInv
<1>2. QED
  BY <1>1, Invariance, PTL
=============================================================================
