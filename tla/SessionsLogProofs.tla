-------------------------- MODULE SessionsLogProofs --------------------------
(* Proofs about the undo log of Sessions: it can take back what it notes, so  *)
(* transactions are atomic, and what is committed is on disk.                 *)
EXTENDS SessionsProofs, WellFoundedInduction

LEMMA HasLeast ==
  ASSUME NEW T, T \subseteq Nat, T # {}
  PROVE  \E m \in T : \A n \in T : m <= n
<1> DEFINE R == OpToRel(<, Nat)
<1>1. IsWellFoundedOn(R, Nat)
  BY NatLessThanWellFounded, Zenon
<1>2. \A m, n \in Nat : <<m, n>> \in R <=> m < n
  BY DEF OpToRel
<1> HIDE DEF R
<1>3. PICK m \in T : \A n \in T : ~(<<n, m>> \in R)
  BY <1>1, WFMin
<1>4. ASSUME NEW n \in T PROVE m <= n
  <2>1. m \in Nat /\ n \in Nat /\ ~(n < m)
    BY <1>2, <1>3
  <2>2. QED
    BY <2>1
<1>5. QED
  BY <1>4

-----------------------------------------------------------------------------
(* A log by itself, and the rows it was written over.                       *)

\* Where a log speaks of a row.
Places(lg, t, k) == {i \in DOMAIN lg : lg[i].table = t /\ lg[i].key = k}

\* The row stands as the last change to it left it, and each change to it began
\* where the one before it ended.
ChainedAt(lg, rw, t, k) ==
  /\ \A i \in Places(lg, t, k) :
       (\A j \in Places(lg, t, k) : j <= i) => rw[t][k] = lg[i].after
  /\ \A i, j \in Places(lg, t, k) :
       i < j /\ (\A l \in Places(lg, t, k) : l <= i \/ j <= l) => lg[j].before = lg[i].after

Chained(lg, rw) == \A t \in Table, k \in Key : ChainedAt(lg, rw, t, k)

\* What the row was when the log began.
Original(lg, rw, t, k) ==
  IF Places(lg, t, k) = {} THEN rw[t][k]
  ELSE lg[CHOOSE i \in Places(lg, t, k) : \A j \in Places(lg, t, k) : i <= j].before

\* Two images of the tables that differ in one row at most, which is v in the later.
OneRow(rw, rx, t, k, v) ==
  /\ rx[t][k] = v
  /\ \A u \in Table, l \in Key : ~(u = t /\ l = k) => rx[u][l] = rw[u][l]

LEMMA PlacesAreNumbers ==
  ASSUME NEW lg \in Seq(Change), NEW t, NEW k
  PROVE  Places(lg, t, k) \subseteq 1..Len(lg) /\ Len(lg) \in Nat
BY DEF Places

LEMMA PlacesOfAppend ==
  ASSUME NEW lg \in Seq(Change), NEW c \in Change, NEW t, NEW k
  PROVE  /\ c.table = t /\ c.key = k =>
              Places(Append(lg, c), t, k) = Places(lg, t, k) \cup {Len(lg) + 1}
         /\ ~(c.table = t /\ c.key = k) => Places(Append(lg, c), t, k) = Places(lg, t, k)
         /\ \A i \in Places(lg, t, k) : Append(lg, c)[i] = lg[i]
         /\ Append(lg, c)[Len(lg) + 1] = c
<1>1. /\ DOMAIN lg = 1..Len(lg) /\ Len(lg) \in Nat
      /\ DOMAIN Append(lg, c) = 1..Len(lg) + 1
      /\ \A i \in 1..Len(lg) : Append(lg, c)[i] = lg[i]
      /\ Append(lg, c)[Len(lg) + 1] = c
  OBVIOUS
<1>2. QED
  BY <1>1 DEF Places

LEMMA PlacesOfFront ==
  ASSUME NEW lg \in Seq(Change), Len(lg) > 0, NEW t, NEW k
  PROVE  /\ SubSeq(lg, 1, Len(lg) - 1) \in Seq(Change)
         /\ Places(SubSeq(lg, 1, Len(lg) - 1), t, k) = Places(lg, t, k) \ {Len(lg)}
         /\ \A i \in Places(lg, t, k) \ {Len(lg)} : SubSeq(lg, 1, Len(lg) - 1)[i] = lg[i]
<1> DEFINE front == SubSeq(lg, 1, Len(lg) - 1)
<1>1. /\ DOMAIN lg = 1..Len(lg) /\ Len(lg) \in Nat \ {0}
      /\ front \in Seq(Change) /\ DOMAIN front = 1..Len(lg) - 1
      /\ \A i \in 1..Len(lg) - 1 : front[i] = lg[i]
  OBVIOUS
<1> HIDE DEF front
<1>2. Places(front, t, k) = Places(lg, t, k) \ {Len(lg)}
  BY <1>1 DEF Places
<1>3. \A i \in Places(lg, t, k) \ {Len(lg)} : front[i] = lg[i]
  BY <1>1, PlacesAreNumbers
<1>4. QED
  BY <1>1, <1>2, <1>3 DEF front

\* What Original says, without its CHOOSE.
LEMMA OriginalIs ==
  ASSUME NEW lg \in Seq(Change), NEW rw, NEW t, NEW k
  PROVE  /\ Places(lg, t, k) = {} => Original(lg, rw, t, k) = rw[t][k]
         /\ Places(lg, t, k) # {} =>
              \E i \in Places(lg, t, k) : /\ \A j \in Places(lg, t, k) : i <= j
                                          /\ Original(lg, rw, t, k) = lg[i].before
<1>1. Places(lg, t, k) # {} => \E i \in Places(lg, t, k) : \A j \in Places(lg, t, k) : i <= j
  BY PlacesAreNumbers, HasLeast
<1>2. QED
  BY <1>1 DEF Original

\* A row that is as it was, of which two logs say the same.
LEMMA SameChain ==
  ASSUME NEW lg \in Seq(Change), NEW lh \in Seq(Change), NEW rw, NEW rx,
         Chained(lg, rw), NEW t \in Table, NEW k \in Key, rx[t][k] = rw[t][k],
         Places(lh, t, k) = Places(lg, t, k), \A i \in Places(lg, t, k) : lh[i] = lg[i]
  PROVE  ChainedAt(lh, rx, t, k) /\ Original(lh, rx, t, k) = Original(lg, rw, t, k)
<1>1. ChainedAt(lh, rx, t, k)
  BY DEF Chained, ChainedAt
<1>2. CASE Places(lg, t, k) = {}
  BY <1>1, <1>2 DEF Original
<1>3. CASE Places(lg, t, k) # {}
  <2>1. PICK i \in Places(lg, t, k) : /\ \A j \in Places(lg, t, k) : i <= j
                                      /\ Original(lg, rw, t, k) = lg[i].before
    BY <1>3, OriginalIs
  <2>2. PICK j \in Places(lg, t, k) : /\ \A m \in Places(lg, t, k) : j <= m
                                      /\ Original(lh, rx, t, k) = lh[j].before
    BY <1>3, OriginalIs
  <2>3. i = j
    BY <2>1, <2>2, PlacesAreNumbers
  <2>4. QED
    BY <1>1, <2>1, <2>2, <2>3
<1>4. QED
  BY <1>2, <1>3

\* A change that is noted as it is made keeps the chain, and what the rows were.
LEMMA AppendChains ==
  ASSUME NEW lg \in Seq(Change), NEW rw, NEW rx, Chained(lg, rw),
         NEW c \in Change, c.before = rw[c.table][c.key],
         OneRow(rw, rx, c.table, c.key, c.after)
  PROVE  /\ Chained(Append(lg, c), rx)
         /\ \A u \in Table, l \in Key :
              Original(Append(lg, c), rx, u, l) = Original(lg, rw, u, l)
<1> DEFINE lh == Append(lg, c)
           n == Len(lg) + 1
           t == c.table
           k == c.key
<1>0. lh \in Seq(Change) /\ n \in Nat
  OBVIOUS
<1>1. /\ t \in Table /\ k \in Key
      /\ rx[t][k] = c.after /\ c.before = rw[t][k]
      /\ \A u \in Table, l \in Key : ~(u = t /\ l = k) => rx[u][l] = rw[u][l]
  BY DEF OneRow, Change
<1>2. \A u, l : /\ Places(lg, u, l) \subseteq 1..n - 1
                /\ \A i \in Places(lg, u, l) : lh[i] = lg[i]
  BY PlacesAreNumbers, PlacesOfAppend
<1>3. lh[n] = c
  BY PlacesOfAppend
<1>4. \A u, l : ~(u = t /\ l = k) => Places(lh, u, l) = Places(lg, u, l)
  BY <1>1, PlacesOfAppend
<1>5. Places(lh, t, k) = Places(lg, t, k) \cup {n}
  BY <1>1, PlacesOfAppend
<1> HIDE DEF lh, n, t, k
<1>6. ASSUME NEW u \in Table, NEW l \in Key, ~(u = t /\ l = k)
      PROVE  ChainedAt(lh, rx, u, l) /\ Original(lh, rx, u, l) = Original(lg, rw, u, l)
  <2>1. rx[u][l] = rw[u][l]
    BY <1>1, <1>6
  <2>2. Places(lh, u, l) = Places(lg, u, l) /\ \A i \in Places(lg, u, l) : lh[i] = lg[i]
    BY <1>2, <1>4, <1>6
  <2>3. QED
    BY <1>0, <2>1, <2>2, SameChain
<1>7. ChainedAt(lh, rx, t, k)
  <2>1. ChainedAt(lg, rw, t, k)
    BY <1>1 DEF Chained
  <2>2. /\ \A i \in Places(lg, t, k) : i \in Nat /\ i < n /\ lh[i] = lg[i]
        /\ n \in Nat
    BY <1>0, <1>2
  <2>3. ASSUME NEW i \in Places(lh, t, k), \A j \in Places(lh, t, k) : j <= i
        PROVE  rx[t][k] = lh[i].after
    <3>1. n <= i /\ (i = n \/ i \in Places(lg, t, k))
      BY <1>5, <2>3
    <3>2. i = n
      BY <2>2, <3>1
    <3>3. QED
      BY <1>1, <1>3, <3>2
  <2>4. ASSUME NEW i \in Places(lh, t, k), NEW j \in Places(lh, t, k),
               i < j, \A l \in Places(lh, t, k) : l <= i \/ j <= l
        PROVE  lh[j].before = lh[i].after
    <3>1. i \in Places(lg, t, k) /\ lh[i] = lg[i]
      BY <1>5, <2>2, <2>4
    <3>2. CASE j = n
      <4>1. \A l \in Places(lg, t, k) : l <= i
        BY <1>5, <2>2, <2>4, <3>2
      <4>2. rw[t][k] = lg[i].after
        BY <2>1, <3>1, <4>1 DEF ChainedAt
      <4>3. QED
        BY <1>1, <1>3, <3>1, <3>2, <4>2
    <3>3. CASE j # n
      <4>1. j \in Places(lg, t, k) /\ lh[j] = lg[j]
        BY <1>5, <2>2, <3>3
      <4>2. QED
        BY <1>5, <2>1, <2>4, <3>1, <4>1 DEF ChainedAt
    <3>4. QED
      BY <3>2, <3>3
  <2>5. QED
    BY <2>3, <2>4 DEF ChainedAt
<1>8. Original(lh, rx, t, k) = Original(lg, rw, t, k)
  <2>1. PICK j \in Places(lh, t, k) : /\ \A m \in Places(lh, t, k) : j <= m
                                      /\ Original(lh, rx, t, k) = lh[j].before
    <3>1. n \in Places(lh, t, k)
      BY <1>5
    <3>2. QED
      BY <1>0, <3>1, OriginalIs
  <2>2. CASE Places(lg, t, k) = {}
    <3>1. j = n /\ Original(lg, rw, t, k) = rw[t][k]
      BY <1>5, <2>2 DEF Original
    <3>2. QED
      BY <1>1, <1>3, <2>1, <3>1
  <2>3. CASE Places(lg, t, k) # {}
    <3>1. PICK i \in Places(lg, t, k) : /\ \A m \in Places(lg, t, k) : i <= m
                                        /\ Original(lg, rw, t, k) = lg[i].before
      BY <2>3, OriginalIs
    <3>2. i = j
      BY <1>0, <1>2, <1>5, <2>1, <3>1
    <3>3. QED
      BY <1>2, <2>1, <3>1, <3>2
  <2>4. QED
    BY <2>2, <2>3
<1>9. QED
  BY <1>6, <1>7, <1>8 DEF Chained, lh, t, k

\* The last change of a log can be taken back: its row is as it left it.
LEMMA LastStands ==
  ASSUME NEW lg \in Seq(Change), NEW rw, Chained(lg, rw), Len(lg) > 0,
         NEW c \in Change, c = lg[Len(lg)]
  PROVE  rw[c.table][c.key] = c.after
<1>1. /\ Len(lg) \in Places(lg, c.table, c.key)
      /\ \A j \in Places(lg, c.table, c.key) : j <= Len(lg)
  BY PlacesAreNumbers DEF Places
<1>2. ChainedAt(lg, rw, c.table, c.key)
  BY DEF Chained, Change
<1>3. QED
  BY <1>1, <1>2 DEF ChainedAt

\* Taking it back keeps the chain, and what the rows were.
LEMMA RevertChains ==
  ASSUME NEW lg \in Seq(Change), NEW rw, NEW rx, Chained(lg, rw),
         Len(lg) > 0, NEW c \in Change, c = lg[Len(lg)],
         OneRow(rw, rx, c.table, c.key, c.before)
  PROVE  /\ Chained(SubSeq(lg, 1, Len(lg) - 1), rx)
         /\ \A u \in Table, l \in Key :
              Original(SubSeq(lg, 1, Len(lg) - 1), rx, u, l) = Original(lg, rw, u, l)
<1> DEFINE lh == SubSeq(lg, 1, Len(lg) - 1)
           n == Len(lg)
           t == c.table
           k == c.key
<1>0. lh \in Seq(Change) /\ n \in Nat
  BY PlacesOfFront
<1>1. /\ t \in Table /\ k \in Key /\ rx[t][k] = c.before
      /\ \A u \in Table, l \in Key : ~(u = t /\ l = k) => rx[u][l] = rw[u][l]
  BY DEF OneRow, Change
<1>2. \A u, l : /\ Places(lg, u, l) \subseteq 1..n
                /\ Places(lh, u, l) = Places(lg, u, l) \ {n}
                /\ \A i \in Places(lg, u, l) \ {n} : lh[i] = lg[i]
  BY PlacesAreNumbers, PlacesOfFront
<1>3. n \in Places(lg, t, k) /\ lg[n] = c
  BY DEF Places
<1>4. \A u, l : ~(u = t /\ l = k) => n \notin Places(lg, u, l)
  BY <1>3 DEF Places
<1> HIDE DEF lh, n, t, k
<1>5. ASSUME NEW u \in Table, NEW l \in Key, ~(u = t /\ l = k)
      PROVE  ChainedAt(lh, rx, u, l) /\ Original(lh, rx, u, l) = Original(lg, rw, u, l)
  <2>1. rx[u][l] = rw[u][l]
    BY <1>1, <1>5
  <2>2. n \notin Places(lg, u, l)
    BY <1>4, <1>5
  <2>3. Places(lh, u, l) = Places(lg, u, l)
    <3>1. Places(lh, u, l) = Places(lg, u, l) \ {n}
      BY <1>2
    <3>2. QED
      BY <2>2, <3>1
  <2>4. \A i \in Places(lg, u, l) : lh[i] = lg[i]
    BY <1>2, <2>2
  <2>5. QED
    BY <1>0, <2>1, <2>3, <2>4, SameChain
<1>6. ChainedAt(lh, rx, t, k)
  <2>1. ChainedAt(lg, rw, t, k)
    BY <1>1 DEF Chained
  <2>2. /\ n \in Nat /\ \A i \in Places(lg, t, k) : i \in Nat /\ i <= n
        /\ \A i \in Places(lh, t, k) : i \in Places(lg, t, k) /\ i < n /\ lh[i] = lg[i]
        /\ \A i \in Places(lg, t, k) : i = n \/ i \in Places(lh, t, k)
    BY <1>0, <1>2
  <2>3. ASSUME NEW i \in Places(lh, t, k), \A j \in Places(lh, t, k) : j <= i
        PROVE  rx[t][k] = lh[i].after
    <3>1. \A l \in Places(lg, t, k) : l <= i \/ n <= l
      BY <2>2, <2>3
    <3>2. lg[n].before = lg[i].after
      BY <1>3, <2>1, <2>2, <3>1 DEF ChainedAt
    <3>3. QED
      BY <1>1, <1>3, <2>2, <3>2
  <2>4. ASSUME NEW i \in Places(lh, t, k), NEW j \in Places(lh, t, k),
               i < j, \A l \in Places(lh, t, k) : l <= i \/ j <= l
        PROVE  lh[j].before = lh[i].after
    <3>1. \A l \in Places(lg, t, k) : l <= i \/ j <= l
      BY <2>2, <2>4
    <3>2. QED
      BY <2>1, <2>2, <2>4, <3>1 DEF ChainedAt
  <2>5. QED
    BY <2>3, <2>4 DEF ChainedAt
<1>7. Original(lh, rx, t, k) = Original(lg, rw, t, k)
  <2>1. PICK j \in Places(lg, t, k) : /\ \A m \in Places(lg, t, k) : j <= m
                                      /\ Original(lg, rw, t, k) = lg[j].before
    BY <1>3, OriginalIs
  <2>2. CASE Places(lh, t, k) = {}
    <3>1. j = n /\ Original(lh, rx, t, k) = rx[t][k]
      BY <1>2, <2>2 DEF Original
    <3>2. QED
      BY <1>1, <1>3, <2>1, <3>1
  <2>3. CASE Places(lh, t, k) # {}
    <3>1. PICK i \in Places(lh, t, k) : /\ \A m \in Places(lh, t, k) : i <= m
                                        /\ Original(lh, rx, t, k) = lh[i].before
      BY <1>0, <2>3, OriginalIs
    <3>2. i \in 1..n /\ j \in 1..n /\ i # n /\ i \in Places(lg, t, k) /\ lh[i] = lg[i]
      BY <1>2
    <3>3. i = j
      BY <1>0, <1>2, <2>1, <3>1, <3>2
    <3>4. QED
      BY <2>1, <3>1, <3>2, <3>3
  <2>4. QED
    BY <2>2, <2>3
<1>8. QED
  BY <1>5, <1>6, <1>7 DEF Chained, lh, t, k

-----------------------------------------------------------------------------
(* What a step does to the rows and to the log of its session.              *)

Steps(s) == Ask(s) \/ Step(s) \/ ChangeRow(s)

LEMMA StepsOnLogs ==
  ASSUME NEW s \in Session, Steps(s)
  PROVE  \/ ChangeRow(s) \/ Revert(s)
         \/ \E state \in {"committed", "aborted"} : End(s, state)
         \/ UNCHANGED <<rows, log>>
<1>1. CASE Ask(s)
  BY <1>1 DEF Ask, Begin, Commit, Rollback, Start
<1>2. CASE Step(s)
  BY <1>2 DEF Step, Lock, LockFails, Run, Succeed, Fail, FailInspect, OpenForUndo,
     Reverted, UndoFails, OpenForFlush, Flush, Confirmed, ConfirmFails
<1>3. QED
  BY <1>1, <1>2 DEF Steps

LEMMA ChangeRowIs ==
  ASSUME TypeOK, NEW s \in Session, Discipline(s), ChangeRow(s)
  PROVE  \E c \in Change :
           /\ log'[s] = Append(log[s], c)
           /\ c.before = rows[c.table][c.key]
           /\ OneRow(rows, rows', c.table, c.key, c.after)
           /\ \A t \in Table \ {c.table} : rows'[t] = rows[t]
           /\ held[c.table][s] = "exclusive"
<1>1. PICK t \in call[s].tables, k \in Key, v \in Value \cup {Absent} :
        /\ rows' = [rows EXCEPT ![t][k] = v]
        /\ log' = [log EXCEPT ![s] = Append(@,
             [table |-> t, key |-> k, before |-> rows[t][k], after |-> v])]
  BY DEF ChangeRow
<1>2. t \in Table /\ rows[t] \in Content /\ held[t][s] = "exclusive"
  BY DEF TypeOK, Call, ChangeRow, Discipline
<1> DEFINE c == [table |-> t, key |-> k, before |-> rows[t][k], after |-> v]
<1>3. c \in Change /\ c.table = t /\ c.key = k /\ c.before = rows[t][k] /\ c.after = v
  BY <1>2 DEF Change, Content
<1>4. log'[s] = Append(log[s], c)
  BY <1>1 DEF TypeOK
<1> HIDE DEF c
<1>5. rows'[t] = [rows[t] EXCEPT ![k] = v] /\ \A u \in Table \ {t} : rows'[u] = rows[u]
  BY <1>1, <1>2 DEF TypeOK
<1>6. OneRow(rows, rows', t, k, v)
  BY <1>2, <1>5 DEF OneRow, Content
<1>7. QED
  BY <1>2, <1>3, <1>4, <1>5, <1>6

LEMMA RevertIs ==
  ASSUME TypeOK, NEW s \in Session, Chained(log[s], rows), Revert(s)
  PROVE  \E c \in Change :
           /\ Len(log[s]) > 0 /\ c = log[s][Len(log[s])]
           /\ log'[s] = SubSeq(log[s], 1, Len(log[s]) - 1)
           /\ OneRow(rows, rows', c.table, c.key, c.before)
           /\ \A t \in Table \ {c.table} : rows'[t] = rows[t]
<1>1. /\ log[s] \in Seq(Change) /\ Len(log[s]) \in Nat /\ Len(log[s]) > 0
      /\ log'[s] = SubSeq(log[s], 1, Len(log[s]) - 1)
  BY DEF Revert, TypeOK, Call
<1>2. PICK c \in Change : c = log[s][Len(log[s])] /\ c = LastChange(s)
  BY <1>1 DEF LastChange
<1>3. RowNow(c) = c.after
  BY <1>1, <1>2, LastStands DEF RowNow
<1>4. rows' = [rows EXCEPT ![c.table][c.key] = c.before]
  BY <1>2, <1>3 DEF Revert
<1>5. c.table \in Table /\ c.key \in Key /\ rows[c.table] \in Content
  BY DEF Change, TypeOK
<1>6. /\ rows'[c.table] = [rows[c.table] EXCEPT ![c.key] = c.before]
      /\ \A t \in Table \ {c.table} : rows'[t] = rows[t]
  BY <1>4, <1>5 DEF TypeOK
<1>7. OneRow(rows, rows', c.table, c.key, c.before)
  BY <1>5, <1>6 DEF OneRow, Content
<1>8. QED
  BY <1>1, <1>2, <1>6, <1>7

LEMMA TouchedAre ==
  ASSUME NEW s \in Session, log[s] \in Seq(Change), NEW t
  PROVE  t \in Touched(s) <=> \E k \in Key : Places(log[s], t, k) # {}
<1>1. \A i \in DOMAIN log[s] : log[s][i] \in Change
  OBVIOUS
<1>2. \A i \in DOMAIN log[s] : log[s][i].key \in Key
  BY <1>1 DEF Change
<1>3. QED
  BY <1>2 DEF Touched, Places

LEMMA TouchedAreNext ==
  ASSUME NEW s \in Session, log'[s] \in Seq(Change), NEW t
  PROVE  t \in Touched(s)' <=> \E k \in Key : Places(log'[s], t, k) # {}
<1>1. \A i \in DOMAIN log'[s] : log'[s][i] \in Change
  OBVIOUS
<1>2. \A i \in DOMAIN log'[s] : log'[s][i].key \in Key
  BY <1>1 DEF Change
<1>3. QED
  BY <1>2 DEF Touched, Places

LEMMA TouchedStays ==
  ASSUME NEW s \in Session, log[s] \in Seq(Change), log'[s] \in Seq(Change), NEW t,
         \A k \in Key : Places(log'[s], t, k) = Places(log[s], t, k)
  PROVE  t \in Touched(s)' <=> t \in Touched(s)
<1>1. t \in Touched(s) <=> \E k \in Key : Places(log[s], t, k) # {}
  BY TouchedAre
<1>2. t \in Touched(s)' <=> \E k \in Key : Places(log'[s], t, k) # {}
  BY TouchedAreNext
<1>3. QED
  BY <1>1, <1>2

LEMMA EndOnLogs ==
  ASSUME TypeOK, NEW s \in Session, NEW state, End(s, state)
  PROVE  rows' = rows /\ log'[s] = <<>> /\ \A t, k : Places(log'[s], t, k) = {}
<1>1. rows' = rows /\ log'[s] = <<>>
  BY DEF End, TypeOK
<1>2. DOMAIN <<>> = {}
  OBVIOUS
<1>3. QED
  BY <1>1, <1>2 DEF Places

\* A table that a transaction has changed is changed by nobody else.
LEMMA OthersKeepRows ==
  ASSUME TypeOK, Exclusive, NEW u \in Session, Steps(u), Discipline(u),
         NEW s \in Session \ {u}, Discipline(s), NEW t \in Touched(s)
  PROVE  rows'[t] = rows[t] /\ log'[s] = log[s]
<1>1. held[t][s] = "exclusive" /\ t \in Table
  BY TouchedAreTables DEF Discipline
<1>2. held[t][u] = "none"
  BY <1>1 DEF Exclusive
<1>3. QED
  BY <1>1, <1>2, RowsChangeUnderLock, OthersAreUntouched DEF Untouched, Steps

-----------------------------------------------------------------------------
\* Every log can be taken back, and says what the rows were when it began.
Recorded == \A s \in Session : Chained(log[s], rows)

LEMMA StepRecords ==
  ASSUME Isolated, Recorded, NEW u \in Session, Steps(u), NEW s \in Session
  PROVE  /\ Chained(log'[s], rows')
         /\ \/ s = u /\ \E state \in {"committed", "aborted"} : End(s, state)
            \/ \A t \in Table, k \in Key : s = u \/ t \in Touched(s) =>
                 Original(log'[s], rows', t, k) = Original(log[s], rows, t, k)
<1>0. /\ TypeOK /\ Exclusive /\ Discipline(u) /\ Discipline(s)
      /\ log[s] \in Seq(Change) /\ log[u] \in Seq(Change) /\ Chained(log[s], rows)
      /\ Touched(s) \subseteq Table
  BY TouchedAreTables DEF Isolated, TypeOK, Recorded
<1>1. CASE s # u
  <2>1. \A t \in Touched(s) : rows'[t] = rows[t]
    BY <1>0, <1>1, OthersKeepRows
  <2>2. log'[s] = log[s]
    BY <1>0, <1>1, OthersAreUntouched DEF Untouched, Steps
  <2>3. ASSUME NEW t \in Table, NEW k \in Key PROVE ChainedAt(log[s], rows', t, k)
    <3>1. CASE t \in Touched(s)
      BY <1>0, <2>1, <3>1, SameChain
    <3>2. CASE t \notin Touched(s)
      BY <1>0, <3>2, TouchedAre DEF ChainedAt
    <3>3. QED
      BY <3>1, <3>2
  <2>4. ASSUME NEW t \in Touched(s), NEW k \in Key
        PROVE  Original(log[s], rows', t, k) = Original(log[s], rows, t, k)
    BY <1>0, <2>1, SameChain
  <2>5. Chained(log'[s], rows')
    BY <2>2, <2>3 DEF Chained
  <2>6. \A t \in Table, k \in Key : s = u \/ t \in Touched(s) =>
          Original(log'[s], rows', t, k) = Original(log[s], rows, t, k)
    BY <1>1, <2>2, <2>4
  <2>7. QED
    BY <2>5, <2>6
<1>2. CASE s = u /\ ChangeRow(s)
  <2>1. PICK c \in Change :
           /\ log'[s] = Append(log[s], c)
           /\ c.before = rows[c.table][c.key]
           /\ OneRow(rows, rows', c.table, c.key, c.after)
    BY <1>0, <1>2, ChangeRowIs
  <2>2. /\ Chained(Append(log[s], c), rows')
        /\ \A t \in Table, k \in Key :
             Original(Append(log[s], c), rows', t, k) = Original(log[s], rows, t, k)
    BY <1>0, <2>1, AppendChains
  <2>3. QED
    BY <1>0, <2>1, <2>2
<1>3. CASE s = u /\ Revert(s)
  <2>1. PICK c \in Change :
           /\ Len(log[s]) > 0 /\ c = log[s][Len(log[s])]
           /\ log'[s] = SubSeq(log[s], 1, Len(log[s]) - 1)
           /\ OneRow(rows, rows', c.table, c.key, c.before)
    BY <1>0, <1>3, RevertIs
  <2>2. /\ Chained(SubSeq(log[s], 1, Len(log[s]) - 1), rows')
        /\ \A t \in Table, k \in Key :
             Original(SubSeq(log[s], 1, Len(log[s]) - 1), rows', t, k) = Original(log[s], rows, t, k)
    BY <1>0, <2>1, RevertChains
  <2>3. QED
    BY <1>0, <2>1, <2>2
<1>4. CASE s = u /\ \E state \in {"committed", "aborted"} : End(s, state)
  <2>1. \A t, k : Places(log'[s], t, k) = {}
    BY <1>0, <1>4, EndOnLogs
  <2>2. QED
    BY <1>4, <2>1 DEF Chained, ChainedAt
<1>5. CASE UNCHANGED <<rows, log>>
  BY <1>0, <1>5
<1>6. QED
  BY <1>1, <1>2, <1>3, <1>4, <1>5, StepsOnLogs

LEMMA AlwaysRecorded == Spec => []Recorded
<1>1. Init => Recorded
  <2> SUFFICES ASSUME Init, NEW s \in Session, NEW t \in Table, NEW k \in Key
               PROVE  ChainedAt(log[s], rows, t, k)
    BY DEF Recorded, Chained
  <2>1. log[s] = <<>> /\ DOMAIN <<>> = {}
    BY DEF Init
  <2>2. QED
    BY <2>1 DEF ChainedAt, Places
<1>2. Isolated /\ Recorded /\ [Next]_vars => Recorded'
  <2> SUFFICES ASSUME Isolated, Recorded, [Next]_vars, NEW s \in Session
               PROVE  Chained(log'[s], rows')
    BY DEF Recorded
  <2>1. CASE Evict \/ UNCHANGED vars
    BY <2>1 DEF Evict, vars, Recorded
  <2>2. ASSUME NEW u \in Session, Steps(u) PROVE Chained(log'[s], rows')
    BY <2>2, StepRecords
  <2>3. QED
    BY <2>1, <2>2 DEF Next, Steps
<1>3. QED
  BY <1>1, <1>2, SessionsAreIsolated, PTL DEF Spec

\* The log of a transaction can take everything back, whatever failed: each row stands as the
\* last change to it left it, and each change began where the one before it on the row ended.
THEOREM LogsMatchRows == Spec => []LogMatchesRows
<1>1. Isolated /\ Recorded => LogMatchesRows
  <2> SUFFICES ASSUME Isolated, Recorded, NEW s \in Session, NEW i \in DOMAIN log[s]
               PROVE  LET c == log[s][i]
                          later == {j \in i+1..Len(log[s]) :
                                      log[s][j].table = c.table /\ log[s][j].key = c.key}
                      IN IF later = {} THEN RowNow(c) = c.after
                         ELSE log[s][CHOOSE j \in later : \A l \in later : j <= l].before = c.after
    BY DEF LogMatchesRows
  <2> DEFINE c == log[s][i]
             p == Places(log[s], c.table, c.key)
             later == {j \in i+1..Len(log[s]) : log[s][j].table = c.table /\ log[s][j].key = c.key}
  <2>1. /\ log[s] \in Seq(Change) /\ DOMAIN log[s] = 1..Len(log[s]) /\ Len(log[s]) \in Nat
        /\ i \in Nat /\ i >= 1 /\ c \in Change
    BY DEF Isolated, TypeOK
  <2>2. later = {j \in p : i < j} /\ p \subseteq Nat /\ i \in p
    BY <2>1 DEF Places
  <2>3. ChainedAt(log[s], rows, c.table, c.key)
    BY <2>1 DEF Recorded, Chained, Change
  <2> HIDE DEF c, p, later
  <2>4. CASE later = {}
    <3>1. \A j \in p : j <= i
      BY <2>2, <2>4
    <3>2. rows[c.table][c.key] = c.after
      BY <2>2, <2>3, <3>1 DEF ChainedAt, p, c
    <3>3. QED
      BY <2>4, <3>2 DEF RowNow, c, later
  <2>5. CASE later # {}
    <3>1. \E j \in later : \A l \in later : j <= l
      BY <2>2, <2>5, HasLeast
    <3>2. PICK j \in later : /\ \A l \in later : j <= l
                             /\ j = CHOOSE m \in later : \A l \in later : m <= l
      BY <3>1
    <3>3. j \in p /\ i < j /\ \A l \in p : l <= i \/ j <= l
      BY <2>2, <3>2
    <3>4. log[s][j].before = c.after
      BY <2>2, <2>3, <3>3 DEF ChainedAt, p, c
    <3>5. QED
      BY <2>5, <3>2, <3>4 DEF c, later
  <2>6. QED
    BY <2>4, <2>5
<1>2. QED
  BY <1>1, SessionsAreIsolated, AlwaysRecorded, PTL

-----------------------------------------------------------------------------
(* The committed content of the tables.                                     *)

\* A table has one writer, and its log says what is committed of it.
Writer(s, t) == \A u \in Session \ {s} : t \notin Touched(u)

Tells ==
  /\ CommittedContent \in [Table -> Content]
  /\ \A t \in Table, k \in Key, s \in Session :
       Writer(s, t) => CommittedContent[t][k] = Original(log[s], rows, t, k)
  /\ \A t \in Table, k \in Key :
       (\A s \in Session : t \notin Touched(s)) => CommittedContent[t][k] = rows[t][k]

LEMMA CommittedTells == Isolated => Tells
<1> SUFFICES ASSUME Isolated PROVE Tells
  OBVIOUS
<1>0. /\ \A s \in Session : log[s] \in Seq(Change)
      /\ rows \in [Table -> Content]
  BY DEF Isolated, TypeOK
<1>1. ASSUME NEW t \in Table, NEW k \in Key
      PROVE  /\ Changers(t, k) = {s \in Session : Places(log[s], t, k) # {}}
             /\ Changers(t, k) = {} => CommittedContent[t][k] = rows[t][k]
             /\ \A s \in Session : Changers(t, k) = {s} =>
                  CommittedContent[t][k] = Original(log[s], rows, t, k)
  <2>1. Changers(t, k) = {s \in Session : Places(log[s], t, k) # {}}
    BY DEF Changers, Places
  <2>2. CommittedContent[t][k] =
          IF Changers(t, k) = {} THEN rows[t][k]
          ELSE FirstChangeTo(CHOOSE s \in Changers(t, k) : TRUE, t, k).before
    BY DEF CommittedContent
  <2>3. ASSUME NEW s \in Session, Changers(t, k) = {s}
        PROVE  CommittedContent[t][k] = Original(log[s], rows, t, k)
    <3>1. (CHOOSE u \in Changers(t, k) : TRUE) = s
      BY <2>3
    <3>2. CommittedContent[t][k] = FirstChangeTo(s, t, k).before
      BY <2>2, <2>3, <3>1
    <3>3. Places(log[s], t, k) # {}
      BY <2>1, <2>3
    <3>4. QED
      BY <3>2, <3>3 DEF FirstChangeTo, Original, Places
  <2>4. QED
    BY <2>1, <2>2, <2>3
<1>2. ASSUME NEW t \in Table, NEW k \in Key, NEW s \in Session, Writer(s, t)
      PROVE  CommittedContent[t][k] = Original(log[s], rows, t, k)
  <2>1. \A u \in Session \ {s} : Places(log[u], t, k) = {}
    BY <1>0, <1>2, TouchedAre DEF Writer
  <2>2. CASE Places(log[s], t, k) = {}
    <3>1. Changers(t, k) = {}
      BY <1>1, <2>1, <2>2
    <3>2. QED
      BY <1>1, <2>2, <3>1 DEF Original
  <2>3. CASE Places(log[s], t, k) # {}
    <3>1. Changers(t, k) = {u \in Session : Places(log[u], t, k) # {}}
      BY <1>1
    <3>2. \A u \in Session : Places(log[u], t, k) # {} <=> u = s
      BY <2>1, <2>3
    <3>3. Changers(t, k) = {s}
      BY <3>1, <3>2
    <3>4. QED
      BY <1>1, <3>3
  <2>4. QED
    BY <2>2, <2>3
<1>3. ASSUME NEW t \in Table, NEW k \in Key, \A s \in Session : t \notin Touched(s)
      PROVE  CommittedContent[t][k] = rows[t][k]
  <2>1. \A s \in Session : Places(log[s], t, k) = {}
    BY <1>0, <1>3, TouchedAre
  <2>2. QED
    BY <1>1, <2>1
<1>4. ASSUME NEW t \in Table, NEW k \in Key
      PROVE  CommittedContent[t][k] \in Value \cup {Absent}
  <2>1. rows[t][k] \in Value \cup {Absent}
    BY <1>0 DEF Content
  <2>2. ASSUME NEW s \in Session, Writer(s, t) PROVE CommittedContent[t][k] \in Value \cup {Absent}
    <3>1. CASE Places(log[s], t, k) = {}
      BY <1>2, <2>1, <2>2, <3>1 DEF Original
    <3>2. CASE Places(log[s], t, k) # {}
      <4>1. PICK i \in Places(log[s], t, k) : Original(log[s], rows, t, k) = log[s][i].before
        BY <1>0, <3>2, OriginalIs
      <4>2. log[s][i] \in Change
        BY <1>0 DEF Places
      <4>3. QED
        BY <1>2, <2>2, <4>1, <4>2 DEF Change
    <3>3. QED
      BY <3>1, <3>2
  <2>3. (\E s \in Session : Writer(s, t)) \/ \A s \in Session : t \notin Touched(s)
    BY TouchedAreTables DEF Isolated, Exclusive, Discipline, Writer
  <2>4. QED
    BY <1>3, <2>1, <2>2, <2>3
<1>5. CommittedContent \in [Table -> Content]
  BY <1>4 DEF CommittedContent, Content
<1>6. QED
  BY <1>2, <1>3, <1>5 DEF Tells

LEMMA CommittedTellsNext == Isolated' => Tells'
BY CommittedTells, PTL

\* Who has changed a table is its writer.
LEMMA OneWriter ==
  ASSUME Isolated, NEW s \in Session, NEW t \in Touched(s)
  PROVE  Writer(s, t)
BY TouchedAreTables DEF Isolated, Exclusive, Discipline, Writer

\* A table has a writer before and after each step: who changed it, or else who takes the step.
LEMMA WriterStays ==
  ASSUME Isolated, Isolated', NEW u \in Session, Steps(u), NEW t \in Table
  PROVE  \E s \in Session : Writer(s, t) /\ Writer(s, t)' /\ (s = u \/ t \in Touched(s))
<1>1. \A s \in Session \ {u} : Touched(s)' = Touched(s)
  BY OthersAreUntouched DEF Isolated, Untouched, Touched, Steps
<1>2. CASE \E s \in Session \ {u} : t \in Touched(s)
  <2>1. PICK s \in Session \ {u} : t \in Touched(s)
    BY <1>2
  <2>2. t \in Touched(s)'
    BY <1>1, <2>1
  <2>3. Writer(s, t) /\ Writer(s, t)'
    <3>1. Writer(s, t)
      BY <2>1, OneWriter
    <3>2. \A v \in Session \ {s} : t \notin Touched(v)'
      BY <2>1, <2>2, TouchedAreTables DEF Isolated, Exclusive, Discipline
    <3>3. QED
      BY <3>1, <3>2 DEF Writer
  <2>4. QED
    BY <2>1, <2>3
<1>3. CASE \A s \in Session \ {u} : t \notin Touched(s)
  BY <1>1, <1>3 DEF Writer
<1>4. QED
  BY <1>2, <1>3

\* A step changes what is committed only when it ends a transaction: then it is what that
\* transaction left in the tables it changed.
LEMMA CommittedMoves ==
  ASSUME Isolated, Isolated', Recorded, NEW u \in Session, Steps(u)
  PROVE  IF \E state \in {"committed", "aborted"} : End(u, state)
         THEN \A t \in Table : CommittedContent'[t] =
                IF t \in Touched(u) THEN rows[t] ELSE CommittedContent[t]
         ELSE CommittedContent' = CommittedContent
<1>0. /\ Tells /\ Tells' /\ TypeOK /\ \A s \in Session : log[s] \in Seq(Change)
      /\ \A f, g \in [Table -> Content] :
           (\A t \in Table, k \in Key : f[t][k] = g[t][k]) => f = g
      /\ rows \in [Table -> Content]
  BY CommittedTells, CommittedTellsNext DEF Isolated, TypeOK, Content
<1>1. CASE ~\E state \in {"committed", "aborted"} : End(u, state)
  <2>1. ASSUME NEW t \in Table, NEW k \in Key
        PROVE  CommittedContent'[t][k] = CommittedContent[t][k]
    <3>1. PICK s \in Session : Writer(s, t) /\ Writer(s, t)' /\ (s = u \/ t \in Touched(s))
      BY WriterStays
    <3>2. Original(log'[s], rows', t, k) = Original(log[s], rows, t, k)
      BY <1>1, <3>1, StepRecords
    <3>3. QED
      BY <1>0, <3>1, <3>2 DEF Tells
  <2>2. QED
    BY <1>0, <1>1, <2>1 DEF Tells
<1>2. CASE \E state \in {"committed", "aborted"} : End(u, state)
  <2>1. rows' = rows /\ log'[u] = <<>> /\ \A t, k : Places(log'[u], t, k) = {}
    BY <1>0, <1>2, EndOnLogs
  <2>2. ASSUME NEW t \in Table, NEW k \in Key
        PROVE  CommittedContent'[t][k] = IF t \in Touched(u) THEN rows[t][k] ELSE CommittedContent[t][k]
    <3>1. PICK s \in Session : Writer(s, t) /\ Writer(s, t)' /\ (s = u \/ t \in Touched(s))
      BY WriterStays
    <3>2. CommittedContent[t][k] = Original(log[s], rows, t, k)
      BY <1>0, <3>1 DEF Tells
    <3>3. CommittedContent'[t][k] = Original(log'[s], rows, t, k)
      BY <1>0, <2>1, <3>1 DEF Tells
    <3>4. CASE s = u
      <4>1. CommittedContent'[t][k] = rows[t][k]
        BY <2>1, <3>3, <3>4 DEF Original
      <4>2. t \notin Touched(u) => Original(log[u], rows, t, k) = rows[t][k]
        BY <1>0, TouchedAre DEF Original
      <4>3. QED
        BY <3>2, <3>4, <4>1, <4>2
    <3>5. CASE s # u
      <4>1. t \notin Touched(u)
        BY <3>1, <3>5 DEF Writer
      <4>2. log'[s] = log[s]
        BY <1>0, <3>5, OthersAreUntouched DEF Untouched, Steps
      <4>3. QED
        BY <3>2, <3>3, <4>1, <4>2
    <3>6. QED
      BY <3>4, <3>5
  <2>3. ASSUME NEW t \in Table
        PROVE  CommittedContent'[t] = IF t \in Touched(u) THEN rows[t] ELSE CommittedContent[t]
    <3>1. rows[t] \in Content /\ CommittedContent[t] \in Content /\ CommittedContent'[t] \in Content
      BY <1>0 DEF Tells
    <3>2. CASE t \in Touched(u)
      BY <2>2, <3>1, <3>2 DEF Content
    <3>3. CASE t \notin Touched(u)
      BY <2>2, <3>1, <3>3 DEF Content
    <3>4. QED
      BY <3>2, <3>3
  <2>4. QED
    BY <1>2, <2>3
<1>3. QED
  BY <1>1, <1>2

-----------------------------------------------------------------------------
(* How transactions end.                                                    *)

\* An undo of everything goes back to the beginning of the log.
UndoesAll(s) ==
  pc[s] \in {"opening", "reverting"} /\ call[s].goal = "everything" => call[s].first = 0

LEMMA StepUndoesAll ==
  ASSUME TypeOK, NEW s \in Session, UndoesAll(s), Steps(s)
  PROVE  UndoesAll(s)'
<1> USE DEF GoTo, TypeOK, UndoesAll
<1>0. NoCall.first = 0
  BY DEF NoCall
<1>1. ASSUME NEW goal \in {"statement", "everything"}, StartUndo(s, goal) PROVE UndoesAll(s)'
  <2>1. CASE goal = "everything"
    BY <1>0, <1>1, <2>1 DEF StartUndo
  <2>2. CASE goal = "statement"
    <3>1. [NoCall EXCEPT !.first = call[s].first, !.goal = goal].goal = goal
      BY DEF NoCall
    <3>2. QED
      BY <1>1, <2>2, <3>1 DEF StartUndo
  <2>3. QED
    BY <2>1, <2>2
<1>2. ASSUME NEW state, End(s, state) PROVE UndoesAll(s)'
  BY <1>2 DEF End
<1>3. CASE Ask(s)
  BY <1>1, <1>3 DEF Ask, Begin, Commit, Rollback, Start
<1>4. CASE Lock(s) \/ Run(s) \/ ChangeRow(s)
  BY <1>4 DEF Lock, MustLock, Run, ChangeRow
<1>5. CASE LockFails(s) \/ Fail(s) \/ ConfirmFails(s)
  BY <1>1, <1>5 DEF LockFails, Fail, ConfirmFails
<1>6. CASE Succeed(s) \/ FailInspect(s)
  BY <1>2, <1>6 DEF Succeed, FailInspect
<1>7. CASE OpenForUndo(s) \/ Revert(s) \/ Reverted(s)
  BY <1>2, <1>7 DEF OpenForUndo, Revert, Reverted
<1>8. CASE UndoFails(s)
  BY <1>1, <1>2, <1>8 DEF UndoFails
<1>9. CASE OpenForFlush(s) \/ Flush(s) \/ Confirmed(s)
  BY <1>2, <1>9 DEF OpenForFlush, Flush, Confirmed
<1>10. QED
  BY <1>3, <1>4, <1>5, <1>6, <1>7, <1>8, <1>9 DEF Steps, Step

\* A transaction is confirmed with all it changed flushed, or else ends with nothing in its log,
\* unless an undo could not go on.
LEMMA HowItEnds ==
  ASSUME TypeOK, NEW s \in Session, Discipline(s), UndoesAll(s), Steps(s)
  PROVE  \/ ChangeRow(s) \/ Revert(s)
         \/ Confirmed(s) /\ End(s, "committed")
         \/ End(s, "committed") /\ log[s] = <<>> /\ status[s] = "active"
         \/ End(s, "aborted") /\ log[s] = <<>> /\ status[s] = "active"
         \/ UndoFails(s) /\ End(s, "aborted") /\ status[s] = "active"
         \/ /\ UNCHANGED <<rows, log>>
            /\ UNCHANGED status \/ (status[s] # "active" /\ status' = [status EXCEPT ![s] = "active"])
<1>0. /\ status \in [Session -> {"active", "committed", "aborted"}]
      /\ pc[s] # "idle" \/ explicit[s] => status[s] = "active"
      /\ ~explicit[s] /\ pc[s] = "idle" => status[s] # "active"
      /\ log[s] \in Seq(Change)
  BY DEF TypeOK
<1>1. CASE Ask(s)
  BY <1>0, <1>1 DEF Ask, Begin, Commit, Rollback, Start, txnVars
<1>2. CASE Lock(s) \/ LockFails(s) \/ Run(s)
  BY <1>2 DEF Lock, LockFails, Run, txnVars
<1>3. CASE Succeed(s) \/ FailInspect(s)
  BY <1>0, <1>3 DEF Succeed, FailInspect, StatementFails, txnVars, Discipline
<1>4. CASE Fail(s) \/ OpenForUndo(s) \/ OpenForFlush(s) \/ Flush(s) \/ ConfirmFails(s)
  BY <1>4 DEF Fail, OpenForUndo, OpenForFlush, Flush, ConfirmFails, txnVars
<1>5. CASE Reverted(s)
  <2>1. call[s].goal = "everything" => log[s] = <<>>
    BY <1>0, <1>5 DEF Reverted, UndoesAll
  <2>2. QED
    BY <1>0, <1>5, <2>1 DEF Reverted, txnVars
<1>6. CASE UndoFails(s)
  BY <1>0, <1>6 DEF UndoFails, txnVars
<1>7. CASE Confirmed(s)
  BY <1>7 DEF Confirmed
<1>8. QED
  BY <1>1, <1>2, <1>3, <1>4, <1>5, <1>6, <1>7 DEF Steps, Step

Undoable == Isolated /\ Recorded /\ \A s \in Session : UndoesAll(s)

LEMMA AlwaysUndoable == Spec => []Undoable
<1> DEFINE All == \A s \in Session : UndoesAll(s)
<1>1. Init => All
  BY DEF Init, UndoesAll
<1>2. Isolated /\ All /\ [Next]_vars => All'
  <2> SUFFICES ASSUME Isolated, \A s \in Session : UndoesAll(s), [Next]_vars, NEW s \in Session
               PROVE  UndoesAll(s)'
    OBVIOUS
  <2>1. CASE Evict \/ UNCHANGED vars
    BY <2>1 DEF Evict, vars, UndoesAll
  <2>2. ASSUME NEW u \in Session, Steps(u) PROVE UndoesAll(s)'
    BY <2>2, StepUndoesAll, OthersAreUntouched DEF Isolated, Untouched, UndoesAll, Steps
  <2>3. QED
    BY <2>1, <2>2 DEF Next, Steps
<1>3. Isolated /\ Recorded /\ All => Undoable
  BY DEF Undoable
<1> HIDE DEF All
<1>4. QED
  BY <1>1, <1>2, <1>3, SessionsAreIsolated, AlwaysRecorded, PTL DEF Spec

\* No undo stops half way: the guard is free within its time and every row can be put back.
UndoesSucceed == MayFail \cap {"undo", "busy"} = {}

LEMMA UndoesGoOn ==
  ASSUME UndoesSucceed, NEW s \in Session
  PROVE  ~UndoFails(s)
BY DEF UndoesSucceed, UndoFails, GuardTimesOut

-----------------------------------------------------------------------------
\* "ROLLBACK (y cerrar la sesion con algo abierto) deshace todo", as long as no undo fails: the
\* run busy_rollback shows what happens when one does.
THEOREM RollbackUndoes ==
  ASSUME UndoesSucceed
  PROVE  Spec => RollbackUndoesEverything
<1> DEFINE Undone(s) == status[s] = "active" /\ status'[s] = "aborted" => log[s] = <<>>
<1>1. ASSUME Undoable, [Next]_vars PROVE [\A s \in Session : Undone(s)]_vars
  <2> SUFFICES ASSUME Next, NEW s \in Session, status[s] = "active", status'[s] = "aborted"
               PROVE  log[s] = <<>>
    BY <1>1
  <2>0. /\ TypeOK /\ Discipline(s) /\ UndoesAll(s)
        /\ status \in [Session -> {"active", "committed", "aborted"}]
    BY <1>1 DEF Undoable, Isolated, TypeOK
  <2>1. Steps(s)
    BY <1>1, <2>0, OthersAreUntouched DEF Undoable, Isolated, Next, Evict, txnVars, Untouched, Steps
  <2>2. status'[s] # status[s] /\ (End(s, "committed") => status'[s] = "committed")
    BY <2>0 DEF End
  <2>3. QED
    BY <2>0, <2>1, <2>2, HowItEnds, UndoesGoOn DEF ChangeRow, Revert, txnVars
<1>2. QED
  BY <1>1, AlwaysUndoable, PTL DEF Spec, RollbackUndoesEverything

-----------------------------------------------------------------------------
(* The refinement.                                                          *)

\* Who takes a step changes its own copies only, and only of one table.
LEMMA CopiesOf ==
  ASSUME TypeOK, NEW s \in Session, NEW t \in Table
  PROVE  /\ PrivateCopies \in [Session -> [Table -> Content \cup {Absent}]]
         /\ PrivateCopies[s][t] = IF t \in Touched(s) THEN rows[t] ELSE Absent
BY DEF PrivateCopies, TypeOK

\* A change and its undo are work on a private copy.
LEMMA WorkIsWork ==
  ASSUME Undoable, Undoable', NEW s \in Session, ChangeRow(s) \/ Revert(s)
  PROVE  Store!Work(s)
<1>0. /\ TypeOK /\ TypeOK' /\ Exclusive /\ \A u \in Session : Discipline(u) /\ Chained(log[u], rows)
      /\ Steps(s) /\ log[s] \in Seq(Change) /\ log'[s] \in Seq(Change)
  BY DEF Undoable, Isolated, Recorded, Steps, Step, TypeOK
<1>1. status[s] = "active" /\ UNCHANGED status
  BY <1>0 DEF ChangeRow, Revert, TypeOK, txnVars
<1>2. CommittedContent' = CommittedContent
  <2>1. ~\E state \in {"committed", "aborted"} : End(s, state)
    BY <1>0, <1>1 DEF End, TypeOK
  <2>2. QED
    BY <1>0, <2>1, CommittedMoves DEF Undoable
<1>3. PICK t \in Table :
        /\ held[t][s] = "exclusive"
        /\ \A u \in Table \ {t} : rows'[u] = rows[u] /\ (u \in Touched(s)' <=> u \in Touched(s))
  <2>1. CASE ChangeRow(s)
    <3>1. PICK c \in Change :
            /\ log'[s] = Append(log[s], c)
            /\ \A u \in Table \ {c.table} : rows'[u] = rows[u]
            /\ held[c.table][s] = "exclusive"
      BY <1>0, <2>1, ChangeRowIs
    <3>2. \A u \in Table \ {c.table}, k \in Key : Places(log'[s], u, k) = Places(log[s], u, k)
      BY <1>0, <3>1, PlacesOfAppend
    <3>3. \A u \in Table \ {c.table} : u \in Touched(s)' <=> u \in Touched(s)
      BY <1>0, <3>2, TouchedStays
    <3>4. QED
      BY <3>1, <3>3 DEF Change
  <2>2. CASE Revert(s)
    <3>1. PICK c \in Change :
            /\ Len(log[s]) > 0 /\ c = log[s][Len(log[s])]
            /\ log'[s] = SubSeq(log[s], 1, Len(log[s]) - 1)
            /\ \A u \in Table \ {c.table} : rows'[u] = rows[u]
      BY <1>0, <2>2, RevertIs
    <3>2. \A u \in Table \ {c.table}, k \in Key : Places(log'[s], u, k) = Places(log[s], u, k)
      <4>1. ASSUME NEW u \in Table \ {c.table}, NEW k \in Key
            PROVE  Places(log'[s], u, k) = Places(log[s], u, k)
        <5>1. Places(log'[s], u, k) = Places(log[s], u, k) \ {Len(log[s])}
          BY <1>0, <3>1, PlacesOfFront
        <5>2. Len(log[s]) \notin Places(log[s], u, k)
          BY <3>1 DEF Places
        <5>3. QED
          BY <5>1, <5>2
      <4>2. QED
        BY <4>1
    <3>3. \A u \in Table \ {c.table} : u \in Touched(s)' <=> u \in Touched(s)
      BY <1>0, <3>2, TouchedStays
    <3>4. c.table \in Touched(s)
      BY <1>0, <3>1 DEF Touched
    <3>5. QED
      BY <1>0, <3>1, <3>3, <3>4 DEF Change, Discipline
  <2>3. QED
    BY <2>1, <2>2
<1>4. \A u \in Session \ {s} : t \notin Touched(u) /\ Touched(u)' = Touched(u)
  <2>1. \A u \in Session \ {s} : held[t][u] = "none"
    BY <1>0, <1>3 DEF Exclusive
  <2>2. \A u \in Session \ {s} : log'[u] = log[u]
    BY <1>0, OthersAreUntouched DEF Untouched, Steps
  <2>3. QED
    BY <1>0, <2>1, <2>2 DEF Discipline, Touched
<1> DEFINE c == IF t \in Touched(s)' THEN rows'[t] ELSE Absent
<1>5. c \in Content \cup {Absent}
  BY <1>0 DEF TypeOK
<1>6. \A u \in Session \ {s} : PrivateCopies[u][t] = Absent
  BY <1>0, <1>4, CopiesOf
<1>7. PrivateCopies' = [PrivateCopies EXCEPT ![s][t] = c]
  <2>1. /\ PrivateCopies \in [Session -> [Table -> Content \cup {Absent}]]
        /\ PrivateCopies' \in [Session -> [Table -> Content \cup {Absent}]]
    BY <1>0 DEF PrivateCopies, TypeOK
  <2>2. ASSUME NEW u \in Session, NEW w \in Table
        PROVE  PrivateCopies'[u][w] = IF u = s /\ w = t THEN c ELSE PrivateCopies[u][w]
    <3>1. /\ PrivateCopies[u][w] = IF w \in Touched(u) THEN rows[w] ELSE Absent
          /\ PrivateCopies'[u][w] = IF w \in Touched(u)' THEN rows'[w] ELSE Absent
      BY DEF PrivateCopies
    <3>2. QED
      BY <1>3, <1>4, <3>1
  <2> HIDE DEF c
  <2>3. QED
    BY <1>5, <2>1, <2>2
<1>8. QED
  BY <1>1, <1>2, <1>5, <1>6, <1>7 DEF Store!Work

\* A transaction that ends has published its copies, or had none.
LEMMA EndPublishes ==
  ASSUME Undoable, Undoable', NEW s \in Session, Steps(s),
         NEW state \in {"committed", "aborted"}, End(s, state)
  PROVE  /\ PrivateCopies' = [PrivateCopies EXCEPT ![s] = Store!NoCopies]
         /\ CommittedContent' = [t \in Table |-> IF PrivateCopies[s][t] = Absent
                                                 THEN CommittedContent[t] ELSE PrivateCopies[s][t]]
         /\ log[s] = <<>> => CommittedContent' = CommittedContent
         /\ status' = [status EXCEPT ![s] = state]
<1>0. /\ TypeOK /\ TypeOK' /\ Tells /\ Tells'
      /\ \A t \in Table : rows[t] # Absent /\ rows[t] \in Content
      /\ \A t \in Table : CommittedContent'[t] =
           IF t \in Touched(s) THEN rows[t] ELSE CommittedContent[t]
  BY CommittedTells, CommittedTellsNext, CommittedMoves, AbsentAssumption
     DEF Undoable, Isolated, TypeOK, Content
<1>1. CommittedContent' = [t \in Table |-> IF PrivateCopies[s][t] = Absent
                                           THEN CommittedContent[t] ELSE PrivateCopies[s][t]]
  <2>1. \A t \in Table : CommittedContent'[t] = IF PrivateCopies[s][t] = Absent
                                                THEN CommittedContent[t] ELSE PrivateCopies[s][t]
    BY <1>0, CopiesOf
  <2>2. QED
    BY <1>0, <2>1 DEF Tells
<1>2. log[s] = <<>> => CommittedContent' = CommittedContent
  <2>1. DOMAIN <<>> = {}
    OBVIOUS
  <2>2. log[s] = <<>> => \A t \in Table : t \notin Touched(s)
    BY <2>1 DEF Touched
  <2>3. QED
    BY <1>0, <2>2 DEF Tells
<1>3. PrivateCopies' = [PrivateCopies EXCEPT ![s] = Store!NoCopies]
  <2>1. rows' = rows /\ log'[s] = <<>> /\ DOMAIN <<>> = {}
    BY <1>0, EndOnLogs
  <2>2. Touched(s)' = {} /\ \A u \in Session \ {s} : Touched(u)' = Touched(u)
    BY <1>0, <2>1, OthersAreUntouched DEF Untouched, Steps, Touched
  <2>3. QED
    BY <2>1, <2>2 DEF PrivateCopies, Store!NoCopies
<1>4. QED
  BY <1>1, <1>2, <1>3 DEF End

\* The same rows and logs show the same store.
LEMMA SameStore ==
  ASSUME UNCHANGED <<rows, log>>
  PROVE  UNCHANGED <<CommittedContent, PrivateCopies>>
BY DEF CommittedContent, Changers, FirstChangeTo, PrivateCopies, Touched

LEMMA StepStores ==
  ASSUME UndoesSucceed, Undoable, Undoable', [Next]_vars
  PROVE  [Store!StoreNext]_Store!storeVars
<1>1. ASSUME NEW s \in Session, Steps(s) PROVE [Store!StoreNext]_Store!storeVars
  <2>0. TypeOK /\ Discipline(s) /\ UndoesAll(s)
    BY DEF Undoable, Isolated
  <2>1. CASE ChangeRow(s) \/ Revert(s)
    BY <2>1, WorkIsWork DEF Store!StoreNext
  <2>2. CASE End(s, "committed") /\ status[s] = "active"
    BY <1>1, <2>2, EndPublishes DEF Store!StoreNext, Store!Publish
  <2>3. CASE End(s, "aborted") /\ log[s] = <<>> /\ status[s] = "active"
    BY <1>1, <2>3, EndPublishes DEF Store!StoreNext, Store!Discard
  <2>4. CASE /\ UNCHANGED <<rows, log>>
             /\ \/ UNCHANGED status
                \/ status[s] # "active" /\ status' = [status EXCEPT ![s] = "active"]
    BY <2>4, SameStore DEF Store!StoreNext, Store!Open, Store!storeVars
  <2>5. Confirmed(s) => status[s] = "active"
    BY <2>0 DEF Confirmed, TypeOK
  <2>6. QED
    BY <1>1, <2>0, <2>1, <2>2, <2>3, <2>4, <2>5, HowItEnds, UndoesGoOn
<1>2. CASE Evict \/ UNCHANGED vars
  BY <1>2, SameStore DEF Evict, vars, txnVars, Store!storeVars
<1>3. QED
  BY <1>1, <1>2 DEF Next, Steps

LEMMA InitStores == ASSUME Isolated, Init PROVE Store!StoreInit
<1>1. DOMAIN <<>> = {} /\ \A s \in Session : log[s] = <<>>
  BY DEF Init
<1>2. \A s \in Session : Touched(s) = {}
  BY <1>1 DEF Touched
<1>3. PrivateCopies = [s \in Session |-> Store!NoCopies]
  BY <1>2 DEF PrivateCopies, Store!NoCopies
<1>4. CommittedContent \in [Table -> Content]
  BY CommittedTells DEF Tells
<1>5. QED
  BY <1>3, <1>4 DEF Store!StoreInit, Init

\* Transactions are atomic and isolated, as AtomicStore promises: with changes made in place, an
\* undo log and table locks, what is committed changes only when a transaction commits, all its
\* tables at once; an abort, a failed flush and a deadlock leave it as it was.
THEOREM SessionsImplementAtomicStore ==
  ASSUME UndoesSucceed
  PROVE  Spec => ImplementsAtomicStore
<1>1. Isolated /\ Init => Store!StoreInit
  BY InitStores
<1>2. Undoable /\ Undoable' /\ [Next]_vars => [Store!StoreNext]_Store!storeVars
  BY StepStores
<1>3. Undoable => Isolated
  BY DEF Undoable
<1>4. QED
  BY <1>1, <1>2, <1>3, AlwaysUndoable, PTL DEF Spec, ImplementsAtomicStore, Store!StoreSpec

-----------------------------------------------------------------------------
(* What is on disk.                                                         *)

FlushesOwn(s) == pc[s] = "flushing" => call[s].todo \subseteq Touched(s)

\* A table is on disk as it was last committed, unless its transaction is being confirmed and has
\* flushed it already.
Saved ==
  \A t \in Table :
    \/ disk[t] = CommittedContent[t]
    \/ \E s \in Session : pc[s] = "flushing" /\ t \in Touched(s) \ call[s].todo

SavedInv ==
  /\ Undoable
  /\ \A s \in Session : FlushedSoFar(s) /\ FlushesOwn(s)
  /\ Saved

LEMMA StepFlushesOwn ==
  ASSUME TypeOK, NEW s \in Session, FlushesOwn(s), Steps(s)
  PROVE  FlushesOwn(s)'
<1>1. CASE OpenForFlush(s)
  <2>1. call'[s].todo = Touched(s) /\ log' = log
    BY <1>1 DEF OpenForFlush, GoTo, TypeOK, NoCall
  <2>2. QED
    BY <2>1 DEF FlushesOwn, Touched
<1>2. CASE Flush(s)
  <2>1. call'[s].todo \subseteq call[s].todo /\ pc[s] = "flushing" /\ log' = log
    BY <1>2 DEF Flush, TypeOK, Call
  <2>2. QED
    BY <2>1 DEF FlushesOwn, Touched
<1>3. QED
  BY <1>1, <1>2, WhoFlushes DEF FlushesOwn, Steps

LEMMA FlushingEnds ==
  ASSUME TypeOK, NEW s \in Session, pc[s] = "flushing", "flush" \notin MayFail, Steps(s)
  PROVE  Flush(s) \/ Confirmed(s)
<1>1. ~Ask(s) /\ ~ChangeRow(s)
  BY DEF Ask, Begin, Commit, Rollback, Start, ChangeRow
<1>2. Step(s) => Flush(s) \/ Confirmed(s)
  BY DEF Step, Lock, LockFails, MustLock, Run, Succeed, Fail, FailInspect, StatementFails,
     OpenForUndo, Revert, Reverted, UndoFails, OpenForFlush, ConfirmFails
<1>3. QED
  BY <1>1, <1>2 DEF Steps

LEMMA StepSaves ==
  ASSUME MayFail \subseteq {"statement"}, SavedInv, Undoable', NEW u \in Session, Steps(u)
  PROVE  Saved'
<1>0. /\ TypeOK /\ Discipline(u) /\ UndoesAll(u) /\ Isolated /\ Isolated' /\ Recorded
      /\ FlushedSoFar(u) /\ FlushesOwn(u)
      /\ UndoesSucceed /\ "flush" \notin MayFail
  BY DEF SavedInv, Undoable, Isolated, UndoesSucceed
<1> SUFFICES ASSUME NEW t \in Table
             PROVE  \/ disk'[t] = CommittedContent'[t]
                    \/ \E s \in Session : pc'[s] = "flushing" /\ t \in Touched(s)' \ call'[s].todo
  BY DEF Saved
<1>1. ASSUME NEW s \in Session \ {u}, pc[s] = "flushing", t \in Touched(s) \ call[s].todo
      PROVE  pc'[s] = "flushing" /\ t \in Touched(s)' \ call'[s].todo
  BY <1>0, <1>1, OthersAreUntouched DEF Untouched, Steps, Touched
<1>2. CASE Flush(u)
  <2>1. PICK w \in call[u].todo : /\ disk' = [disk EXCEPT ![w] = rows[w]]
                                  /\ call' = [call EXCEPT ![u].todo = @ \ {w}]
    BY <1>2 DEF Flush
  <2>2. /\ pc[u] = "flushing" /\ pc' = pc /\ Touched(u)' = Touched(u)
        /\ CommittedContent' = CommittedContent
        /\ call'[u].todo = call[u].todo \ {w}
    BY <1>0, <1>2, <2>1, SameStore DEF Flush, Touched, TypeOK, Call
  <2>3. CASE t = w
    BY <1>0, <2>1, <2>2, <2>3 DEF FlushesOwn
  <2>4. CASE t # w
    <3>1. disk'[t] = disk[t]
      BY <1>0, <2>1, <2>4 DEF TypeOK
    <3>2. CASE disk[t] = CommittedContent[t]
      BY <2>2, <3>1, <3>2
    <3>3. CASE t \in Touched(u) \ call[u].todo
      BY <2>2, <3>3
    <3>4. QED
      BY <1>1, <2>2, <3>2, <3>3 DEF SavedInv, Saved
  <2>5. QED
    BY <2>3, <2>4
<1>3. CASE ~Flush(u) /\ pc[u] = "flushing" /\ t \in Touched(u) \ call[u].todo
  <2>1. Confirmed(u) /\ End(u, "committed")
    BY <1>0, <1>3, FlushingEnds DEF Confirmed
  <2>2. CommittedContent'[t] = rows[t] /\ disk'[t] = disk[t]
    BY <1>0, <1>3, <2>1, CommittedMoves DEF End
  <2>3. QED
    BY <1>0, <1>3, <2>2 DEF FlushedSoFar
<1>4. CASE ~Flush(u) /\ disk[t] = CommittedContent[t]
  <2>1. disk' = disk
    BY <1>4, DiskChanges DEF Steps
  <2>2. CASE CommittedContent'[t] = CommittedContent[t]
    BY <1>4, <2>1, <2>2
  <2>3. CASE CommittedContent'[t] # CommittedContent[t]
    <3>1. /\ \E state \in {"committed", "aborted"} : End(u, state)
          /\ t \in Touched(u) /\ CommittedContent'[t] = rows[t]
      BY <1>0, <2>3, CommittedMoves
    <3>2. log[u] # <<>> /\ ~(UNCHANGED <<rows, log>>) /\ ~ChangeRow(u) /\ ~Revert(u)
      <4>1. DOMAIN <<>> = {}
        OBVIOUS
      <4>2. log[u] # <<>>
        BY <3>1, <4>1 DEF Touched
      <4>3. log'[u] = <<>> /\ \E state \in {"committed", "aborted"} : status' = [status EXCEPT ![u] = state]
        BY <1>0, <3>1, EndOnLogs DEF End
      <4>4. ~ChangeRow(u) /\ ~Revert(u)
        <5>1. ASSUME status' = status PROVE status[u] \in {"committed", "aborted"}
          BY <1>0, <4>3, <5>1 DEF TypeOK
        <5>2. (ChangeRow(u) \/ Revert(u)) => status' = status /\ pc[u] \in {"running", "reverting"}
          BY DEF ChangeRow, Revert, txnVars
        <5>3. pc[u] \in {"running", "reverting"} => status[u] = "active"
          BY <1>0 DEF TypeOK
        <5>4. QED
          BY <5>1, <5>2, <5>3
      <4>5. QED
        BY <4>2, <4>3, <4>4
    <3>3. Confirmed(u)
      BY <1>0, <3>2, HowItEnds, UndoesGoOn
    <3>4. pc[u] = "flushing" /\ t \in Touched(u) \ call[u].todo
      BY <3>1, <3>3 DEF Confirmed
    <3>5. QED
      BY <1>0, <2>1, <3>1, <3>4 DEF FlushedSoFar
  <2>4. QED
    BY <2>2, <2>3
<1>5. QED
  BY <1>1, <1>2, <1>3, <1>4 DEF SavedInv, Saved

\* What is committed survives the end of the process, when nothing fails but statements: a table
\* nobody is changing is on disk as its readers see it. The run evicted_page shows what
\* becomes of it when the pool writes pages of its own accord.
THEOREM CommitsSurvive ==
  ASSUME MayFail \subseteq {"statement"}
  PROVE  Spec => []CommittedSurvives
<1> DEFINE AllFlushed == \A s \in Session : FlushedSoFar(s)
           AllOwn == \A s \in Session : FlushesOwn(s)
<1>1. Isolated /\ Init => AllOwn /\ Saved
  <2> SUFFICES ASSUME Isolated, Init PROVE AllOwn /\ Saved
    OBVIOUS
  <2>1. DOMAIN <<>> = {} /\ \A s \in Session : log[s] = <<>> /\ pc[s] = "idle"
    BY DEF Init
  <2>2. \A s \in Session, t \in Table : t \notin Touched(s)
    BY <2>1 DEF Touched
  <2>3. \A t \in Table : disk[t] = CommittedContent[t]
    <3>1. Tells /\ disk = rows /\ rows \in [Table -> Content]
      BY CommittedTells DEF Init
    <3>2. \A t \in Table, k \in Key : CommittedContent[t][k] = rows[t][k]
      BY <2>2, <3>1 DEF Tells
    <3>3. \A t \in Table : CommittedContent[t] \in Content /\ rows[t] \in Content
      BY <3>1 DEF Tells
    <3>4. QED
      BY <3>1, <3>2, <3>3 DEF Content
  <2>4. QED
    BY <2>1, <2>3 DEF FlushesOwn, Saved
<1>2. Undoable /\ Undoable' /\ AllFlushed /\ AllOwn /\ Saved /\ [Next]_vars => AllOwn' /\ Saved'
  <2> SUFFICES ASSUME Undoable, Undoable', AllFlushed, AllOwn, Saved, [Next]_vars
               PROVE  AllOwn' /\ Saved'
    OBVIOUS
  <2>1. CASE Evict \/ UNCHANGED vars
    <3>1. UNCHANGED <<rows, log, pc, call, disk>>
      BY <2>1 DEF Evict, vars
    <3>2. QED
      BY <3>1, SameStore DEF FlushesOwn, Saved, Touched
  <2>2. ASSUME NEW u \in Session, Steps(u) PROVE AllOwn' /\ Saved'
    <3>1. ASSUME NEW s \in Session PROVE FlushesOwn(s)'
      <4>1. CASE s = u
        BY <2>2, <4>1, StepFlushesOwn DEF Undoable, Isolated
      <4>2. CASE s # u
        BY <2>2, <4>2, OthersAreUntouched
           DEF Undoable, Isolated, Untouched, FlushesOwn, Touched, Steps
      <4>3. QED
        BY <4>1, <4>2
    <3>2. Saved'
      BY <2>2, StepSaves DEF SavedInv
    <3>3. QED
      BY <3>1, <3>2
  <2>3. QED
    BY <2>1, <2>2 DEF Next, Steps
<1>3. Undoable /\ Saved => CommittedSurvives
  <2> SUFFICES ASSUME Undoable, Saved, NEW t \in Table,
                      \A s \in Session : held[t][s] # "exclusive"
               PROVE  disk[t] = rows[t]
    BY DEF CommittedSurvives
  <2>1. \A s \in Session : t \notin Touched(s)
    BY DEF Undoable, Isolated, Discipline
  <2>2. Tells /\ rows[t] \in Content
    BY CommittedTells DEF Undoable, Isolated, TypeOK
  <2>3. CommittedContent[t] \in Content /\ \A k \in Key : CommittedContent[t][k] = rows[t][k]
    BY <2>1, <2>2 DEF Tells
  <2>4. CommittedContent[t] = rows[t]
    BY <2>2, <2>3 DEF Content
  <2>5. QED
    BY <2>1, <2>4 DEF Saved
<1>4. Undoable => Isolated
  BY DEF Undoable
<1>5. Spec => []AllFlushed
  BY FlushesStay
<1> HIDE DEF AllFlushed, AllOwn
<1>6. QED
  BY <1>1, <1>2, <1>3, <1>4, <1>5, AlwaysUndoable, PTL DEF Spec

=============================================================================
