----------------------------- MODULE WebProofs -------------------------------
(* What is proved of what the app and its server hold: of the limits, of the     *)
(* answers and of the cache; and, with what WebScreensProofs has of the screens, *)
(* of Web, where a step of one world leaves the others alone.                    *)
EXTENDS WebScreensProofs

------------------------------------------------------------------------------
(* The limits of the server and its answers.                                *)

(* Times in the order of the clock. *)
Ordered == {ts \in Seq(Nat) : \A i, j \in 1 .. Len(ts) : i <= j => ts[i] <= ts[j]}

(* Of times in their order, those out of the window come first.             *)
LEMMA PastIsAPrefix ==
  ASSUME NEW ts \in Ordered, NEW at \in Nat
  PROVE  /\ A!Past(ts, at) \in 0 .. Len(ts)
         /\ \A i \in 1 .. Len(ts) : ts[i] <= at - Window <=> i <= A!Past(ts, at)
<1>1. ts \in Seq(Nat) /\ Len(ts) \in Nat /\ DOMAIN ts = 1 .. Len(ts)
      /\ \A i, j \in 1 .. Len(ts) : i <= j => ts[i] <= ts[j]
  BY DEF Ordered
<1>2. Window \in Nat
  BY WebAssumption DEF WebAssumption
<1> DEFINE X == {n \in 1 .. Len(ts) + 1 : n = Len(ts) + 1 \/ ts[n] > at - Window}
<1>3. PICK n \in X : \A m \in X : n <= m
  <2>1. X \in SUBSET Nat /\ Len(ts) + 1 \in X
    BY <1>1
  <2> HIDE DEF X
  <2> QED BY <2>1, Least
<1>4. n - 1 \in 0 .. Len(ts)
  BY <1>1, <1>3
<1>5. ASSUME NEW i \in 1 .. Len(ts) PROVE ts[i] <= at - Window <=> i <= n - 1
  <2>1. ts[i] \in Nat
    BY <1>1
  <2>2. CASE i < n
    <3>1. i \notin X
      BY <1>1, <1>3, <2>2
    <3> QED BY <1>1, <1>2, <1>3, <2>1, <2>2, <3>1
  <2>3. CASE n <= i
    <3>1. n \in 1 .. Len(ts) /\ ts[n] \in Nat /\ ts[n] > at - Window /\ ts[n] <= ts[i]
      BY <1>1, <1>3, <2>3
    <3> QED BY <1>1, <1>2, <2>1, <2>3, <3>1
  <2> QED BY <1>3, <1>1, <2>2, <2>3
<1>6. \E k \in 0 .. Len(ts) : \A i \in DOMAIN ts : ts[i] <= at - Window <=> i <= k
  BY <1>1, <1>4, <1>5
<1> HIDE DEF X
<1> QED BY <1>1, <1>6 DEF A!Past

(* What is left of a window is its end.                                     *)
LEMMA LiveIsASuffix ==
  ASSUME NEW ts \in Ordered, NEW at \in Nat
  PROVE  /\ A!Live(ts, at) \in Seq(Nat)
         /\ Len(A!Live(ts, at)) = Len(ts) - A!Past(ts, at)
         /\ \A i \in 1 .. Len(A!Live(ts, at)) : A!Live(ts, at)[i] = ts[A!Past(ts, at) + i]
<1> DEFINE k == A!Past(ts, at)
<1>1. k \in 0 .. Len(ts) /\ ts \in Seq(Nat)
  BY PastIsAPrefix DEF Ordered
<1>2. A!Live(ts, at) = SubSeq(ts, k + 1, Len(ts))
  BY DEF A!Live
<1> HIDE DEF k
<1> QED BY <1>1, <1>2 DEF k

(* A sequence without one of its entries.                                   *)
LEMMA RemovedOne ==
  ASSUME NEW E, NEW s \in Seq(E), NEW i \in 1 .. Len(s)
  PROVE  /\ A!RemoveAt(s, i) \in Seq(E)
         /\ Len(A!RemoveAt(s, i)) = Len(s) - 1
         /\ \A j \in 1 .. Len(s) - 1 : A!RemoveAt(s, i)[j] = s[IF j < i THEN j ELSE j + 1]
<1> DEFINE x == SubSeq(s, 1, i - 1)
           y == SubSeq(s, i + 1, Len(s))
<1>1. x \in Seq(E) /\ Len(x) = i - 1 /\ \A j \in 1 .. i - 1 : x[j] = s[j]
  OBVIOUS
<1>2. y \in Seq(E) /\ Len(y) = Len(s) - i /\ \A j \in 1 .. Len(s) - i : y[j] = s[i + j]
  OBVIOUS
<1>3. A!RemoveAt(s, i) = x \o y
  BY DEF A!RemoveAt
<1> HIDE DEF x, y
<1>4. x \o y \in Seq(E) /\ Len(x \o y) = Len(s) - 1
  BY <1>1, <1>2
<1>5. \A j \in 1 .. Len(s) - 1 : (x \o y)[j] = IF j < i THEN x[j] ELSE y[j - (i - 1)]
  BY <1>1, <1>2
<1>6. \A j \in 1 .. Len(s) - 1 : (x \o y)[j] = s[IF j < i THEN j ELSE j + 1]
  BY <1>1, <1>2, <1>5
<1> QED BY <1>3, <1>4, <1>6

(* The table of a limiter: a key has one window at most, with its times in   *)
(* their order.                                                              *)
TableFits(tb, K) ==
  /\ tb \in Seq(K \X Ordered)
  /\ \A i, j \in 1 .. Len(tb) : tb[i][1] = tb[j][1] => i = j
(* The table knows the key by this window.                                  *)
Has(tb, key, ts) == \E i \in 1 .. Len(tb) : tb[i] = <<key, ts>>

(* The window of a key is the one the table knows.                          *)
LEMMA WindowIs ==
  ASSUME NEW K, NEW tb, TableFits(tb, K), NEW key
  PROVE  /\ A!WindowOf(tb, key) \in Ordered
         /\ \/ A!Of(tb, key) = {} /\ A!WindowOf(tb, key) = << >>
            \/ Has(tb, key, A!WindowOf(tb, key))
         /\ \A ts : Has(tb, key, ts) => A!Of(tb, key) # {} /\ A!WindowOf(tb, key) = ts
<1>1. tb \in Seq(K \X Ordered) /\ DOMAIN tb = 1 .. Len(tb)
  BY DEF TableFits
<1>2. \A i \in 1 .. Len(tb) : tb[i] = <<tb[i][1], tb[i][2]>> /\ tb[i][2] \in Ordered
  BY <1>1
<1>3. << >> \in Ordered
  BY DEF Ordered
<1>4. ASSUME A!Of(tb, key) # {}
      PROVE  \E i \in 1 .. Len(tb) : /\ i \in A!Of(tb, key) /\ A!WindowOf(tb, key) = tb[i][2]
                                     /\ tb[i][1] = key
  BY <1>1, <1>4 DEF A!Of, A!WindowOf
<1>5. ASSUME NEW ts, Has(tb, key, ts) PROVE A!Of(tb, key) # {} /\ A!WindowOf(tb, key) = ts
  <2>1. PICK i \in 1 .. Len(tb) : tb[i] = <<key, ts>>
    BY <1>5 DEF Has
  <2>2. i \in A!Of(tb, key) /\ tb[i][1] = key /\ tb[i][2] = ts
    BY <1>1, <2>1 DEF A!Of
  <2>3. PICK j \in 1 .. Len(tb) : A!WindowOf(tb, key) = tb[j][2] /\ tb[j][1] = key
    BY <1>4, <2>2
  <2>4. i = j
    BY <2>2, <2>3 DEF TableFits
  <2> QED BY <2>2, <2>3, <2>4
<1>6. A!Of(tb, key) = {} => A!WindowOf(tb, key) = << >>
  BY DEF A!WindowOf
<1>7. A!Of(tb, key) # {} => Has(tb, key, A!WindowOf(tb, key))
  BY <1>2, <1>4 DEF Has
<1> QED BY <1>2, <1>3, <1>4, <1>5, <1>6, <1>7

(* One entry less: the others keep their windows.                            *)
LEMMA RemovedFits ==
  ASSUME NEW K, NEW tb, TableFits(tb, K), NEW i \in 1 .. Len(tb)
  PROVE  /\ TableFits(A!RemoveAt(tb, i), K)
         /\ Len(A!RemoveAt(tb, i)) = Len(tb) - 1
         /\ \A j \in 1 .. Len(tb) - 1 : A!RemoveAt(tb, i)[j][1] # tb[i][1]
         /\ \A key, ts : Has(A!RemoveAt(tb, i), key, ts) => Has(tb, key, ts)
         /\ \A key, ts : Has(tb, key, ts) /\ key # tb[i][1] => Has(A!RemoveAt(tb, i), key, ts)
<1> DEFINE r == A!RemoveAt(tb, i)
           from(j) == IF j < i THEN j ELSE j + 1
           E == K \X Ordered
<1>1. tb \in Seq(E) /\ Len(tb) \in Nat
  BY DEF TableFits
<1>2. r \in Seq(E) /\ Len(r) = Len(tb) - 1 /\ \A j \in 1 .. Len(tb) - 1 : r[j] = tb[from(j)]
  <2> HIDE DEF E
  <2> QED BY <1>1, RemovedOne
<1>3. /\ \A j \in 1 .. Len(tb) - 1 : from(j) \in 1 .. Len(tb) /\ from(j) # i
      /\ \A j, k \in 1 .. Len(tb) - 1 : from(j) = from(k) => j = k
      /\ \A m \in 1 .. Len(tb) : m # i => \E j \in 1 .. Len(tb) - 1 : from(j) = m
  <2>1. \A m \in 1 .. Len(tb) : m < i => m \in 1 .. Len(tb) - 1 /\ from(m) = m
    BY <1>1
  <2>2. \A m \in 1 .. Len(tb) : m > i => m - 1 \in 1 .. Len(tb) - 1 /\ from(m - 1) = m
    BY <1>1
  <2>3. /\ \A j \in 1 .. Len(tb) - 1 : from(j) \in 1 .. Len(tb) /\ from(j) # i
        /\ \A j, k \in 1 .. Len(tb) - 1 : from(j) = from(k) => j = k
    BY <1>1
  <2>4. \A m \in 1 .. Len(tb) : m # i => m < i \/ m > i
    BY <1>1
  <2> HIDE DEF from
  <2> QED BY <2>1, <2>2, <2>3, <2>4
<1> HIDE DEF r, from, E
<1>4. \A j, k \in 1 .. Len(tb) : tb[j][1] = tb[k][1] => j = k
  BY DEF TableFits
<1>5. TableFits(r, K)
  <2>1. ASSUME NEW j \in 1 .. Len(r), NEW k \in 1 .. Len(r), r[j][1] = r[k][1]
        PROVE  j = k
    <3>1. j \in 1 .. Len(tb) - 1 /\ k \in 1 .. Len(tb) - 1
      BY <1>2
    <3>2. tb[from(j)][1] = tb[from(k)][1]
      BY <1>2, <2>1, <3>1
    <3>3. from(j) = from(k)
      BY <1>3, <1>4, <3>1, <3>2
    <3> QED BY <1>3, <3>1, <3>3
  <2> QED BY <1>2, <2>1 DEF TableFits, E
<1>6. \A j \in 1 .. Len(tb) - 1 : r[j][1] # tb[i][1]
  BY <1>2, <1>3, <1>4
<1>7. ASSUME NEW key, NEW ts, Has(r, key, ts) PROVE Has(tb, key, ts)
  BY <1>2, <1>3, <1>7 DEF Has
<1>8. ASSUME NEW key, NEW ts, Has(tb, key, ts), key # tb[i][1] PROVE Has(r, key, ts)
  <2>1. PICK m \in 1 .. Len(tb) : tb[m] = <<key, ts>>
    BY <1>8 DEF Has
  <2>2. m # i
    BY <1>8, <2>1
  <2>3. PICK j \in 1 .. Len(tb) - 1 : from(j) = m
    BY <1>3, <2>2
  <2> QED BY <1>2, <2>1, <2>3 DEF Has
<1> QED BY <1>2, <1>5, <1>6, <1>7, <1>8 DEF r

(* A touched key is the last of the table, once, with its new window        *)
(* (touch).                                                                 *)
LEMMA TouchedFits ==
  ASSUME NEW K, NEW tb, TableFits(tb, K), NEW key \in K, NEW ts \in Ordered
  PROVE  /\ TableFits(A!touch(tb, key, ts), K)
         /\ Len(A!touch(tb, key, ts)) = IF A!Of(tb, key) = {} THEN Len(tb) + 1 ELSE Len(tb)
         /\ \A k, us : Has(A!touch(tb, key, ts), k, us) <=>
                         IF k = key THEN us = ts ELSE Has(tb, k, us)
<1> DEFINE r == A!Without(tb, key)
           e == <<key, ts>>
           t == A!touch(tb, key, ts)
<1>1. /\ TableFits(r, K)
      /\ Len(r) = IF A!Of(tb, key) = {} THEN Len(tb) ELSE Len(tb) - 1
      /\ \A j \in 1 .. Len(r) : r[j][1] # key
      /\ \A k, us : k # key => (Has(r, k, us) <=> Has(tb, k, us))
  <2>1. tb \in Seq(K \X Ordered) /\ DOMAIN tb = 1 .. Len(tb)
    BY DEF TableFits
  <2>2. CASE A!Of(tb, key) = {}
    <3>1. r = tb
      BY <2>2 DEF A!Without
    <3>2. \A j \in 1 .. Len(tb) : tb[j][1] # key
      BY <2>1, <2>2 DEF A!Of
    <3> HIDE DEF r
    <3> QED BY <2>2, <3>1, <3>2
  <2>3. CASE A!Of(tb, key) # {}
    <3>1. PICK i \in 1 .. Len(tb) : r = A!RemoveAt(tb, i) /\ tb[i][1] = key
      BY <2>1, <2>3 DEF A!Without, A!Of
    <3> HIDE DEF r
    <3>2. /\ TableFits(r, K) /\ Len(r) = Len(tb) - 1
          /\ \A j \in 1 .. Len(tb) - 1 : r[j][1] # key
      BY <3>1, RemovedFits
    <3>3. \A k, us : Has(r, k, us) => Has(tb, k, us)
      BY <3>1, RemovedFits
    <3>4. \A k, us : Has(tb, k, us) /\ k # key => Has(r, k, us)
      BY <3>1, RemovedFits
    <3> QED BY <2>3, <3>2, <3>3, <3>4
  <2> HIDE DEF r
  <2> QED BY <2>2, <2>3
<1> DEFINE E == K \X Ordered
<1>2. t = Append(r, e)
  BY DEF A!touch
<1>3. e \in E /\ e[1] = key
  OBVIOUS
<1>4. r \in Seq(E)
  BY <1>1 DEF TableFits
<1> HIDE DEF r, E, t
<1>5. /\ t \in Seq(E) /\ Len(t) = Len(r) + 1 /\ Len(r) \in Nat /\ t[Len(r) + 1] = e
      /\ \A j \in 1 .. Len(r) : t[j] = r[j]
  <2> HIDE DEF e
  <2> QED BY <1>2, <1>3, <1>4
<1>6. ASSUME NEW j \in 1 .. Len(t), NEW k \in 1 .. Len(t), t[j][1] = t[k][1]
      PROVE  j = k
  <2>1. (j \in 1 .. Len(r) \/ j = Len(r) + 1) /\ (k \in 1 .. Len(r) \/ k = Len(r) + 1)
    BY <1>5
  <2>2. \A m \in 1 .. Len(r) : t[m][1] # key
    BY <1>1, <1>5
  <2>3. CASE j \in 1 .. Len(r) /\ k \in 1 .. Len(r)
    <3>1. r[j][1] = r[k][1]
      BY <1>5, <1>6, <2>3
    <3> QED BY <1>1, <2>3, <3>1 DEF TableFits
  <2> QED BY <1>3, <1>5, <1>6, <2>1, <2>2, <2>3
<1>7. TableFits(t, K)
  BY <1>5, <1>6 DEF TableFits, E
<1>8. ASSUME NEW k, NEW us PROVE Has(t, k, us) <=> IF k = key THEN us = ts ELSE Has(tb, k, us)
  <2>1. \A m \in 1 .. Len(t) : m \in 1 .. Len(r) \/ m = Len(r) + 1
    BY <1>5
  <2>2. CASE k = key
    <3>1. Has(t, k, us) => us = ts
      <4>1. SUFFICES ASSUME NEW m \in 1 .. Len(t), t[m] = <<k, us>> PROVE us = ts
        BY DEF Has
      <4>2. t[m][1] = key
        BY <2>2, <4>1
      <4>3. m = Len(r) + 1
        BY <1>1, <1>5, <2>1, <4>2
      <4> QED BY <1>5, <4>1, <4>3
    <3>2. us = ts => Has(t, k, us)
      <4>1. Len(r) + 1 \in 1 .. Len(t)
        BY <1>5
      <4> QED BY <1>5, <2>2, <4>1 DEF Has
    <3> QED BY <2>2, <3>1, <3>2
  <2>3. CASE k # key
    <3>1. Has(t, k, us) => Has(r, k, us)
      <4>1. SUFFICES ASSUME NEW m \in 1 .. Len(t), t[m] = <<k, us>> PROVE Has(r, k, us)
        BY DEF Has
      <4>2. t[m][1] = k
        BY <4>1
      <4>3. m \in 1 .. Len(r)
        BY <1>3, <1>5, <2>1, <2>3, <4>2
      <4> QED BY <1>5, <4>1, <4>3 DEF Has
    <3>2. Has(r, k, us) => Has(t, k, us)
      <4>1. 1 .. Len(r) \subseteq 1 .. Len(t)
        BY <1>5
      <4> QED BY <1>5, <4>1 DEF Has
    <3>3. Has(r, k, us) <=> Has(tb, k, us)
      BY <1>1, <2>3
    <3> QED BY <2>3, <3>1, <3>2, <3>3
  <2> QED BY <2>2, <2>3
<1> QED BY <1>1, <1>5, <1>7, <1>8 DEF t

(* An eviction keeps the table at its limit, and nothing new comes in.      *)
LEMMA EvictedFits ==
  ASSUME NEW K, NEW tb, TableFits(tb, K), NEW at, Len(tb) <= MaxKeys + 1
  PROVE  /\ TableFits(A!evict(tb, at), K)
         /\ Len(A!evict(tb, at)) <= MaxKeys
         /\ \A k, us : Has(A!evict(tb, at), k, us) => Has(tb, k, us)
<1>1. tb \in Seq(K \X Ordered) /\ DOMAIN tb = 1 .. Len(tb) /\ Len(tb) \in Nat /\ MaxKeys \in Nat
  BY WebAssumption DEF WebAssumption, TableFits
<1>2. CASE Len(tb) <= MaxKeys
  <2>1. A!evict(tb, at) = tb
    BY <1>2 DEF A!evict
  <2> QED BY <1>2, <2>1
<1>3. CASE ~(Len(tb) <= MaxKeys)
  <2> DEFINE dead == {i \in DOMAIN tb : A!IsOver(tb[i][2], at)}
             out == IF dead = {} THEN 1 ELSE CHOOSE i \in dead : \A j \in dead : i <= j
  <2>1. out \in 1 .. Len(tb)
    <3>1. CASE dead = {}
      BY <1>1, <1>3, <3>1
    <3>2. CASE dead # {}
      <4>1. dead \in SUBSET Nat /\ dead \subseteq 1 .. Len(tb)
        BY <1>1
      <4>2. out = CHOOSE i \in dead : \A j \in dead : i <= j
        BY <3>2
      <4> HIDE DEF dead, out
      <4>3. \E i \in dead : \A j \in dead : i <= j
        BY <3>2, <4>1, Least
      <4>4. out \in dead
        BY <4>2, <4>3
      <4> QED BY <4>1, <4>4
    <3> QED BY <3>1, <3>2
  <2>2. A!evict(tb, at) = A!RemoveAt(tb, out)
    BY <1>3 DEF A!evict
  <2> HIDE DEF out
  <2>3. PICK i \in 1 .. Len(tb) : i = out
    BY <2>1
  <2>4. /\ TableFits(A!RemoveAt(tb, i), K) /\ Len(A!RemoveAt(tb, i)) = Len(tb) - 1
        /\ \A key, ts : Has(A!RemoveAt(tb, i), key, ts) => Has(tb, key, ts)
    BY RemovedFits
  <2> QED BY <1>1, <2>2, <2>3, <2>4
<1> QED BY <1>2, <1>3

(* What the limiter does for a key: its window is what is left of the last,  *)
(* with the new time if it is let in; the other keys are as they were, or    *)
(* forgotten.                                                                *)
LEMMA ConsumeFits ==
  ASSUME NEW K, NEW tb, TableFits(tb, K), NEW key \in K, NEW limit \in Nat \ {0},
         NEW at \in Nat, Len(tb) <= MaxKeys,
         \A i \in 1 .. Len(A!WindowOf(tb, key)) : A!WindowOf(tb, key)[i] <= at
  PROVE  LET w == A!Live(A!WindowOf(tb, key), at)
             d == A!consume(tb, key, limit, at)
             ts == IF d.allowed THEN Append(w, at) ELSE w
         IN /\ (d.allowed <=> Len(w) < limit) /\ d.allowed \in BOOLEAN
            /\ TableFits(d.table, K) /\ Len(d.table) <= MaxKeys
            /\ \A k, us : Has(d.table, k, us) => IF k = key THEN us = ts ELSE Has(tb, k, us)
            /\ ~d.allowed => d.retry \in Nat \ {0} /\ w[1] + Window <= at + d.retry
<1> DEFINE old == A!WindowOf(tb, key)
           w == A!Live(old, at)
           d == A!consume(tb, key, limit, at)
           ts == IF d.allowed THEN Append(w, at) ELSE w
<1>1. old \in Ordered /\ (A!Of(tb, key) = {} => old = << >>)
  BY WindowIs
<1>2. /\ w \in Seq(Nat) /\ Len(w) \in Nat /\ Len(w) <= Len(old) /\ Len(old) \in Nat
      /\ A!Past(old, at) \in 0 .. Len(old)
      /\ \A i \in 1 .. Len(w) : w[i] = old[A!Past(old, at) + i]
      /\ Len(w) = Len(old) - A!Past(old, at)
  <2> HIDE DEF old
  <2>1. /\ w \in Seq(Nat) /\ Len(w) = Len(old) - A!Past(old, at)
        /\ \A i \in 1 .. Len(w) : w[i] = old[A!Past(old, at) + i]
    BY <1>1, LiveIsASuffix
  <2>2. A!Past(old, at) \in 0 .. Len(old)
    BY <1>1, PastIsAPrefix
  <2>3. old \in Seq(Nat)
    BY <1>1 DEF Ordered
  <2> HIDE DEF w
  <2> QED BY <2>1, <2>2, <2>3
<1>3. w \in Ordered /\ Append(w, at) \in Ordered
  <2> HIDE DEF w, old
  <2>1. \A i \in 1 .. Len(w) : w[i] <= at /\ w[i] \in Nat
    <3>1. \A i \in 1 .. Len(old) : old[i] <= at
      BY DEF old
    <3>2. \A i \in 1 .. Len(w) : A!Past(old, at) + i \in 1 .. Len(old)
      BY <1>2
    <3> QED BY <1>2, <3>1, <3>2
  <2>2. \A i, j \in 1 .. Len(w) : i <= j => w[i] <= w[j]
    <3>1. \A i, j \in 1 .. Len(old) : i <= j => old[i] <= old[j]
      BY <1>1 DEF Ordered
    <3> TAKE i, j \in 1 .. Len(w)
    <3> HAVE i <= j
    <3> DEFINE p == A!Past(old, at)
    <3>2. p + i \in 1 .. Len(old) /\ p + j \in 1 .. Len(old) /\ p + i <= p + j
      BY <1>2
    <3>3. w[i] = old[p + i] /\ w[j] = old[p + j]
      BY <1>2
    <3> HIDE DEF p
    <3> QED BY <3>1, <3>2, <3>3
  <2>3. w \in Ordered
    BY <1>2, <2>2 DEF Ordered
  <2> DEFINE v == Append(w, at)
  <2>4. /\ v \in Seq(Nat) /\ Len(v) = Len(w) + 1 /\ v[Len(w) + 1] = at
        /\ \A i \in 1 .. Len(w) : v[i] = w[i]
    BY <1>2
  <2> HIDE DEF v
  <2>5. \A i, j \in 1 .. Len(v) : i <= j => v[i] <= v[j]
    <3> TAKE i, j \in 1 .. Len(v)
    <3> HAVE i <= j
    <3>1. i \in 1 .. Len(w) \/ i = Len(w) + 1
      BY <1>2, <2>4
    <3>2. j \in 1 .. Len(w) \/ (j = Len(w) + 1 /\ v[j] = at)
      BY <1>2, <2>4
    <3>3. CASE i \in 1 .. Len(w)
      BY <2>1, <2>2, <2>4, <3>2, <3>3
    <3>4. CASE i = Len(w) + 1
      <4>1. j = Len(w) + 1
        BY <1>2, <2>4, <3>4
      <4> QED BY <2>4, <3>4, <4>1
    <3> QED BY <3>1, <3>3, <3>4
  <2>6. v \in Ordered
    BY <2>4, <2>5 DEF Ordered
  <2> QED BY <2>3, <2>6 DEF v
<1>4. limit \in Nat /\ limit # 0
  OBVIOUS
<1>5. CASE Len(w) >= limit
  <2>1. d = [allowed |-> FALSE, retry |-> A!RetryAfter(w, at), table |-> A!touch(tb, key, w)]
    BY <1>5 DEF A!consume, A!Previous
  <2>2. ts = w /\ ~d.allowed /\ d.table = A!touch(tb, key, w) /\ d.retry = A!RetryAfter(w, at)
    <3> HIDE DEF w, d
    <3> QED BY <2>1
  <2>3. A!Of(tb, key) # {}
    <3> HIDE DEF w, old
    <3>1. Len(w) > 0
      BY <1>2, <1>4, <1>5
    <3>2. old # << >>
      BY <1>2, <3>1
    <3> QED BY <1>1, <3>2
  <2> HIDE DEF d, ts, w, old
  <2>4. /\ TableFits(d.table, K) /\ Len(d.table) = Len(tb)
        /\ \A k, us : Has(d.table, k, us) => IF k = key THEN us = w ELSE Has(tb, k, us)
    BY <1>3, <2>2, <2>3, TouchedFits
  <2>5. d.retry \in Nat \ {0} /\ w[1] + Window <= at + d.retry
    <3>1. 1 \in 1 .. Len(w)
      BY <1>2, <1>4, <1>5
    <3>2. w # << >> /\ w[1] \in Nat
      BY <1>2, <3>1
    <3>3. Window \in Nat
      BY WebAssumption DEF WebAssumption
    <3> QED BY <2>2, <3>2, <3>3 DEF A!RetryAfter
  <2>6. (d.allowed <=> Len(w) < limit) /\ d.allowed \in BOOLEAN
    <3>1. ~(Len(w) < limit)
      BY <1>2, <1>4, <1>5
    <3>2. d.allowed = FALSE
      BY <2>1
    <3> QED BY <3>1, <3>2
  <2> QED BY <2>2, <2>4, <2>5, <2>6 DEF w, d, ts, old
<1>6. CASE ~(Len(w) >= limit)
  <2> DEFINE v == Append(w, at)
             t == A!touch(tb, key, v)
  <2>1. d = [allowed |-> TRUE, retry |-> 0, table |-> A!evict(t, at)]
    BY <1>6 DEF A!consume, A!Previous
  <2>2. ts = v /\ d.allowed /\ d.table = A!evict(t, at)
    <3> HIDE DEF w, d, t
    <3> QED BY <2>1
  <2>3. v \in Ordered
    BY <1>3
  <2> HIDE DEF v
  <2>4. /\ TableFits(t, K) /\ Len(t) <= MaxKeys + 1
        /\ \A k, us : Has(t, k, us) => IF k = key THEN us = v ELSE Has(tb, k, us)
    <3>1. /\ TableFits(t, K)
          /\ Len(t) = IF A!Of(tb, key) = {} THEN Len(tb) + 1 ELSE Len(tb)
          /\ \A k, us : Has(t, k, us) <=> IF k = key THEN us = v ELSE Has(tb, k, us)
      BY <2>3, TouchedFits
    <3>2. Len(tb) \in Nat /\ MaxKeys \in Nat
      BY WebAssumption DEF WebAssumption, TableFits
    <3> HIDE DEF t
    <3> QED BY <3>1, <3>2
  <2> HIDE DEF t
  <2>5. /\ TableFits(d.table, K) /\ Len(d.table) <= MaxKeys
        /\ \A k, us : Has(d.table, k, us) => Has(t, k, us)
    <3> HIDE DEF d
    <3> QED BY <2>2, <2>4, EvictedFits
  <2>6. (d.allowed <=> Len(w) < limit) /\ d.allowed \in BOOLEAN
    <3>1. Len(w) < limit
      BY <1>2, <1>4, <1>6
    <3>2. d.allowed = TRUE
      BY <2>1
    <3> QED BY <3>1, <3>2
  <2> HIDE DEF d, ts, w, old
  <2> QED BY <2>2, <2>4, <2>5, <2>6 DEF w, d, ts, old
<1> QED BY <1>5, <1>6

(* What is known of an address: ts is its window in the table, hits the      *)
(* times it was let in since the table knows it, p when it was told to come  *)
(* back.                                                                     *)
AddressFits(ts, hits, p, at) ==
  /\ ts \in Ordered /\ hits \in Ordered /\ p \in Nat
  /\ \A i \in 1 .. Len(hits) : hits[i] <= at
  /\ \A i \in 1 .. Len(hits) : i > IpLimit => hits[i - IpLimit] <= hits[i] - Window
  /\ Len(ts) <= IpLimit /\ Len(ts) <= Len(hits)
  /\ \A i \in 1 .. Len(ts) : ts[i] = hits[Len(hits) - Len(ts) + i]
  /\ \A i \in 1 .. Len(hits) - Len(ts) : hits[i] <= at - Window
  /\ p # 0 /\ Len(ts) >= IpLimit => ts[1] + Window <= p

(* The limits are numbers.                                                  *)
LEMMA Limits == IpLimit \in Nat \ {0} /\ UserLimit \in Nat \ {0} /\ Window \in Nat \ {0}
BY WebAssumption DEF WebAssumption

(* An address nothing is known of.                                          *)
LEMMA NewAddressFits ==
  ASSUME NEW p \in Nat, NEW at \in Nat
  PROVE  AddressFits(<< >>, << >>, p, at)
BY Limits DEF AddressFits, Ordered

(* What is known of an address stays true as the clock goes on.             *)
LEMMA LaterFits ==
  ASSUME NEW ts, NEW hits, NEW p, NEW at \in Nat, AddressFits(ts, hits, p, at)
  PROVE  AddressFits(ts, hits, p, at + 1)
<1>1. Window \in Nat /\ \A i \in 1 .. Len(hits) : hits[i] \in Nat
  BY Limits DEF AddressFits, Ordered
<1>2. Len(ts) \in Nat /\ Len(hits) \in Nat
  BY DEF AddressFits, Ordered
<1>3. \A i \in 1 .. Len(hits) : hits[i] <= at => hits[i] <= at + 1
  BY <1>1
<1>4. \A i \in 1 .. Len(hits) - Len(ts) : i \in 1 .. Len(hits)
  BY <1>2
<1>5. \A i \in 1 .. Len(hits) : hits[i] <= at - Window => hits[i] <= (at + 1) - Window
  BY <1>1
<1> QED BY <1>3, <1>4, <1>5 DEF AddressFits

(* What is left of a window is the end of what was let in, and the rest of   *)
(* what was let in is past.                                                  *)
LEMMA LiveOfAddress ==
  ASSUME NEW ts, NEW hits, NEW p, NEW at \in Nat, AddressFits(ts, hits, p, at)
  PROVE  LET w == A!Live(ts, at) IN
         /\ w \in Seq(Nat) /\ Len(w) \in Nat /\ Len(w) <= Len(ts) /\ Len(w) <= Len(hits)
         /\ \A i \in 1 .. Len(w) : w[i] = hits[Len(hits) - Len(w) + i]
         /\ \A i \in 1 .. Len(hits) - Len(w) : hits[i] <= at - Window
         /\ Len(w) = Len(ts) => \A i \in 1 .. Len(w) : w[i] = ts[i]
<1> DEFINE w == A!Live(ts, at)
           k == A!Past(ts, at)
<1>1. ts \in Ordered /\ hits \in Seq(Nat) /\ Len(hits) \in Nat /\ ts \in Seq(Nat) /\ Len(ts) \in Nat
  BY DEF AddressFits, Ordered
<1>2. /\ w \in Seq(Nat) /\ Len(w) = Len(ts) - k
      /\ \A i \in 1 .. Len(w) : w[i] = ts[k + i]
  BY <1>1, LiveIsASuffix
<1>3. k \in 0 .. Len(ts) /\ \A i \in 1 .. Len(ts) : ts[i] <= at - Window <=> i <= k
  BY <1>1, PastIsAPrefix
<1> HIDE DEF w, k
<1>4. /\ Len(ts) <= Len(hits) /\ \A i \in 1 .. Len(ts) : ts[i] = hits[Len(hits) - Len(ts) + i]
      /\ \A i \in 1 .. Len(hits) - Len(ts) : hits[i] <= at - Window
  BY DEF AddressFits
<1>5. \A i \in 1 .. Len(w) : w[i] = hits[Len(hits) - Len(w) + i]
  <2> TAKE i \in 1 .. Len(w)
  <2>1. k + i \in 1 .. Len(ts) /\ Len(hits) - Len(ts) + (k + i) = Len(hits) - Len(w) + i
    BY <1>1, <1>2, <1>3
  <2> QED BY <1>2, <1>4, <2>1
<1>6. \A i \in 1 .. Len(hits) - Len(w) : hits[i] <= at - Window
  <2> TAKE i \in 1 .. Len(hits) - Len(w)
  <2>1. CASE i \in 1 .. Len(hits) - Len(ts)
    BY <1>4, <2>1
  <2>2. CASE i \notin 1 .. Len(hits) - Len(ts)
    <3> DEFINE j == i - (Len(hits) - Len(ts))
    <3>1. j \in 1 .. Len(ts) /\ j <= k /\ Len(hits) - Len(ts) + j = i
      BY <1>1, <1>2, <1>3, <1>4, <2>2
    <3> HIDE DEF j
    <3>2. ts[j] = hits[i] /\ ts[j] <= at - Window
      BY <1>3, <1>4, <3>1
    <3> QED BY <3>2
  <2> QED BY <2>1, <2>2
<1>7. Len(w) = Len(ts) => \A i \in 1 .. Len(w) : w[i] = ts[i]
  BY <1>1, <1>2, <1>3
<1> QED BY <1>1, <1>2, <1>3, <1>4, <1>5, <1>6, <1>7 DEF w

(* An address that is let in.                                               *)
LEMMA AdmittedFits ==
  ASSUME NEW ts, NEW hits, NEW p, NEW at \in Nat, AddressFits(ts, hits, p, at),
         Len(A!Live(ts, at)) < IpLimit, Append(A!Live(ts, at), at) \in Ordered
  PROVE  AddressFits(Append(A!Live(ts, at), at), Append(hits, at), 0, at)
<1> DEFINE w == A!Live(ts, at)
           v == Append(w, at)
           M == Append(hits, at)
<1>1. /\ w \in Seq(Nat) /\ Len(w) \in Nat /\ Len(w) <= Len(hits)
      /\ \A i \in 1 .. Len(w) : w[i] = hits[Len(hits) - Len(w) + i]
      /\ \A i \in 1 .. Len(hits) - Len(w) : hits[i] <= at - Window
  BY LiveOfAddress
<1>2. /\ hits \in Seq(Nat) /\ Len(hits) \in Nat /\ \A i \in 1 .. Len(hits) : hits[i] <= at /\ hits[i] \in Nat
      /\ \A i, j \in 1 .. Len(hits) : i <= j => hits[i] <= hits[j]
      /\ \A i \in 1 .. Len(hits) : i > IpLimit => hits[i - IpLimit] <= hits[i] - Window
  BY DEF AddressFits, Ordered
<1> HIDE DEF w
<1>3. /\ v \in Seq(Nat) /\ Len(v) = Len(w) + 1 /\ v[Len(w) + 1] = at
      /\ \A i \in 1 .. Len(w) : v[i] = w[i]
  BY <1>1
<1>4. /\ M \in Seq(Nat) /\ Len(M) = Len(hits) + 1 /\ M[Len(hits) + 1] = at
      /\ \A i \in 1 .. Len(hits) : M[i] = hits[i]
  BY <1>2
<1>5. v \in Ordered /\ Len(w) < IpLimit
  BY DEF w
<1> HIDE DEF v, M
<1>6. \A i \in 1 .. Len(M) : i \in 1 .. Len(hits) \/ i = Len(hits) + 1
  BY <1>2, <1>4
<1>7. M \in Ordered /\ \A i \in 1 .. Len(M) : M[i] <= at
  <2>1. \A i \in 1 .. Len(M) : M[i] <= at
    <3> TAKE i \in 1 .. Len(M)
    <3>1. CASE i \in 1 .. Len(hits)
      BY <1>2, <1>4, <3>1
    <3>2. CASE i = Len(hits) + 1
      BY <1>4, <3>2
    <3> QED BY <1>6, <3>1, <3>2
  <2>2. \A i, j \in 1 .. Len(M) : i <= j => M[i] <= M[j]
    <3> TAKE i, j \in 1 .. Len(M)
    <3> HAVE i <= j
    <3>1. CASE j = Len(hits) + 1
      BY <1>4, <2>1, <3>1
    <3>2. CASE j # Len(hits) + 1
      <4>1. i \in 1 .. Len(hits) /\ j \in 1 .. Len(hits)
        BY <1>2, <1>6, <3>2
      <4> QED BY <1>2, <1>4, <4>1
    <3> QED BY <3>1, <3>2
  <2> QED BY <1>4, <2>1, <2>2 DEF Ordered
<1>8. \A i \in 1 .. Len(M) : i > IpLimit => M[i - IpLimit] <= M[i] - Window
  <2> TAKE i \in 1 .. Len(M)
  <2> HAVE i > IpLimit
  <2>1. i - IpLimit \in 1 .. Len(hits)
    BY <1>2, <1>4, Limits
  <2>2. CASE i \in 1 .. Len(hits)
    BY <1>2, <1>4, <2>1, <2>2
  <2>3. CASE i = Len(hits) + 1
    <3>1. i - IpLimit \in 1 .. Len(hits) - Len(w)
      BY <1>1, <1>2, <1>5, <2>1, <2>3, Limits
    <3> QED BY <1>1, <1>4, <2>1, <2>3, <3>1
  <2> QED BY <1>6, <2>2, <2>3
<1>9. \A i \in 1 .. Len(v) : v[i] = M[Len(M) - Len(v) + i]
  <2> TAKE i \in 1 .. Len(v)
  <2>1. CASE i \in 1 .. Len(w)
    <3>1. Len(hits) - Len(w) + i \in 1 .. Len(hits) /\ Len(M) - Len(v) + i = Len(hits) - Len(w) + i
      BY <1>1, <1>2, <1>3, <1>4, <2>1
    <3> QED BY <1>1, <1>3, <1>4, <2>1, <3>1
  <2>2. CASE i = Len(w) + 1
    <3>1. Len(M) - Len(v) + i = Len(hits) + 1
      BY <1>1, <1>2, <1>3, <1>4, <2>2
    <3> QED BY <1>3, <1>4, <2>2, <3>1
  <2> QED BY <1>1, <1>3, <2>1, <2>2
<1>10. \A i \in 1 .. Len(M) - Len(v) : M[i] <= at - Window
  <2> TAKE i \in 1 .. Len(M) - Len(v)
  <2>0. Len(M) - Len(v) = Len(hits) - Len(w)
    BY <1>1, <1>2, <1>3, <1>4
  <2>1. i \in 1 .. Len(hits) - Len(w) /\ i \in 1 .. Len(hits)
    BY <1>1, <1>2, <2>0
  <2> QED BY <1>1, <1>4, <2>1
<1>11. Len(v) <= IpLimit /\ Len(v) <= Len(M)
  BY <1>1, <1>2, <1>3, <1>4, <1>5, Limits
<1>12. AddressFits(v, M, 0, at)
  BY <1>5, <1>7, <1>8, <1>9, <1>10, <1>11 DEF AddressFits
<1> QED BY <1>12 DEF v, M, w

(* An address that is told to come back.                                    *)
LEMMA RefusedFits ==
  ASSUME NEW ts, NEW hits, NEW p, NEW at \in Nat, AddressFits(ts, hits, p, at), NEW q \in Nat,
         A!Live(ts, at) \in Ordered, A!Live(ts, at)[1] + Window <= q
  PROVE  AddressFits(A!Live(ts, at), hits, q, at)
<1> DEFINE w == A!Live(ts, at)
<1>1. /\ w \in Seq(Nat) /\ Len(w) \in Nat /\ Len(w) <= Len(ts) /\ Len(w) <= Len(hits)
      /\ \A i \in 1 .. Len(w) : w[i] = hits[Len(hits) - Len(w) + i]
      /\ \A i \in 1 .. Len(hits) - Len(w) : hits[i] <= at - Window
  BY LiveOfAddress
<1>2. w \in Ordered /\ w[1] + Window <= q
  OBVIOUS
<1>3. Len(ts) \in Nat /\ Len(ts) <= IpLimit
  BY DEF AddressFits, Ordered
<1> HIDE DEF w
<1>4. Len(w) <= IpLimit
  BY <1>1, <1>3, Limits
<1>5. AddressFits(w, hits, q, at)
  BY <1>1, <1>2, <1>4 DEF AddressFits
<1> QED BY <1>5 DEF w

(* One that waited as long as it was told to is let in.                      *)
LEMMA PromiseIsKept ==
  ASSUME NEW ts, NEW hits, NEW p, NEW at \in Nat, AddressFits(ts, hits, p, at), p # 0, at >= p
  PROVE  Len(A!Live(ts, at)) < IpLimit
<1> DEFINE w == A!Live(ts, at)
           k == A!Past(ts, at)
<1> SUFFICES Len(w) < IpLimit
  OBVIOUS
<1>1. /\ ts \in Ordered /\ Len(ts) \in Nat /\ Len(ts) <= IpLimit /\ p \in Nat
      /\ Len(ts) >= IpLimit => ts[1] + Window <= p
  BY DEF AddressFits, Ordered
<1>2. Len(w) = Len(ts) - k
  BY <1>1, LiveIsASuffix
<1>3. k \in 0 .. Len(ts) /\ \A i \in 1 .. Len(ts) : ts[i] <= at - Window <=> i <= k
  BY <1>1, PastIsAPrefix
<1> HIDE DEF w, k
<1>4. CASE Len(ts) < IpLimit
  BY <1>1, <1>2, <1>3, <1>4, Limits
<1>5. CASE Len(ts) >= IpLimit
  <2>1. 1 \in 1 .. Len(ts) /\ ts[1] \in Nat
    BY <1>1, <1>5, Limits DEF Ordered
  <2>2. ts[1] <= at - Window
    BY <1>1, <1>5, <2>1, Limits
  <2>3. 1 <= k
    BY <1>3, <2>1, <2>2
  <2> QED BY <1>1, <1>2, <1>3, <2>3, Limits
<1> QED BY <1>1, <1>4, <1>5, Limits

(* The count of the module is the count of the library.                     *)
LEMMA SameCountOfRequests ==
  ASSUME NEW X
  PROVE  A!Cardinality(X) = Cardinality(X)
BY DEF A!Cardinality, Cardinality

(* No window holds more than its share.                                      *)
LEMMA ShareIsKept ==
  ASSUME NEW ts, NEW hits, NEW p, NEW at \in Nat, AddressFits(ts, hits, p, at), NEW i \in 1 .. Len(hits)
  PROVE  Cardinality({j \in 1 .. Len(hits) : hits[i] - Window < hits[j] /\ hits[j] <= hits[i]}) <= IpLimit
<1>1. /\ hits \in Seq(Nat) /\ Len(hits) \in Nat /\ \A j \in 1 .. Len(hits) : hits[j] \in Nat
      /\ \A j, k \in 1 .. Len(hits) : j <= k => hits[j] <= hits[k]
      /\ \A j \in 1 .. Len(hits) : j > IpLimit => hits[j - IpLimit] <= hits[j] - Window
  BY DEF AddressFits, Ordered
<1> DEFINE X == {j \in 1 .. Len(hits) : hits[i] - Window < hits[j] /\ hits[j] <= hits[i]}
           Y == {n \in 1 .. Len(hits) : \E j \in X : n = j}
           G == {n \in 0 .. Len(hits) : \A j \in X : j <= n}
<1>2. PICK m \in G : \A n \in G : m <= n
  <2>1. G \in SUBSET Nat /\ Len(hits) \in G
    BY <1>1
  <2> HIDE DEF G
  <2> QED BY <2>1, Least
<1>3. m \in X
  <2>1. SUFFICES ASSUME m \notin X PROVE FALSE
    OBVIOUS
  <2>2. i \in X
    BY <1>1, Limits
  <2>3. m \in 1 .. Len(hits) /\ \A j \in X : j <= m /\ j \in Nat /\ j # m
    BY <1>1, <1>2, <2>1, <2>2
  <2>4. m - 1 \in G
    BY <1>1, <2>3
  <2> HIDE DEF G
  <2> QED BY <1>2, <2>3, <2>4
<1>4. X \subseteq m - IpLimit + 1 .. m
  <2> SUFFICES ASSUME NEW j \in X PROVE j \in m - IpLimit + 1 .. m
    OBVIOUS
  <2>1. j \in 1 .. Len(hits) /\ m \in 1 .. Len(hits) /\ j <= m /\ hits[m] <= hits[i] /\ hits[i] - Window < hits[j]
    BY <1>2, <1>3
  <2>2. CASE j <= m - IpLimit
    <3>1. m - IpLimit \in 1 .. Len(hits) /\ m > IpLimit
      BY <2>1, <2>2, Limits
    <3>2. hits[j] <= hits[m - IpLimit] /\ hits[m - IpLimit] <= hits[m] - Window
      BY <1>1, <2>1, <2>2, <3>1
    <3>3. hits[j] \in Nat /\ hits[m - IpLimit] \in Nat /\ hits[m] \in Nat /\ hits[i] \in Nat
      BY <1>1, <2>1, <3>1
    <3> QED BY <2>1, <3>2, <3>3, Limits
  <2> QED BY <2>1, <2>2, Limits
<1>5. m \in Int /\ m - IpLimit + 1 \in Int /\ m - (m - IpLimit + 1) + 1 = IpLimit /\ m >= m - IpLimit + 1
  BY <1>2, Limits
<1>6. /\ IsFiniteSet(m - IpLimit + 1 .. m)
      /\ Cardinality(m - IpLimit + 1 .. m) = IpLimit
  <2>1. \A a, b \in Int : IsFiniteSet(a .. b) /\ Cardinality(a .. b) = IF a > b THEN 0 ELSE b - a + 1
    BY FS_Interval
  <2> QED BY <1>5, <2>1
<1> HIDE DEF X
<1>7. Cardinality(X) <= IpLimit
  BY <1>4, <1>6, FS_Subset
<1> QED BY <1>7 DEF X

(* What was raised is what is read, or nothing in particular.                *)
LEMMA CodesOfStatus ==
  ASSUME NEW code \in A!Codes, A!API_ERROR_STATUS(code) = 401
  PROVE  code = "unauthorized"
BY DEF A!Codes, A!API_ERROR_STATUS

(* Every exception is answered with a code the app knows (toRequestError).  *)
LEMMA TranslatedIsACode ==
  ASSUME NEW e \in A!Exceptions \cup {A!ApiError("unauthorized", A!Null),
                   A!ApiError("rate_limited", "retry"), A!ApiError("unavailable", A!Null)}
  PROVE  A!translate(e).code \in A!Codes
<1>1. ASSUME NEW c \in A!Codes, NEW d, e = A!ApiError(c, d)
      PROVE  A!translate(e).code \in A!Codes
  <2>1. e.type = "api" /\ e.code = c
    BY <1>1 DEF A!ApiError
  <2> QED BY <2>1 DEF A!translate, A!buildEnvelope
<1>2. ASSUME e.type \in {"zod", "rule", "error"}
      PROVE  A!translate(e).code \in A!Codes
  BY <1>2 DEF A!translate, A!buildEnvelope, A!Codes
<1>3. \A n : A!codeForStatus(n) \in A!Codes
  BY DEF A!codeForStatus, A!Codes
<1>4. ASSUME e.type = "http"
      PROVE  A!translate(e).code \in A!Codes
  BY <1>3, <1>4 DEF A!translate, A!buildEnvelope
<1>5. ASSUME e.type = "parser"
      PROVE  A!translate(e).code \in A!Codes
  <2>1. A!translate(e) \in {A!buildEnvelope(A!codeForStatus(e.status), A!Null),
                            A!buildEnvelope("internal", A!Null)}
    BY <1>5 DEF A!translate
  <2>2. "internal" \in A!Codes
    BY DEF A!Codes
  <2> QED BY <1>3, <2>1, <2>2 DEF A!buildEnvelope
<1>6. {"conflict", "not_found", "consent_required", "validation_failed", "unauthorized",
       "rate_limited", "unavailable"} \subseteq A!Codes
  BY DEF A!Codes
<1>7. \/ \E c \in A!Codes : \E d : e = A!ApiError(c, d)
      \/ e.type \in {"zod", "rule", "error", "http", "parser"}
  <2>1. CASE \E c \in {"conflict", "not_found", "consent_required", "validation_failed",
                       "unauthorized", "rate_limited", "unavailable"} : \E d : e = A!ApiError(c, d)
    BY <1>6, <2>1
  <2>2. CASE \/ e = [type |-> "zod"] \/ e = [type |-> "rule"] \/ e = [type |-> "error"]
             \/ e = [type |-> "http", status |-> 404] \/ e = [type |-> "http", status |-> 400]
             \/ e = [type |-> "parser", status |-> 413, expose |-> TRUE]
             \/ e = [type |-> "parser", status |-> 500, expose |-> FALSE]
    BY <2>2
  <2> QED BY <2>1, <2>2 DEF A!Exceptions
<1> QED BY <1>1, <1>2, <1>4, <1>5, <1>7

(* The app acts on the code that was raised, or on none in particular, torn *)
(* answers included.                                                        *)
LEMMA RepliesAreHonest ==
  ASSUME NEW e \in A!Exceptions \cup {A!ApiError("unauthorized", A!Null),
                   A!ApiError("rate_limited", "retry"), A!ApiError("unavailable", A!Null)},
         NEW torn \in BOOLEAN
  PROVE  A!Reply(torn, e).read.code \in {A!Reply(torn, e).raised, "internal"}
<1> DEFINE code == A!translate(e).code
           body == A!translate(e)
<1>1. code \in A!Codes
  BY TranslatedIsACode
<1>2. A!Reply(torn, e).raised = code
      /\ A!Reply(torn, e).read = A!toRequestError(torn, body, A!API_ERROR_STATUS(code))
  BY DEF A!Reply
<1>3. CASE torn
  BY <1>1, <1>2, <1>3, CodesOfStatus DEF A!toRequestError
<1>4. CASE ~torn
  BY <1>1, <1>2, <1>4 DEF A!toRequestError
<1> QED BY <1>3, <1>4

(* Whose requests are counted, and the requests on their way.               *)
Users == {"ann", "bob", "none", "broken"}
Flights(sc) ==
  [left: Nat, restarts: Nat, open: SUBSET [sender: sc.senders, pc: {"account", "handler"}]]

(* What the limits of the server keep.                                      *)
RequestsInv ==
  /\ scenario \in RequestScenarios
  /\ now \in 0 .. MaxTime
  /\ flight \in Flights(scenario)
  /\ TableFits(ip, A!Addresses) /\ Len(ip) <= MaxKeys
  /\ TableFits(user, Users) /\ Len(user) <= MaxKeys
  /\ \A u \in Users : \A i \in 1 .. Len(A!WindowOf(user, u)) : A!WindowOf(user, u)[i] <= now
  /\ DOMAIN let = A!Addresses /\ DOMAIN promise = A!Addresses
  /\ \A a \in A!Addresses : AddressFits(A!WindowOf(ip, a), let[a], promise[a], now)
  /\ A!AnswersAreHonest

(* The clock is a number.                                                   *)
LEMMA Clock ==
  ASSUME RequestsInv
  PROVE  now \in Nat /\ MaxTime \in Nat
BY WebAssumption DEF WebAssumption, RequestsInv

(* A table without entries.                                                 *)
LEMMA EmptyTable ==
  ASSUME NEW K
  PROVE  /\ TableFits(<< >>, K) /\ Len(<< >>) <= MaxKeys
         /\ \A key : A!WindowOf(<< >>, key) = << >>
<1>1. MaxKeys \in Nat
  BY WebAssumption DEF WebAssumption
<1>2. \A key : A!Of(<< >>, key) = {}
  BY DEF A!Of
<1>3. \A key : A!WindowOf(<< >>, key) = << >>
  BY <1>2 DEF A!WindowOf
<1> QED BY <1>1, <1>3 DEF TableFits

(* The server starts with what it keeps.                                    *)
LEMMA RequestsStart == A!Init => RequestsInv
<1> SUFFICES ASSUME A!Init PROVE RequestsInv
  OBVIOUS
<1>1. /\ scenario \in RequestScenarios /\ scenario.requests \in Nat /\ scenario.restarts \in Nat
      /\ MaxTime \in Nat
  BY WebAssumption DEF WebAssumption, A!Init
<1>2. now = 0 /\ ip = << >> /\ user = << >> /\ seen = [kind |-> "none"]
      /\ flight = [left |-> scenario.requests, restarts |-> scenario.restarts, open |-> {}]
      /\ let = [a \in A!Addresses |-> << >>] /\ promise = [a \in A!Addresses |-> 0]
  BY DEF A!Init
<1>3. flight \in Flights(scenario)
  BY <1>1, <1>2 DEF Flights
<1>4. A!AnswersAreHonest
  BY <1>2 DEF A!AnswersAreHonest
<1>5. \A u \in Users : \A i \in 1 .. Len(A!WindowOf(user, u)) : A!WindowOf(user, u)[i] <= now
  BY <1>2, EmptyTable
<1>6. \A a \in A!Addresses : AddressFits(A!WindowOf(ip, a), let[a], promise[a], now)
  BY <1>2, EmptyTable, NewAddressFits
<1> QED BY <1>1, <1>2, <1>3, <1>4, <1>5, <1>6, EmptyTable DEF RequestsInv

(* No address gets more than its share of a window, one that waits as long  *)
(* as it was told to is let in, and every answer is honest.                 *)
LEMMA RequestsSound ==
  ASSUME RequestsInv
  PROVE  A!LimitsAreKept /\ A!AnswersAreHonest
<1>1. ASSUME NEW a \in A!Addresses, NEW i \in DOMAIN let[a]
      PROVE  A!Cardinality({j \in DOMAIN let[a] : /\ let[a][i] - Window < let[a][j]
                                                  /\ let[a][j] <= let[a][i]}) <= IpLimit
  <2>1. AddressFits(A!WindowOf(ip, a), let[a], promise[a], now) /\ now \in Nat
    BY Clock DEF RequestsInv
  <2>2. let[a] \in Seq(Nat)
    BY <2>1 DEF AddressFits, Ordered
  <2>3. DOMAIN let[a] = 1 .. Len(let[a])
    BY <2>2
  <2>4. Cardinality({j \in DOMAIN let[a] : /\ let[a][i] - Window < let[a][j]
                                           /\ let[a][j] <= let[a][i]}) <= IpLimit
    BY <2>1, <2>3, ShareIsKept
  <2> QED BY <2>4, SameCountOfRequests
<1>2. ASSUME NEW a \in A!Addresses, promise[a] # 0, now >= promise[a]
      PROVE  A!consume(ip, a, IpLimit, now).allowed
  <2>1. /\ AddressFits(A!WindowOf(ip, a), let[a], promise[a], now) /\ now \in Nat
        /\ TableFits(ip, A!Addresses) /\ Len(ip) <= MaxKeys
    BY Clock DEF RequestsInv
  <2>2. Len(A!Live(A!WindowOf(ip, a), now)) < IpLimit
    BY <1>2, <2>1, PromiseIsKept
  <2>3. \A i \in 1 .. Len(A!WindowOf(ip, a)) : A!WindowOf(ip, a)[i] <= now
    <3> DEFINE ts == A!WindowOf(ip, a)  hits == let[a]
    <3>1. AddressFits(ts, hits, promise[a], now)
      BY <2>1
    <3> HIDE DEF ts, hits
    <3>2. \A i \in 1 .. Len(ts) : Len(hits) - Len(ts) + i \in 1 .. Len(hits)
      BY <3>1 DEF AddressFits, Ordered
    <3>3. \A i \in 1 .. Len(ts) : ts[i] <= now
      BY <3>1, <3>2 DEF AddressFits
    <3> QED BY <3>3 DEF ts
  <2>4. A!consume(ip, a, IpLimit, now).allowed <=> Len(A!Live(A!WindowOf(ip, a), now)) < IpLimit
    BY <2>1, <2>3, Limits, ConsumeFits
  <2> QED BY <2>2, <2>4
<1> QED BY <1>1, <1>2 DEF A!LimitsAreKept, RequestsInv

(* A step that leaves the tables and the clock alone.                        *)
LEMMA TablesStay ==
  ASSUME RequestsInv, UNCHANGED <<scenario, now, ip, user, let, promise>>,
         flight' \in Flights(scenario), A!AnswersAreHonest'
  PROVE  RequestsInv'
<1>1. \A k : A!WindowOf(ip, k)' = A!WindowOf(ip, k) /\ A!WindowOf(user, k)' = A!WindowOf(user, k)
  BY DEF A!WindowOf, A!Of
<1> QED BY <1>1 DEF RequestsInv, TableFits

(* The requests on their way.                                               *)
LEMMA FlightFits ==
  ASSUME RequestsInv
  PROVE  /\ flight = [left |-> flight.left, restarts |-> flight.restarts, open |-> flight.open]
         /\ flight.left \in Nat /\ flight.restarts \in Nat
         /\ flight.open \subseteq [sender: scenario.senders, pc: {"account", "handler"}]
BY DEF RequestsInv, Flights

(* The clock goes on.                                                       *)
LEMMA TickKeeps ==
  ASSUME RequestsInv, A!Tick
  PROVE  RequestsInv'
<1>1. /\ now \in Nat /\ now < MaxTime /\ now' = now + 1 /\ MaxTime \in Nat
      /\ UNCHANGED <<scenario, ip, user, flight, let, promise, seen>>
  BY Clock DEF A!Tick
<1>2. now' \in 0 .. MaxTime
  BY <1>1
<1>3. \A a \in A!Addresses : AddressFits(A!WindowOf(ip, a), let[a], promise[a], now + 1)
  BY <1>1, LaterFits DEF RequestsInv
<1>4. \A u \in Users : \A i \in 1 .. Len(A!WindowOf(user, u)) : A!WindowOf(user, u)[i] <= now + 1
  <2> TAKE u \in Users
  <2> DEFINE ts == A!WindowOf(user, u)
  <2>1. ts \in Ordered
    BY WindowIs DEF RequestsInv
  <2>2. \A i \in 1 .. Len(ts) : ts[i] <= now
    BY DEF RequestsInv
  <2> HIDE DEF ts
  <2>3. \A i \in 1 .. Len(ts) : ts[i] <= now + 1
    BY <1>1, <2>1, <2>2 DEF Ordered
  <2> QED BY <2>3 DEF ts
<1>5. \A k : A!WindowOf(ip, k)' = A!WindowOf(ip, k) /\ A!WindowOf(user, k)' = A!WindowOf(user, k)
  BY <1>1 DEF A!WindowOf, A!Of
<1>6. A!AnswersAreHonest'
  BY <1>1 DEF RequestsInv, A!AnswersAreHonest
<1> QED BY <1>1, <1>2, <1>3, <1>4, <1>5, <1>6 DEF RequestsInv, TableFits

(* A restart forgets the tables, and with them what was known.              *)
LEMMA RestartKeeps ==
  ASSUME RequestsInv, A!Restart
  PROVE  RequestsInv'
<1>1. /\ ip' = << >> /\ user' = << >> /\ UNCHANGED <<scenario, now, active, seen>>
      /\ let' = [a \in A!Addresses |-> << >>] /\ promise' = [a \in A!Addresses |-> 0]
      /\ flight' = [flight EXCEPT !.restarts = @ - 1, !.open = {}] /\ flight.restarts > 0
      /\ now \in Nat
  BY Clock DEF A!Restart
<1>2. flight' \in Flights(scenario)
  <2>1. flight' = [left |-> flight.left, restarts |-> flight.restarts - 1, open |-> {}]
    BY <1>1, FlightFits
  <2>2. flight.restarts - 1 \in Nat
    BY <1>1, FlightFits
  <2> QED BY <2>1, <2>2, FlightFits DEF Flights
<1>3. \A k : A!WindowOf(ip', k) = << >> /\ A!WindowOf(user', k) = << >>
  BY <1>1, EmptyTable
<1>4. \A a \in A!Addresses : AddressFits(A!WindowOf(ip', a), let'[a], promise'[a], now)
  BY <1>1, <1>3, NewAddressFits
<1>5. A!AnswersAreHonest'
  BY <1>1 DEF RequestsInv, A!AnswersAreHonest
<1>6. /\ TableFits(ip', A!Addresses) /\ Len(ip') <= MaxKeys
      /\ TableFits(user', Users) /\ Len(user') <= MaxKeys
  BY <1>1, EmptyTable
<1>7. \A u \in Users : \A i \in 1 .. Len(A!WindowOf(user', u)) : A!WindowOf(user', u)[i] <= now
  BY <1>3
<1> QED BY <1>1, <1>2, <1>4, <1>5, <1>6, <1>7 DEF RequestsInv

(* A handler answers.                                                       *)
LEMMA HandleKeeps ==
  ASSUME RequestsInv, NEW f \in flight.open, NEW e \in A!Outcomes, NEW torn \in BOOLEAN,
         A!Handle(f, e, torn)
  PROVE  RequestsInv'
<1>1. /\ UNCHANGED <<scenario, now, ip, user, active, let, promise>>
      /\ flight' = [flight EXCEPT !.open = @ \ {f}]
      /\ seen' = IF e.type = "data" THEN [kind |-> "data"] ELSE A!Reply(torn, e)
  BY DEF A!Handle
<1>2. flight' \in Flights(scenario)
  <2>1. flight' = [left |-> flight.left, restarts |-> flight.restarts, open |-> flight.open \ {f}]
    BY <1>1, FlightFits
  <2> QED BY <2>1, FlightFits DEF Flights
<1>3. A!AnswersAreHonest'
  <2>1. CASE e.type = "data"
    BY <1>1, <2>1 DEF A!AnswersAreHonest
  <2>2. CASE e.type # "data"
    <3>1. e \in A!Exceptions
      BY <2>2 DEF A!Outcomes
    <3>2. A!Reply(torn, e).read.code \in {A!Reply(torn, e).raised, "internal"}
      BY <3>1, RepliesAreHonest
    <3> QED BY <1>1, <2>2, <3>2 DEF A!AnswersAreHonest
  <2> QED BY <2>1, <2>2
<1> QED BY <1>1, <1>2, <1>3, TablesStay

(* An account is disabled.                                                  *)
LEMMA DisableKeeps ==
  ASSUME RequestsInv, NEW u, A!Disable(u)
  PROVE  RequestsInv'
<1>1. UNCHANGED <<scenario, now, ip, user, flight, let, promise, seen>>
  BY DEF A!Disable
<1>2. flight' \in Flights(scenario) /\ A!AnswersAreHonest'
  BY <1>1 DEF RequestsInv, A!AnswersAreHonest
<1> QED BY <1>1, <1>2, TablesStay

(* An answer of a guard is honest.                                          *)
LEMMA AnsweredIsHonest ==
  ASSUME NEW e \in {A!ApiError("unauthorized", A!Null), A!ApiError("rate_limited", "retry"),
                    A!ApiError("unavailable", A!Null)},
         A!Answered(e)
  PROVE  A!AnswersAreHonest'
<1>1. seen' = A!Reply(FALSE, e)
  BY DEF A!Answered
<1>2. A!Reply(FALSE, e).read.code \in {A!Reply(FALSE, e).raised, "internal"}
  BY RepliesAreHonest
<1> QED BY <1>1, <1>2 DEF A!AnswersAreHonest

(* A request passes the limit of its user, or is told to wait.              *)
LEMMA AdmitKeeps ==
  ASSUME RequestsInv, NEW f \in flight.open, NEW settings \in BOOLEAN, A!Admit(f, settings)
  PROVE  RequestsInv'
<1> DEFINE key == f.sender.payload.user
           d == A!consume(user, key, UserLimit, now)
<1>1. f \in [sender: scenario.senders, pc: {"account", "handler"}] /\ f.sender \in scenario.senders
  BY FlightFits
<1>2. key \in Users
  <2>1. f.sender.payload \in A!Payload
    BY <1>1, WebAssumption DEF WebAssumption, RequestsInv
  <2> QED BY <2>1 DEF A!Payload, Users
<1>3. UNCHANGED <<scenario, now, ip, active, let, promise>> /\ user' \in {user, d.table}
  BY DEF A!Admit
<1>4. flight' \in Flights(scenario)
  <2>1. \E X : X \subseteq [sender: scenario.senders, pc: {"account", "handler"}]
               /\ flight' = [flight EXCEPT !.open = X]
    <3>1. /\ flight.open \ {f} \subseteq [sender: scenario.senders, pc: {"account", "handler"}]
          /\ (flight.open \ {f}) \cup {[sender |-> f.sender, pc |-> "handler"]}
               \subseteq [sender: scenario.senders, pc: {"account", "handler"}]
      BY <1>1, FlightFits
    <3>2. \/ flight' = [flight EXCEPT !.open = flight.open \ {f}]
          \/ flight' = [flight EXCEPT !.open =
               (flight.open \ {f}) \cup {[sender |-> f.sender, pc |-> "handler"]}]
      BY DEF A!Admit
    <3> QED BY <3>1, <3>2
  <2>2. PICK X : X \subseteq [sender: scenario.senders, pc: {"account", "handler"}]
               /\ flight' = [flight EXCEPT !.open = X]
    BY <2>1
  <2>3. flight' = [left |-> flight.left, restarts |-> flight.restarts, open |-> X]
    BY <2>2, FlightFits
  <2> QED BY <2>2, <2>3, FlightFits DEF Flights
<1>5. A!AnswersAreHonest'
  <2>1. CASE seen' = seen
    BY <2>1 DEF RequestsInv, A!AnswersAreHonest
  <2>2. CASE \E e \in {A!ApiError("unauthorized", A!Null), A!ApiError("rate_limited", "retry"),
                       A!ApiError("unavailable", A!Null)} : A!Answered(e)
    BY <2>2, AnsweredIsHonest
  <2> QED BY <2>1, <2>2 DEF A!Admit
<1>6. CASE user' = user
  BY <1>3, <1>4, <1>5, <1>6, TablesStay
<1>7. CASE user' = d.table
  <2> DEFINE w == A!Live(A!WindowOf(user, key), now)
             ts == IF d.allowed THEN Append(w, now) ELSE w
  <2>1. /\ TableFits(user, Users) /\ Len(user) <= MaxKeys /\ now \in Nat
        /\ \A i \in 1 .. Len(A!WindowOf(user, key)) : A!WindowOf(user, key)[i] <= now
    BY <1>2, Clock DEF RequestsInv
  <2>2. /\ TableFits(d.table, Users) /\ Len(d.table) <= MaxKeys
        /\ \A k, us : Has(d.table, k, us) => IF k = key THEN us = ts ELSE Has(user, k, us)
    BY <1>2, <2>1, Limits, ConsumeFits
  <2>3. w \in Seq(Nat) /\ \A i \in 1 .. Len(w) : w[i] <= now
    <3> DEFINE old == A!WindowOf(user, key)
    <3>1. old \in Ordered /\ \A i \in 1 .. Len(old) : old[i] <= now
      BY <2>1, WindowIs
    <3> HIDE DEF old
    <3>2. /\ w \in Seq(Nat) /\ Len(w) = Len(old) - A!Past(old, now)
          /\ \A i \in 1 .. Len(w) : w[i] = old[A!Past(old, now) + i]
      BY <2>1, <3>1, LiveIsASuffix DEF old
    <3>3. A!Past(old, now) \in 0 .. Len(old)
      BY <2>1, <3>1, PastIsAPrefix
    <3>5. Len(old) \in Nat
      BY <3>1 DEF Ordered
    <3> HIDE DEF w
    <3>4. \A i \in 1 .. Len(w) : A!Past(old, now) + i \in 1 .. Len(old)
      BY <3>2, <3>3, <3>5
    <3> QED BY <3>1, <3>2, <3>4
  <2> HIDE DEF w
  <2>4. \A i \in 1 .. Len(ts) : ts[i] <= now
    <3>1. CASE d.allowed
      <4> DEFINE v == Append(w, now)
      <4>1. Len(w) \in Nat /\ Len(v) = Len(w) + 1 /\ v[Len(w) + 1] = now
            /\ \A i \in 1 .. Len(w) : v[i] = w[i]
        BY <2>1, <2>3
      <4>2. ts = v
        BY <3>1
      <4> HIDE DEF v, ts
      <4>3. \A i \in 1 .. Len(v) : i \in 1 .. Len(w) \/ i = Len(w) + 1
        BY <4>1
      <4>4. \A i \in 1 .. Len(v) : v[i] <= now
        <5> TAKE i \in 1 .. Len(v)
        <5>1. CASE i \in 1 .. Len(w)
          BY <2>3, <4>1, <5>1
        <5>2. CASE i = Len(w) + 1
          BY <2>1, <4>1, <5>2
        <5> QED BY <4>3, <5>1, <5>2
      <4> QED BY <4>2, <4>4
    <3>2. CASE ~d.allowed
      BY <2>3, <3>2
    <3> QED BY <3>1, <3>2
  <2> HIDE DEF ts, d
  <2>5. ASSUME NEW u \in Users
        PROVE  \A i \in 1 .. Len(A!WindowOf(d.table, u)) : A!WindowOf(d.table, u)[i] <= now
    <3> DEFINE us == A!WindowOf(d.table, u)
    <3>1. us = << >> \/ Has(d.table, u, us)
      BY <2>2, WindowIs
    <3>2. us = << >> \/ us = ts \/ Has(user, u, us)
      BY <2>2, <3>1
    <3>3. Has(user, u, us) => us = A!WindowOf(user, u)
      BY <2>1, WindowIs
    <3>4. \A i \in 1 .. Len(A!WindowOf(user, u)) : A!WindowOf(user, u)[i] <= now
      BY DEF RequestsInv
    <3> HIDE DEF us
    <3>5. CASE us = << >>
      BY <3>5 DEF us
    <3>6. CASE us = ts
      BY <2>4, <3>6 DEF us
    <3>7. CASE Has(user, u, us)
      BY <3>3, <3>4, <3>7 DEF us
    <3> QED BY <3>2, <3>5, <3>6, <3>7
  <2>6. \A k : A!WindowOf(ip, k)' = A!WindowOf(ip, k)
    BY <1>3 DEF A!WindowOf, A!Of
  <2>7. /\ scenario' \in RequestScenarios /\ now' \in 0 .. MaxTime
        /\ TableFits(ip', A!Addresses) /\ Len(ip') <= MaxKeys
        /\ DOMAIN let' = A!Addresses /\ DOMAIN promise' = A!Addresses
        /\ \A a \in A!Addresses : AddressFits(A!WindowOf(ip, a)', let'[a], promise'[a], now')
    BY <1>3, <2>6 DEF RequestsInv
  <2>8. /\ TableFits(user', Users) /\ Len(user') <= MaxKeys /\ now' = now
        /\ \A u \in Users : \A i \in 1 .. Len(A!WindowOf(user', u)) : A!WindowOf(user', u)[i] <= now
    BY <1>3, <1>7, <2>2, <2>5
  <2>9. flight' \in Flights(scenario')
    BY <1>3, <1>4
  <2> QED BY <1>5, <2>7, <2>8, <2>9 DEF RequestsInv
<1> QED BY <1>3, <1>6, <1>7

(* A request passes the limit of its address, or is told to wait.           *)
LEMMA ArriveKeeps ==
  ASSUME RequestsInv, NEW s \in scenario.senders, A!Arrive(s)
  PROVE  RequestsInv'
<1> DEFINE key == s.address
           old == A!WindowOf(ip, key)
           d == A!consume(ip, key, IpLimit, now)
           w == A!Live(old, now)
           ts == IF d.allowed THEN Append(w, now) ELSE w
<1>1. key \in A!Addresses /\ now \in Nat
  BY Clock, WebAssumption DEF WebAssumption, RequestsInv
<1>2. /\ UNCHANGED <<scenario, now, user, active>> /\ ip' = d.table
      /\ let' = [a \in A!Addresses |->
                   IF \A i \in DOMAIN d.table : d.table[i][1] # a THEN << >>
                   ELSE IF a = key /\ d.allowed THEN Append(let[a], now) ELSE let[a]]
      /\ promise' = [promise EXCEPT ![key] = IF d.allowed THEN 0 ELSE now + d.retry]
  BY DEF A!Arrive
<1>3. AddressFits(old, let[key], promise[key], now) /\ TableFits(ip, A!Addresses)
      /\ Len(ip) <= MaxKeys
  BY <1>1 DEF RequestsInv
<1>4. \A i \in 1 .. Len(old) : old[i] <= now
  <2> DEFINE hits == let[key]
  <2>1. AddressFits(old, hits, promise[key], now)
    BY <1>3
  <2> HIDE DEF old, hits
  <2>2. \A i \in 1 .. Len(old) : Len(hits) - Len(old) + i \in 1 .. Len(hits)
    BY <2>1 DEF AddressFits, Ordered
  <2> QED BY <2>1, <2>2 DEF AddressFits
<1>5. /\ (d.allowed <=> Len(w) < IpLimit) /\ d.allowed \in BOOLEAN
      /\ TableFits(d.table, A!Addresses) /\ Len(d.table) <= MaxKeys
      /\ \A k, us : Has(d.table, k, us) => IF k = key THEN us = ts ELSE Has(ip, k, us)
      /\ ~d.allowed => d.retry \in Nat \ {0} /\ w[1] + Window <= now + d.retry
  BY <1>1, <1>3, <1>4, Limits, ConsumeFits
<1>6. w \in Ordered
  <2>1. old \in Ordered
    BY <1>3, WindowIs
  <2> HIDE DEF old
  <2>2. /\ w \in Seq(Nat) /\ Len(w) = Len(old) - A!Past(old, now)
        /\ \A i \in 1 .. Len(w) : w[i] = old[A!Past(old, now) + i]
    BY <1>1, <2>1, LiveIsASuffix
  <2>3. A!Past(old, now) \in 0 .. Len(old)
    BY <1>1, <2>1, PastIsAPrefix
  <2>4. Len(old) \in Nat /\ \A i, j \in 1 .. Len(old) : i <= j => old[i] <= old[j]
    BY <2>1 DEF Ordered
  <2> DEFINE p == A!Past(old, now)
  <2> HIDE DEF w, p
  <2>5. \A i, j \in 1 .. Len(w) : i <= j => w[i] <= w[j]
    <3> TAKE i, j \in 1 .. Len(w)
    <3> HAVE i <= j
    <3>1. p + i \in 1 .. Len(old) /\ p + j \in 1 .. Len(old) /\ p + i <= p + j
      BY <2>2, <2>3, <2>4 DEF p
    <3>2. w[i] = old[p + i] /\ w[j] = old[p + j]
      BY <2>2 DEF p
    <3> QED BY <2>4, <3>1, <3>2
  <2> QED BY <2>2, <2>5 DEF Ordered
<1>7. d.allowed => /\ Append(w, now) \in Ordered
                   /\ AddressFits(ts, Append(let[key], now), 0, now)
  <2> SUFFICES ASSUME d.allowed
               PROVE  /\ Append(w, now) \in Ordered
                      /\ AddressFits(ts, Append(let[key], now), 0, now)
    OBVIOUS
  <2>1. ts = Append(w, now) /\ Len(w) < IpLimit
    BY <1>5
  <2>2. \A i \in 1 .. Len(w) : w[i] <= now
    <3> DEFINE hits == let[key]
               p == promise[key]
    <3>0. AddressFits(old, hits, p, now) /\ now \in Nat
      BY <1>1, <1>3
    <3> HIDE DEF old, p, hits
    <3>1. /\ w \in Seq(Nat) /\ Len(w) \in Nat /\ Len(w) <= Len(hits)
          /\ \A i \in 1 .. Len(w) : w[i] = hits[Len(hits) - Len(w) + i]
      BY <3>0, LiveOfAddress
    <3> USE DEF hits
    <3>2. \A i \in 1 .. Len(hits) : hits[i] <= now
      BY <1>3 DEF AddressFits
    <3>3. Len(hits) \in Nat
      BY <1>3 DEF AddressFits, Ordered
    <3> HIDE DEF w, hits
    <3>4. \A i \in 1 .. Len(w) : Len(hits) - Len(w) + i \in 1 .. Len(hits)
      BY <3>1, <3>3
    <3> QED BY <3>1, <3>2, <3>4
  <2>3. Append(w, now) \in Ordered
    <3> DEFINE v == Append(w, now)
    <3> HIDE DEF w
    <3>1. w \in Seq(Nat) /\ Len(w) \in Nat /\ \A i, j \in 1 .. Len(w) : i <= j => w[i] <= w[j]
      BY <1>6 DEF Ordered
    <3>2. /\ v \in Seq(Nat) /\ Len(v) = Len(w) + 1 /\ v[Len(w) + 1] = now
          /\ \A i \in 1 .. Len(w) : v[i] = w[i]
      BY <1>1, <3>1
    <3> HIDE DEF v
    <3>3. \A i, j \in 1 .. Len(v) : i <= j => v[i] <= v[j]
      <4> TAKE i, j \in 1 .. Len(v)
      <4> HAVE i <= j
      <4>1. CASE j \in 1 .. Len(w)
        <5>1. i \in 1 .. Len(w)
          BY <3>1, <3>2, <4>1
        <5> QED BY <3>1, <3>2, <4>1, <5>1
      <4>2. CASE j \notin 1 .. Len(w)
        <5>1. j = Len(w) + 1 /\ (i \in 1 .. Len(w) \/ i = Len(w) + 1)
          BY <3>1, <3>2, <4>2
        <5>2. CASE i \in 1 .. Len(w)
          BY <2>2, <3>2, <5>1, <5>2
        <5>3. CASE i = Len(w) + 1
          BY <1>1, <3>2, <5>1, <5>3
        <5> QED BY <5>1, <5>2, <5>3
      <4> QED BY <4>1, <4>2
    <3> QED BY <3>2, <3>3 DEF Ordered, v
  <2> HIDE DEF ts
  <2>4. AddressFits(Append(w, now), Append(let[key], now), 0, now)
    BY <1>1, <1>3, <2>1, <2>3, AdmittedFits
  <2> QED BY <2>1, <2>3, <2>4
<1>8. ~d.allowed => AddressFits(ts, let[key], now + d.retry, now)
  <2> SUFFICES ASSUME ~d.allowed PROVE AddressFits(ts, let[key], now + d.retry, now)
    OBVIOUS
  <2>1. ts = w /\ d.retry \in Nat /\ w[1] + Window <= now + d.retry
    BY <1>5
  <2>2. now + d.retry \in Nat
    BY <1>1, <2>1
  <2> HIDE DEF ts, d
  <2>3. AddressFits(w, let[key], now + d.retry, now)
    BY <1>1, <1>3, <1>6, <2>1, <2>2, RefusedFits
  <2> QED BY <2>1, <2>3
<1>9. promise'[key] \in Nat /\ promise'[key] = IF d.allowed THEN 0 ELSE now + d.retry
  <2>1. promise'[key] = IF d.allowed THEN 0 ELSE now + d.retry
    BY <1>1, <1>2 DEF RequestsInv
  <2>2. ~d.allowed => d.retry \in Nat
    BY <1>5
  <2> HIDE DEF d
  <2> QED BY <1>1, <2>1, <2>2
<1> HIDE DEF d, ts, w, old
<1>10. ASSUME NEW a \in A!Addresses
       PROVE  AddressFits(A!WindowOf(d.table, a), let'[a], promise'[a], now)
  <2> DEFINE us == A!WindowOf(d.table, a)
  <2>0. promise[a] \in Nat /\ (a # key => promise'[a] = promise[a])
    <3>1. AddressFits(A!WindowOf(ip, a), let[a], promise[a], now)
      BY DEF RequestsInv
    <3>2. promise[a] \in Nat
      BY <3>1 DEF AddressFits
    <3> QED BY <1>2, <3>2 DEF RequestsInv
  <2>1. CASE A!Of(d.table, a) = {}
    <3>1. us = << >>
      BY <2>1 DEF A!WindowOf
    <3>2. let'[a] = << >>
      BY <1>2, <2>1 DEF A!Of
    <3>3. promise'[a] \in Nat
      BY <1>9, <2>0
    <3> QED BY <1>1, <3>1, <3>2, <3>3, NewAddressFits
  <2>2. CASE A!Of(d.table, a) # {}
    <3>1. Has(d.table, a, us)
      BY <1>5, <2>2, WindowIs
    <3>2. let'[a] = IF a = key /\ d.allowed THEN Append(let[a], now) ELSE let[a]
      BY <1>2, <2>2 DEF A!Of
    <3> HIDE DEF us
    <3>3. CASE a = key
      <4>1. us = ts
        BY <1>5, <3>1, <3>3
      <4>2. CASE d.allowed
        BY <1>7, <1>9, <3>2, <3>3, <4>1, <4>2 DEF us
      <4>3. CASE ~d.allowed
        BY <1>8, <1>9, <3>2, <3>3, <4>1, <4>3 DEF us
      <4> QED BY <4>2, <4>3
    <3>4. CASE a # key
      <4>1. Has(ip, a, us)
        BY <1>5, <3>1, <3>4
      <4>2. us = A!WindowOf(ip, a)
        BY <1>3, <4>1, WindowIs
      <4>3. AddressFits(A!WindowOf(ip, a), let[a], promise[a], now)
        BY DEF RequestsInv
      <4> QED BY <2>0, <3>2, <3>4, <4>2, <4>3 DEF us
    <3> QED BY <3>3, <3>4
  <2> QED BY <2>1, <2>2
<1>11. flight' \in Flights(scenario)
  <2>1. flight.left > 0
    BY DEF A!Arrive
  <2>2. \/ flight' = [flight EXCEPT !.left = flight.left - 1,
                        !.open = flight.open \cup {[sender |-> s, pc |-> "account"]}]
        \/ flight' = [flight EXCEPT !.left = flight.left - 1]
    BY DEF A!Arrive
  <2>3. \/ flight' = [left |-> flight.left - 1, restarts |-> flight.restarts,
                      open |-> flight.open \cup {[sender |-> s, pc |-> "account"]}]
        \/ flight' = [left |-> flight.left - 1, restarts |-> flight.restarts,
                      open |-> flight.open]
    BY <2>2, FlightFits
  <2>4. flight.left - 1 \in Nat
        /\ flight.open \cup {[sender |-> s, pc |-> "account"]}
             \subseteq [sender: scenario.senders, pc: {"account", "handler"}]
    BY <2>1, FlightFits
  <2> QED BY <2>3, <2>4, FlightFits DEF Flights
<1>12. A!AnswersAreHonest'
  <2>1. CASE seen' = seen
    BY <2>1 DEF RequestsInv, A!AnswersAreHonest
  <2>2. CASE \E e \in {A!ApiError("unauthorized", A!Null), A!ApiError("rate_limited", "retry"),
                       A!ApiError("unavailable", A!Null)} : A!Answered(e)
    BY <2>2, AnsweredIsHonest
  <2> QED BY <2>1, <2>2 DEF A!Arrive
<1>13. \A k : A!WindowOf(user, k)' = A!WindowOf(user, k)
  BY <1>2 DEF A!WindowOf, A!Of
<1>14. /\ scenario' \in RequestScenarios /\ now' \in 0 .. MaxTime
       /\ TableFits(user', Users) /\ Len(user') <= MaxKeys
       /\ \A u \in Users : \A i \in 1 .. Len(A!WindowOf(user, u)') : A!WindowOf(user, u)'[i] <= now'
  BY <1>2, <1>13 DEF RequestsInv
<1>15. DOMAIN let' = A!Addresses /\ DOMAIN promise' = A!Addresses
  BY <1>2 DEF RequestsInv
<1>16. /\ TableFits(ip', A!Addresses) /\ Len(ip') <= MaxKeys
       /\ \A a \in A!Addresses : AddressFits(A!WindowOf(ip', a), let'[a], promise'[a], now')
  BY <1>2, <1>5, <1>10
<1>17. flight' \in Flights(scenario')
  BY <1>2, <1>11
<1> QED BY <1>12, <1>14, <1>15, <1>16, <1>17 DEF RequestsInv

(* Every step keeps what the server keeps.                                  *)
LEMMA RequestsStep ==
  ASSUME RequestsInv, A!Next
  PROVE  RequestsInv'
BY ArriveKeeps, AdmitKeeps, HandleKeeps, DisableKeeps, TickKeeps, RestartKeeps DEF A!Next

(* A step of another world keeps it.                                        *)
LEMMA RequestsStay ==
  ASSUME RequestsInv, UNCHANGED A!vars
  PROVE  RequestsInv'
<1>1. UNCHANGED <<scenario, now, ip, user, flight, active, let, promise, seen>>
  BY DEF A!vars
<1>2. flight' \in Flights(scenario) /\ A!AnswersAreHonest'
  BY <1>1 DEF RequestsInv, A!AnswersAreHonest
<1> QED BY <1>1, <1>2, TablesStay

(* Every variable of the server has its type.                               *)
LEMMA RequestsTyped ==
  ASSUME RequestsInv
  PROVE  A!TypeOK
<1>1. /\ scenario \in RequestScenarios /\ now \in 0 .. MaxTime
      /\ Len(ip) <= MaxKeys /\ Len(user) <= MaxKeys
  BY DEF RequestsInv
<1>2. \A s \in scenario.senders : s.payload \in A!Payload
  BY <1>1, WebAssumption DEF WebAssumption
<1>3. DOMAIN ip = 1 .. Len(ip) /\ \A i, j \in 1 .. Len(ip) : ip[i][1] = ip[j][1] => i = j
  BY DEF RequestsInv, TableFits
<1> QED BY <1>1, <1>2, <1>3 DEF A!TypeOK

------------------------------------------------------------------------------
(* The cache of the app.                                                    *)

(* The sets below are of a scenario, sc.                                     *)
PagesOf(sc) == DOMAIN sc.pages
RowsIn(sc) == UNION {sc.pages[p] : p \in DOMAIN sc.pages}
SlotsOf(sc) == 1 .. sc.slots
PageData(sc, p) == {Q!NoData} \cup [sc.pages[p] -> Q!RowValue]
AnyData(sc) == {Q!NoData} \cup UNION {[sc.pages[p] -> Q!RowValue] : p \in PagesOf(sc)}
PageFlights(sc) == SlotsOf(sc) \cup {0}
SeenRec(sc) ==
  [status: {"loading", "success", "error"}, data: AnyData(sc), refreshing: BOOLEAN]
EntryRec(sc) == [there: BOOLEAN, epoch: Nat, flight: PageFlights(sc), seen: SeenRec(sc)]
ReadRec(sc) ==
  [step: {"none", "sent", "answered"}, page: PagesOf(sc) \cup {0}, epoch: Nat, tries: Nat,
   snap: AnyData(sc), kept: AnyData(sc)]
Befores(sc) == UNION {[X -> SeenRec(sc)] : X \in SUBSET PagesOf(sc)}
WriteRec(sc) ==
  [step: {"none", "sent", "written", "refused"}, kind: {"none", "tap", "undo"},
   row: RowsIn(sc) \cup {0}, set: BOOLEAN, version: Nat, before: Befores(sc),
   answer: Q!RowValue \cup {0}]
OfferRec(sc) == [row: RowsIn(sc) \cup {0}, set: BOOLEAN, version: Nat]

(* What a page shows is of its rows, and a skeleton shows nothing.           *)
SeenFits(sc, p, s) ==
  /\ s \in SeenRec(sc) /\ s.data \in PageData(sc, p)
  /\ s.status = "loading" => s.data = Q!NoData
EntryFits(sc, open, p, e) ==
  /\ e \in EntryRec(sc) /\ SeenFits(sc, p, e.seen)
  /\ ~e.there => e.seen.data = Q!NoData
  /\ open => e.there /\ (e.seen.status = "loading" => e.flight # 0)
ReadFits(sc, given, r) ==
  /\ r \in ReadRec(sc)
  /\ r.step # "none" => r.page \in PagesOf(sc) /\ r.kept \in PageData(sc, r.page)
  /\ r.step = "answered" =>
       /\ r.snap \in [sc.pages[r.page] -> Q!RowValue]
       /\ \A x \in sc.pages[r.page] : r.snap[x] \in given[x]
WriteFits(sc, given, w) ==
  /\ w \in WriteRec(sc)
  /\ w.step # "none" =>
       /\ w.row \in RowsIn(sc)
       /\ \A p \in DOMAIN w.before : p \in PagesOf(sc) /\ SeenFits(sc, p, w.before[p])
                                      /\ w.before[p].data # Q!NoData
  /\ w.step = "written" =>
       /\ w.answer \in given[w.row] /\ w.answer \in Q!RowValue
       /\ sc.versioned => w.answer = [set |-> w.set, version |-> w.version + 1]
ServerFits ==
  /\ scenario \in QueryScenarios
  /\ server \in [RowsIn(scenario) -> Q!RowValue]
  /\ committed \in [RowsIn(scenario) -> SUBSET Q!RowValue]
  /\ \A r \in RowsIn(scenario) : server[r] \in committed[r]
  /\ spent \in [Q!Kinds -> Nat]
  /\ watching \in BOOLEAN
  /\ snackbar \in OfferRec(scenario)
  /\ snackbar # Q!NoOffer => snackbar.row \in RowsIn(scenario)
EntriesFit ==
  /\ DOMAIN entries = PagesOf(scenario)
  /\ \A p \in PagesOf(scenario) : EntryFits(scenario, watching, p, entries[p])
ReadsFit ==
  /\ DOMAIN reads = SlotsOf(scenario)
  /\ \A i \in SlotsOf(scenario) : ReadFits(scenario, committed, reads[i])
WritesFit ==
  /\ DOMAIN writes = SlotsOf(scenario)
  /\ \A i \in SlotsOf(scenario) : WriteFits(scenario, committed, writes[i])

(* With one write at a time: what is shown was so, or is the patch of the    *)
(* one tap that is on its way, and what may come back was so.                *)
Alone == ~scenario.overlap /\ spent["races"] = 0
So(given, r, v) == Q!WasSo(v, given[r])
ByTap(ws, p, r, v) ==
  \E i \in DOMAIN ws :
    /\ ws[i].step # "none" /\ ws[i].kind = "tap"
    /\ p \in DOMAIN ws[i].before /\ ws[i].row = r
    /\ v.set = ws[i].set /\ v.version = ws[i].version
DataIsSo(sc, given, p, data) ==
  data # Q!NoData => \A r \in sc.pages[p] : So(given, r, data[r])
DataOrTap(sc, given, ws, p, data) ==
  data # Q!NoData => \A r \in sc.pages[p] : So(given, r, data[r]) \/ ByTap(ws, p, r, data[r])
OneAtATime(ws) ==
  \A i, j \in DOMAIN ws : ws[i].step # "none" /\ ws[j].step # "none" => i = j
ReadIsSo(sc, given, r) == r.step # "none" => DataIsSo(sc, given, r.page, r.kept)
WriteIsSo(sc, given, w) ==
  w.step # "none" => \A p \in DOMAIN w.before : DataIsSo(sc, given, p, w.before[p].data)
CacheIsSo ==
  /\ OneAtATime(writes)
  /\ \A p \in PagesOf(scenario) : DataOrTap(scenario, committed, writes, p, entries[p].seen.data)
  /\ \A i \in SlotsOf(scenario) : /\ ReadIsSo(scenario, committed, reads[i])
                                  /\ WriteIsSo(scenario, committed, writes[i])
CacheInv ==
  /\ ServerFits /\ EntriesFit /\ ReadsFit /\ WritesFit
  /\ Alone => CacheIsSo

(* So when nothing is on its way every row shown was the server's once, and *)
(* a skeleton has a read on its way.                                        *)
LEMMA CacheSound ==
  ASSUME CacheInv
  PROVE  Q!ScreenIsHonest /\ Q!TypeOK
<1>0. Q!Pages = PagesOf(scenario) /\ Q!Rows = RowsIn(scenario) /\ Q!Slots = SlotsOf(scenario)
  BY DEF Q!Pages, Q!Rows, Q!Slots, PagesOf, RowsIn, SlotsOf
<1>1. ASSUME Alone, Q!Quiet, NEW p \in Q!Pages, NEW r \in Q!Rows, Q!Shows(entries[p], r)
      PROVE  Q!WasSo(entries[p].seen.data[r], committed[r])
  <2>1. entries[p].seen.data \in PageData(scenario, p) /\ entries[p].seen.data # Q!NoData
        /\ r \in DOMAIN entries[p].seen.data
    BY <1>0, <1>1 DEF CacheInv, EntriesFit, EntryFits, SeenFits, Q!Shows, Q!HasData
  <2>2. r \in scenario.pages[p]
    BY <2>1 DEF PageData
  <2>3. ~ByTap(writes, p, r, entries[p].seen.data[r])
    BY <1>0, <1>1 DEF ByTap, Q!Quiet, Q!Busy, CacheInv, WritesFit
  <2> QED BY <1>0, <1>1, <2>1, <2>2, <2>3 DEF CacheInv, CacheIsSo, DataOrTap, So
<1>2. watching => \A p \in Q!Pages :
        entries[p].seen.status = "loading" => entries[p].flight # Q!None
  BY <1>0 DEF CacheInv, EntriesFit, EntryFits, Q!None
<1>3. Q!TypeOK
  BY <1>0 DEF CacheInv, ServerFits, EntriesFit, EntryFits, EntryRec, PageFlights, ReadsFit, WritesFit, ReadFits,
     ReadRec, WriteFits, WriteRec, Q!TypeOK, Q!None
<1> QED BY <1>1, <1>2, <1>3 DEF Alone, Q!ScreenIsHonest, Q!RowsAreHonest

(* The cache starts empty.                                                  *)
LEMMA CacheStart == Q!Init => CacheInv
<1> SUFFICES ASSUME Q!Init PROVE CacheInv
  OBVIOUS
<1>0. Q!Pages = PagesOf(scenario) /\ Q!Rows = RowsIn(scenario) /\ Q!Slots = SlotsOf(scenario)
  BY DEF Q!Pages, Q!Rows, Q!Slots, PagesOf, RowsIn, SlotsOf
<1>1. Q!Missing \in SeenRec(scenario) /\ Q!Missing.data = Q!NoData
  BY DEF Q!Missing, SeenRec, AnyData
<1>2. EntriesFit
  BY <1>0, <1>1 DEF Q!Init, EntriesFit, EntryFits, EntryRec, PageFlights, SeenFits, PageData, Q!None
<1>3. ReadsFit /\ \A i \in SlotsOf(scenario) : reads[i].step = "none"
  BY <1>0 DEF Q!Init, ReadsFit, ReadFits, ReadRec, Q!NoRead, Q!None, AnyData
<1>4. WritesFit /\ \A i \in SlotsOf(scenario) : writes[i].step = "none"
  <2>1. [p \in {} |-> Q!Missing] \in Befores(scenario)
    BY DEF Befores
  <2> QED BY <1>0, <2>1 DEF Q!Init, WritesFit, WriteFits, WriteRec, Q!NoWrite, Q!None
<1>5. ServerFits
  <2>1. [set |-> FALSE, version |-> 1] \in Q!RowValue
    BY DEF Q!RowValue
  <2>2. server = [r \in Q!Rows |-> [set |-> FALSE, version |-> 1]]
        /\ committed = [r \in Q!Rows |-> {server[r]}]
    BY DEF Q!Init
  <2>3. Q!NoOffer \in OfferRec(scenario)
    BY DEF OfferRec, Q!NoOffer, Q!None
  <2>4. /\ server \in [RowsIn(scenario) -> Q!RowValue]
        /\ committed \in [RowsIn(scenario) -> SUBSET Q!RowValue]
        /\ \A r \in RowsIn(scenario) : server[r] \in committed[r]
    BY <1>0, <2>1, <2>2
  <2>5. spent \in [Q!Kinds -> Nat]
    BY DEF Q!Init
  <2> QED BY <2>3, <2>4, <2>5 DEF Q!Init, ServerFits
<1>7. CacheIsSo
  <2>1. \A p \in PagesOf(scenario) : entries[p].seen.data = Q!NoData
    BY <1>0, <1>1 DEF Q!Init
  <2> QED BY <1>3, <1>4, <2>1
       DEF CacheIsSo, OneAtATime, DataOrTap, ReadIsSo, WriteIsSo, WritesFit
<1> QED BY <1>2, <1>3, <1>4, <1>5, <1>7 DEF CacheInv

(* A step of another world keeps it.                                        *)
LEMMA CacheStays ==
  ASSUME CacheInv, UNCHANGED Q!vars
  PROVE  CacheInv'
<1>1. /\ scenario' = scenario /\ server' = server /\ committed' = committed
      /\ entries' = entries /\ watching' = watching /\ reads' = reads /\ writes' = writes
      /\ snackbar' = snackbar /\ spent' = spent
  BY DEF Q!vars
<1> QED BY <1>1 DEF CacheInv, ServerFits, EntriesFit, ReadsFit, WritesFit, Alone, CacheIsSo

(* Facts about the parts.                                                    *)
LEMMA PagesAre ==
  /\ Q!Pages = PagesOf(scenario) /\ Q!Rows = RowsIn(scenario) /\ Q!Slots = SlotsOf(scenario)
  /\ Q!Pages' = PagesOf(scenario') /\ Q!Rows' = RowsIn(scenario')
  /\ Q!Slots' = SlotsOf(scenario')
BY DEF Q!Pages, Q!Rows, Q!Slots, PagesOf, RowsIn, SlotsOf

(* What a page holds is of its rows.                                        *)
LEMMA DataOfPage ==
  ASSUME NEW sc, NEW p \in PagesOf(sc), NEW x \in PageData(sc, p)
  PROVE  /\ x \in AnyData(sc) /\ sc.pages[p] \subseteq RowsIn(sc)
         /\ x # Q!NoData => x \in [sc.pages[p] -> Q!RowValue]
BY DEF AnyData, PageData, RowsIn, PagesOf

(* A page nobody has read yet.                                              *)
LEMMA MissingFits ==
  ASSUME NEW sc, NEW p
  PROVE  SeenFits(sc, p, Q!Missing) /\ Q!Missing.data = Q!NoData
BY DEF SeenFits, Q!Missing, SeenRec, AnyData, PageData

(* ensure makes an entry where there is none, and leaves the others alone.  *)
LEMMA EnsuredFits ==
  ASSUME NEW sc, NEW p, NEW e, EntryFits(sc, FALSE, p, e)
  PROVE  /\ EntryFits(sc, FALSE, p, Q!Ensured(e)) /\ Q!Ensured(e).there
         /\ Q!Ensured(e).seen.data \in {e.seen.data, Q!NoData}
         /\ e.there => Q!Ensured(e) = e
<1>1. e \in EntryRec(sc) /\ SeenFits(sc, p, e.seen)
  BY DEF EntryFits
<1>2. CASE e.there
  BY <1>2 DEF Q!Ensured
<1>3. CASE ~e.there
  <2>1. Q!Ensured(e) = [there |-> TRUE, epoch |-> e.epoch + 1, flight |-> 0, seen |-> Q!Missing]
    BY <1>3 DEF Q!Ensured, Q!None
  <2>2. e.epoch + 1 \in Nat
    BY <1>1 DEF EntryRec
  <2> QED BY <1>3, <2>1, <2>2, MissingFits DEF EntryFits, EntryRec, SeenFits, PageFlights
<1> QED BY <1>2, <1>3

(* An entry that is written while a read of it is on its way.               *)
Flying(e, s, f) == [Q!Written(e, s) EXCEPT !.flight = f]
IsThere(x, s, f) == x.there /\ x.seen = s /\ x.flight = f

(* write puts what is seen in the entry (write).                            *)
LEMMA WrittenFits ==
  ASSUME NEW sc, NEW p, NEW e \in EntryRec(sc), NEW s \in SeenRec(sc), NEW f \in PageFlights(sc),
         EntryFits(sc, FALSE, p, e), SeenFits(sc, p, s)
  PROVE  /\ EntryFits(sc, FALSE, p, Q!Written(e, s))
         /\ IsThere(Q!Written(e, s), s, Q!Ensured(e).flight)
         /\ EntryFits(sc, FALSE, p, Flying(e, s, f)) /\ IsThere(Flying(e, s, f), s, f)
<1> DEFINE b == Q!Ensured(e)
<1>1. EntryFits(sc, FALSE, p, b) /\ b.there
  BY EnsuredFits
<1>2. b \in EntryRec(sc)
  BY <1>1 DEF EntryFits
<1>3. Q!Written(e, s) = [b EXCEPT !.seen = s]
  BY DEF Q!Written
<1> HIDE DEF b
<1>4. [b EXCEPT !.seen = s] =
        [there |-> b.there, epoch |-> b.epoch, flight |-> b.flight, seen |-> s]
  BY <1>2 DEF EntryRec
<1>5. Flying(e, s, f) =
        [there |-> b.there, epoch |-> b.epoch, flight |-> f, seen |-> s]
  <2>1. Q!Written(e, s) =
          [there |-> b.there, epoch |-> b.epoch, flight |-> b.flight, seen |-> s]
    BY <1>3, <1>4
  <2> QED BY <2>1 DEF Flying
<1>6. s \in SeenRec(sc)
  BY DEF SeenFits
<1>7. /\ b.there \in BOOLEAN /\ b.epoch \in Nat /\ b.flight \in PageFlights(sc)
  BY <1>2 DEF EntryRec
<1>8. \A g \in PageFlights(sc) :
        [there |-> b.there, epoch |-> b.epoch, flight |-> g, seen |-> s] \in EntryRec(sc)
  BY <1>6, <1>7 DEF EntryRec
<1>9. Q!Ensured(e).flight = b.flight
  BY DEF b
<1> QED BY <1>1, <1>3, <1>4, <1>5, <1>7, <1>8, <1>9 DEF EntryFits, IsThere

(* A page that is read again shows what it showed.                          *)
LEMMA LoadingFits ==
  ASSUME NEW sc, NEW p, NEW s, SeenFits(sc, p, s)
  PROVE  SeenFits(sc, p, Q!Loading(s)) /\ Q!Loading(s).data = s.data
BY DEF SeenFits, SeenRec, Q!Loading, Q!HasData

(* A read that is sent.                                                     *)
LEMMA FreshRead ==
  ASSUME NEW sc, NEW given, NEW p \in PagesOf(sc), NEW n \in Nat
  PROVE  LET r == [Q!NoRead EXCEPT !.step = "sent", !.page = p, !.epoch = n]
         IN ReadFits(sc, given, r) /\ r.kept = Q!NoData
BY DEF ReadFits, ReadRec, Q!NoRead, Q!None, AnyData, PageData

(* A slot without a read.                                                   *)
LEMMA NoReadFits ==
  ASSUME NEW sc, NEW given
  PROVE  ReadFits(sc, given, Q!NoRead) /\ Q!NoRead.step = "none"
BY DEF ReadFits, ReadRec, Q!NoRead, Q!None, AnyData

(* A slot without a write.                                                  *)
LEMMA NoWriteFits ==
  ASSUME NEW sc, NEW given
  PROVE  WriteFits(sc, given, Q!NoWrite) /\ Q!NoWrite.step = "none"
<1>1. [p \in {} |-> Q!Missing] \in Befores(sc)
  BY DEF Befores
<1> QED BY <1>1 DEF WriteFits, WriteRec, Q!NoWrite, Q!None

(* What the server has had only grows, and what was so stays so.             *)
Grows(sc, given, more) == \A x \in RowsIn(sc) : given[x] \subseteq more[x]

(* What was so stays so.                                                    *)
LEMMA StaysSo ==
  ASSUME NEW sc, NEW given, NEW more, Grows(sc, given, more)
  PROVE  /\ \A r : ReadFits(sc, given, r) => ReadFits(sc, more, r)
         /\ \A w : WriteFits(sc, given, w) => WriteFits(sc, more, w)
         /\ \A x \in RowsIn(sc) : \A v : So(given, x, v) => So(more, x, v)
<1>1. ASSUME NEW r, ReadFits(sc, given, r) PROVE ReadFits(sc, more, r)
  <2>1. r.step = "answered" => r.page \in PagesOf(sc)
    BY <1>1 DEF ReadFits
  <2>2. r.step = "answered" => \A x \in sc.pages[r.page] : x \in RowsIn(sc)
    BY <2>1 DEF RowsIn, PagesOf
  <2> QED BY <1>1, <2>2 DEF ReadFits, Grows
<1>2. ASSUME NEW w, WriteFits(sc, given, w) PROVE WriteFits(sc, more, w)
  BY <1>2 DEF WriteFits, Grows
<1>3. ASSUME NEW x \in RowsIn(sc), NEW v, So(given, x, v) PROVE So(more, x, v)
  BY <1>3 DEF So, Q!WasSo, Grows
<1> QED BY <1>1, <1>2, <1>3

(* load sends a read for every page that wants one, and takes no data away  *)
(* from a page (load).                                                      *)
LEMMA LoadsFit ==
  ASSUME EntriesFit, ReadsFit, scenario' = scenario, committed' = committed,
         NEW pages \in SUBSET PagesOf(scenario), NEW force \in BOOLEAN,
         Q!Loads(entries, pages, force)
  PROVE  /\ DOMAIN entries' = PagesOf(scenario)
         /\ \A p \in PagesOf(scenario) :
              /\ EntryFits(scenario, FALSE, p, entries'[p])
              /\ entries'[p].seen.data \in {entries[p].seen.data, Q!NoData}
              /\ p \in pages => EntryFits(scenario, TRUE, p, entries'[p])
              /\ p \notin pages => entries'[p] = entries[p]
         /\ ReadsFit'
         /\ \A i \in SlotsOf(scenario) :
              reads'[i] = reads[i] \/ (reads'[i].kept = Q!NoData /\ reads'[i].step = "sent")
<1> DEFINE wanted == Q!Wants(entries, pages, force)
<1>1. PICK slot \in [wanted -> Q!FreeSlots] :
        /\ entries' = [p \in Q!Pages |->
             IF p \in wanted
             THEN [Q!Written(entries[p], Q!Loading(Q!Ensured(entries[p]).seen)) EXCEPT !.flight = slot[p]]
             ELSE IF p \in pages THEN Q!Ensured(entries[p]) ELSE entries[p]]
        /\ reads' = [i \in Q!Slots |->
             IF \E p \in wanted : slot[p] = i
             THEN LET p == CHOOSE q \in wanted : slot[q] = i
                  IN [Q!NoRead EXCEPT !.step = "sent", !.page = p,
                                    !.epoch = Q!Ensured(entries[p]).epoch]
             ELSE reads[i]]
  BY DEF Q!Loads
<1>2. /\ wanted \subseteq pages
      /\ \A p \in pages : p \in wanted \/ Q!Ensured(entries[p]).flight # 0
                                       \/ Q!Ensured(entries[p]).seen.status = "success"
  BY DEF Q!Wants, Q!None
<1>3. Q!FreeSlots \subseteq SlotsOf(scenario) /\ 0 \notin SlotsOf(scenario)
  BY PagesAre DEF Q!FreeSlots, SlotsOf
<1> HIDE DEF wanted
<1>4. \A p \in PagesOf(scenario) : EntryFits(scenario, FALSE, p, entries[p])
  BY DEF EntriesFit, EntryFits
<1>5. ASSUME NEW p \in PagesOf(scenario)
      PROVE  /\ EntryFits(scenario, FALSE, p, entries'[p])
             /\ entries'[p].seen.data \in {entries[p].seen.data, Q!NoData}
             /\ p \in pages => EntryFits(scenario, TRUE, p, entries'[p])
             /\ p \notin pages => entries'[p] = entries[p]
  <2> DEFINE e == Q!Ensured(entries[p])
  <2>1. /\ EntryFits(scenario, FALSE, p, e) /\ e.there
        /\ e.seen.data \in {entries[p].seen.data, Q!NoData}
    BY <1>4, EnsuredFits
  <2>2. CASE p \in wanted
    <3> DEFINE s == Q!Loading(e.seen)
               f == slot[p]
    <3>1. SeenFits(scenario, p, s) /\ s.data = e.seen.data
      BY <2>1, LoadingFits DEF EntryFits
    <3>2. f \in SlotsOf(scenario) \cup {0} /\ f # 0
      BY <1>1, <1>3, <2>2
    <3>3. entries'[p] = Flying(entries[p], s, f)
      BY <1>1, <2>2, PagesAre DEF Flying
    <3>4. p \in pages
      BY <1>2, <2>2
    <3> HIDE DEF s, f, e
    <3>a. EntryFits(scenario, FALSE, p, entries[p])
      BY <1>4
    <3>b. SeenFits(scenario, p, s)
      BY <3>1
    <3>c. f \in PageFlights(scenario)
      BY <3>2 DEF PageFlights
    <3>e. entries[p] \in EntryRec(scenario) /\ s \in SeenRec(scenario)
      BY <3>a, <3>b DEF EntryFits, SeenFits
    <3>d. /\ EntryFits(scenario, FALSE, p, Flying(entries[p], s, f))
          /\ IsThere(Flying(entries[p], s, f), s, f)
      BY <3>a, <3>b, <3>c, <3>e, WrittenFits
    <3>5. /\ EntryFits(scenario, FALSE, p, entries'[p]) /\ entries'[p].there
          /\ entries'[p].seen = s /\ entries'[p].flight = f
      BY <3>3, <3>d DEF IsThere
    <3> QED BY <2>1, <3>1, <3>2, <3>4, <3>5 DEF EntryFits
  <2>3. CASE p \notin wanted /\ p \in pages
    <3>1. entries'[p] = e
      BY <1>1, <2>3, PagesAre
    <3> QED BY <1>2, <2>1, <2>3, <3>1 DEF EntryFits
  <2>4. CASE p \notin wanted /\ p \notin pages
    <3>1. entries'[p] = entries[p]
      BY <1>1, <2>4, PagesAre
    <3> QED BY <1>4, <2>4, <3>1
  <2> QED BY <2>2, <2>3, <2>4
<1>6. ASSUME NEW i \in SlotsOf(scenario)
      PROVE  /\ ReadFits(scenario, committed, reads'[i])
             /\ reads'[i] = reads[i] \/ (reads'[i].kept = Q!NoData /\ reads'[i].step = "sent")
  <2>1. CASE \E p \in wanted : slot[p] = i
    <3> DEFINE p == CHOOSE q \in wanted : slot[q] = i
               n == Q!Ensured(entries[p]).epoch
    <3>1. p \in wanted
      BY <2>1
    <3>2. p \in PagesOf(scenario)
      BY <1>2, <3>1
    <3>3. reads'[i] = [Q!NoRead EXCEPT !.step = "sent", !.page = p, !.epoch = n]
      BY <1>1, <2>1, PagesAre
    <3> HIDE DEF p
    <3>4. n \in Nat
      BY <1>4, <3>2, EnsuredFits DEF EntryFits, EntryRec
    <3> HIDE DEF n
    <3>5. [Q!NoRead EXCEPT !.step = "sent", !.page = p, !.epoch = n].step = "sent"
      BY DEF Q!NoRead
    <3>6. LET r == [Q!NoRead EXCEPT !.step = "sent", !.page = p, !.epoch = n]
          IN ReadFits(scenario, committed, r) /\ r.kept = Q!NoData
      BY <3>2, <3>4, FreshRead, Zenon
    <3> QED BY <3>3, <3>5, <3>6, Zenon
  <2>2. CASE ~\E p \in wanted : slot[p] = i
    <3>1. reads'[i] = reads[i]
      BY <1>1, <2>2, PagesAre
    <3> QED BY <3>1 DEF ReadsFit
  <2> QED BY <2>1, <2>2
<1>7. ReadsFit'
  BY <1>1, <1>6, PagesAre DEF ReadsFit
<1>8. DOMAIN entries' = PagesOf(scenario)
  BY <1>1, PagesAre
<1> QED BY <1>5, <1>6, <1>7, <1>8

(* A bound that is spent stays a number.                                    *)
LEMMA SpendFits ==
  ASSUME ServerFits, NEW kind \in Q!Kinds, Q!Spend(kind)
  PROVE  /\ spent' \in [Q!Kinds -> Nat]
         /\ spent'["races"] = 0 => spent["races"] = 0 /\ kind # "races"
<1>1. "races" \in Q!Kinds
  BY DEF Q!Kinds
<1> QED BY <1>1 DEF ServerFits, Q!Spend

(* Nothing of a page is a tap's when nothing is on its way.                  *)
Settled == \A p \in PagesOf(scenario) : DataIsSo(scenario, committed, p, entries[p].seen.data)

(* Without a write on its way, everything shown was so.                     *)
LEMMA SettledWhenFree ==
  ASSUME CacheIsSo, WritesFit, ~Q!Busy
  PROVE  Settled /\ \A i \in SlotsOf(scenario) : writes[i].step = "none"
<1>1. \A i \in SlotsOf(scenario) : writes[i].step = "none"
  BY PagesAre DEF Q!Busy
<1>2. \A p, r, v : ~ByTap(writes, p, r, v)
  BY <1>1 DEF ByTap, WritesFit
<1> QED BY <1>1, <1>2 DEF CacheIsSo, DataOrTap, DataIsSo, Settled

(* What was so may be shown.                                                *)
LEMMA SettledIsSo ==
  ASSUME NEW sc, NEW given, NEW ws, NEW p, NEW data, DataIsSo(sc, given, p, data)
  PROVE  DataOrTap(sc, given, ws, p, data)
BY DEF DataIsSo, DataOrTap

(* A skeleton shows nothing that was never so.                              *)
LEMMA NothingIsSo ==
  ASSUME NEW sc, NEW given, NEW ws, NEW p
  PROVE  DataIsSo(sc, given, p, Q!NoData) /\ DataOrTap(sc, given, ws, p, Q!NoData)
BY DEF DataIsSo, DataOrTap

(* load keeps what the cache keeps.                                         *)
LEMMA LoadsKeep ==
  ASSUME EntriesFit, ReadsFit, scenario' = scenario, committed' = committed,
         NEW pages \in SUBSET PagesOf(scenario), NEW force \in BOOLEAN,
         Q!Loads(entries, pages, force),
         \A p \in PagesOf(scenario) : p \in pages \/ EntryFits(scenario, TRUE, p, entries[p])
  PROVE  /\ EntriesFit' /\ ReadsFit'
         /\ \A ws : (\A p \in PagesOf(scenario) :
                       DataOrTap(scenario, committed, ws, p, entries[p].seen.data))
              => \A p \in PagesOf(scenario) :
                   DataOrTap(scenario, committed, ws, p, entries'[p].seen.data)
         /\ (\A i \in SlotsOf(scenario) : ReadIsSo(scenario, committed, reads[i]))
              => \A i \in SlotsOf(scenario) : ReadIsSo(scenario, committed, reads'[i])
<1>1. /\ DOMAIN entries' = PagesOf(scenario)
      /\ \A p \in PagesOf(scenario) :
           /\ EntryFits(scenario, FALSE, p, entries'[p])
           /\ entries'[p].seen.data \in {entries[p].seen.data, Q!NoData}
           /\ p \in pages => EntryFits(scenario, TRUE, p, entries'[p])
           /\ p \notin pages => entries'[p] = entries[p]
      /\ ReadsFit'
      /\ \A i \in SlotsOf(scenario) :
           reads'[i] = reads[i] \/ (reads'[i].kept = Q!NoData /\ reads'[i].step = "sent")
  BY LoadsFit
<1>2. \A p \in PagesOf(scenario) : EntryFits(scenario, TRUE, p, entries'[p])
  BY <1>1
<1>3. EntriesFit'
  BY <1>1, <1>2 DEF EntriesFit, EntryFits
<1>4. ASSUME NEW ws, NEW p \in PagesOf(scenario),
             DataOrTap(scenario, committed, ws, p, entries[p].seen.data)
      PROVE  DataOrTap(scenario, committed, ws, p, entries'[p].seen.data)
  BY <1>1, <1>4, NothingIsSo
<1>5. ASSUME NEW i \in SlotsOf(scenario), ReadIsSo(scenario, committed, reads[i])
      PROVE  ReadIsSo(scenario, committed, reads'[i])
  BY <1>1, <1>5, NothingIsSo DEF ReadIsSo
<1> QED BY <1>1, <1>3, <1>4, <1>5

(* The screen opens, or is pulled down to be read again.                    *)
LEMMA OpensStep ==
  ASSUME CacheInv, Q!Opens \/ Q!Refetches
  PROVE  CacheInv'
<1>1. /\ scenario' = scenario /\ committed' = committed /\ writes' = writes /\ server' = server
      /\ watching' = TRUE /\ snackbar' = snackbar
      /\ \E kind \in Q!Kinds : Q!Spend(kind)
      /\ \E force \in BOOLEAN : Q!Loads(entries, PagesOf(scenario), force)
  BY PagesAre DEF Q!Opens, Q!Refetches, CacheInv, ServerFits, Q!Kinds
<1>2. PICK force \in BOOLEAN : Q!Loads(entries, PagesOf(scenario), force)
  BY <1>1
<1>3. PICK kind \in Q!Kinds : Q!Spend(kind)
  BY <1>1
<1>4. /\ EntriesFit' /\ ReadsFit'
      /\ (\A p \in PagesOf(scenario) :
                       DataOrTap(scenario, committed, writes, p, entries[p].seen.data))
              => \A p \in PagesOf(scenario) :
                   DataOrTap(scenario, committed, writes, p, entries'[p].seen.data)
      /\ (\A i \in SlotsOf(scenario) : ReadIsSo(scenario, committed, reads[i]))
              => \A i \in SlotsOf(scenario) : ReadIsSo(scenario, committed, reads'[i])
  BY <1>1, <1>2, LoadsKeep DEF CacheInv
<1>5. spent' \in [Q!Kinds -> Nat] /\ (Alone' => Alone)
  BY <1>1, <1>3, SpendFits DEF CacheInv, Alone
<1>6. ServerFits'
  BY <1>1, <1>5 DEF CacheInv, ServerFits
<1>7. WritesFit'
  BY <1>1 DEF CacheInv, WritesFit
<1>8. CacheIsSo => CacheIsSo'
  BY <1>1, <1>4 DEF CacheIsSo
<1> QED BY <1>4, <1>5, <1>6, <1>7, <1>8 DEF CacheInv

(* The screen is left; the snackbar fades.                                  *)
LEMMA LeavesStep ==
  ASSUME CacheInv, Q!Leaves \/ Q!SnackbarFades
  PROVE  CacheInv'
<1>1. /\ scenario' = scenario /\ committed' = committed /\ writes' = writes /\ server' = server
      /\ watching' = watching \/ watching' = FALSE
      /\ snackbar' \in {snackbar, Q!NoOffer}
      /\ entries' = entries /\ reads' = reads /\ spent' = spent
  BY DEF Q!Leaves, Q!SnackbarFades
<1>2. Q!NoOffer \in OfferRec(scenario)
  BY DEF OfferRec, Q!NoOffer, Q!None
<1>a. watching' => watching
  BY <1>1, Zenon
<1>b. watching' \in BOOLEAN
  BY <1>1 DEF CacheInv, ServerFits
<1>3. ServerFits'
  BY <1>1, <1>2, <1>b DEF CacheInv, ServerFits
<1>4. EntriesFit'
  BY <1>1, <1>a DEF CacheInv, EntriesFit, EntryFits
<1>5. ReadsFit' /\ WritesFit'
  BY <1>1 DEF CacheInv, ReadsFit, WritesFit
<1>6. (Alone' => Alone) /\ (CacheIsSo => CacheIsSo')
  BY <1>1 DEF Alone, CacheIsSo
<1> QED BY <1>3, <1>4, <1>5, <1>6 DEF CacheInv

(* One page, one read or one write changes, and what it becomes fits.        *)
LEMMA OneRead ==
  ASSUME ReadsFit, scenario' = scenario, committed' = committed,
         NEW i \in SlotsOf(scenario), NEW r,
         ReadFits(scenario, committed, r), reads' = [reads EXCEPT ![i] = r]
  PROVE  /\ ReadsFit'
         /\ (\A j \in SlotsOf(scenario) : ReadIsSo(scenario, committed, reads[j]))
             /\ ReadIsSo(scenario, committed, r)
              => \A j \in SlotsOf(scenario) : ReadIsSo(scenario, committed, reads'[j])
BY DEF ReadsFit

(* One page changes.                                                        *)
LEMMA OnePage ==
  ASSUME EntriesFit, scenario' = scenario, committed' = committed, watching' = watching,
         NEW p \in PagesOf(scenario), NEW e, EntryFits(scenario, watching, p, e),
         entries' = [entries EXCEPT ![p] = e]
  PROVE  /\ EntriesFit'
         /\ \A ws :
              (\A q \in PagesOf(scenario) :
                 DataOrTap(scenario, committed, ws, q, entries[q].seen.data))
              /\ DataOrTap(scenario, committed, ws, p, e.seen.data)
              => \A q \in PagesOf(scenario) :
                   DataOrTap(scenario, committed, ws, q, entries'[q].seen.data)
<1>1. \A q \in PagesOf(scenario) : entries'[q] = IF q = p THEN e ELSE entries[q]
  BY DEF EntriesFit
<1>2. EntriesFit'
  BY <1>1 DEF EntriesFit
<1> QED BY <1>1, <1>2

(* The fields of a read that is answered.                                   *)
LEMMA AnsweredIs ==
  ASSUME NEW sc, NEW r \in ReadRec(sc), NEW s \in AnyData(sc)
  PROVE  [r EXCEPT !.step = "answered", !.snap = s] =
           [step |-> "answered", page |-> r.page, epoch |-> r.epoch, tries |-> r.tries,
            snap |-> s, kept |-> r.kept]
<1>1. [[r EXCEPT !.step = "answered"] EXCEPT !.snap = s] =
           [step |-> "answered", page |-> r.page, epoch |-> r.epoch, tries |-> r.tries,
            snap |-> s, kept |-> r.kept]
  <2> DEFINE x == [r EXCEPT !.step = "answered"]
  <2>1. x = [step |-> "answered", page |-> r.page, epoch |-> r.epoch, tries |-> r.tries,
             snap |-> r.snap, kept |-> r.kept]
    BY DEF ReadRec
  <2> HIDE DEF x
  <2>2. [x EXCEPT !.snap = s] =
           [step |-> "answered", page |-> r.page, epoch |-> r.epoch, tries |-> r.tries,
            snap |-> s, kept |-> r.kept]
    BY <2>1
  <2> QED BY <2>2 DEF x
<1> QED BY <1>1

(* The server answers a read with what it has.                              *)
LEMMA ServerReadsStep ==
  ASSUME CacheInv, NEW i \in Q!Slots, Q!ServerReads(i)
  PROVE  CacheInv'
<1> DEFINE r == reads[i]
           s == [x \in scenario.pages[r.page] |-> server[x]]
           n == [step |-> "answered", page |-> r.page, epoch |-> r.epoch, tries |-> r.tries,
                 snap |-> s, kept |-> r.kept]
<1>1. /\ UNCHANGED <<scenario, server, committed, entries, watching, writes, snackbar, spent>>
      /\ r.step = "sent"
      /\ reads' = [reads EXCEPT ![i].step = "answered", ![i].snap = s]
  BY DEF Q!ServerReads
<1>2. i \in SlotsOf(scenario) /\ DOMAIN reads = SlotsOf(scenario)
      /\ ReadFits(scenario, committed, r)
  BY PagesAre DEF CacheInv, ReadsFit
<1>3. r \in ReadRec(scenario) /\ r.page \in PagesOf(scenario) /\ r.kept \in PageData(scenario, r.page)
  BY <1>1, <1>2 DEF ReadFits
<1>4. s \in [scenario.pages[r.page] -> Q!RowValue] /\ s \in AnyData(scenario)
      /\ \A x \in scenario.pages[r.page] : s[x] \in committed[x]
  <2>1. \A x \in scenario.pages[r.page] : x \in RowsIn(scenario)
    BY <1>3 DEF RowsIn, PagesOf
  <2>2. s \in [scenario.pages[r.page] -> Q!RowValue]
        /\ \A x \in scenario.pages[r.page] : s[x] \in committed[x]
    BY <2>1 DEF CacheInv, ServerFits
  <2> HIDE DEF s, r
  <2> QED BY <1>3, <2>2 DEF AnyData
<1> HIDE DEF s
<1>5. reads' = [reads EXCEPT ![i] = n]
  <2>1. [r EXCEPT !.step = "answered", !.snap = s] = n
    <3> HIDE DEF r, s
    <3> QED BY <1>3, <1>4, AnsweredIs
  <2>2. reads' = [reads EXCEPT ![i] = [r EXCEPT !.step = "answered", !.snap = s]]
    BY <1>1, <1>2
  <2> QED BY <2>1, <2>2
<1>6. ReadFits(scenario, committed, n) /\ n.page = r.page /\ n.kept = r.kept
  BY <1>3, <1>4 DEF ReadFits, ReadRec
<1>7. ReadIsSo(scenario, committed, r) => ReadIsSo(scenario, committed, n)
  BY <1>1, <1>6 DEF ReadIsSo
<1> HIDE DEF n, r
<1>8. /\ ReadsFit'
      /\ (\A j \in SlotsOf(scenario) : ReadIsSo(scenario, committed, reads[j]))
          /\ ReadIsSo(scenario, committed, n)
           => \A j \in SlotsOf(scenario) : ReadIsSo(scenario, committed, reads'[j])
  BY <1>1, <1>2, <1>5, <1>6, OneRead DEF CacheInv
<1>9. ServerFits' /\ EntriesFit' /\ WritesFit' /\ (Alone' => Alone)
  BY <1>1 DEF CacheInv, ServerFits, EntriesFit, WritesFit, Alone
<1>10. CacheIsSo => CacheIsSo'
  BY <1>1, <1>2, <1>7, <1>8 DEF CacheIsSo, r
<1> QED BY <1>8, <1>9, <1>10 DEF CacheInv

(* What an entry shows.                                                     *)
Sees(x, s) == x.seen = s

(* An answer lands in the entry, or in the one made since the old was       *)
(* dropped.                                                                 *)
LEMMA LandedFits ==
  ASSUME NEW sc, NEW p, NEW open \in BOOLEAN, NEW e \in EntryRec(sc), NEW s \in SeenRec(sc),
         NEW r \in ReadRec(sc),
         EntryFits(sc, FALSE, p, e), SeenFits(sc, p, s), s.status # "loading"
  PROVE  EntryFits(sc, open, p, Q!Landed(e, r, s)) /\ Sees(Q!Landed(e, r, s), s)
<1>1. /\ EntryFits(sc, FALSE, p, Q!Written(e, s))
      /\ IsThere(Q!Written(e, s), s, Q!Ensured(e).flight)
      /\ EntryFits(sc, FALSE, p, Flying(e, s, 0)) /\ IsThere(Flying(e, s, 0), s, 0)
  <2>1. 0 \in PageFlights(sc)
    BY DEF PageFlights
  <2> QED BY <2>1, WrittenFits
<1>2. Q!Landed(e, r, s) = Q!Written(e, s) \/ Q!Landed(e, r, s) = Flying(e, s, 0)
  BY DEF Q!Landed, Flying, Q!None
<1> QED BY <1>1, <1>2 DEF EntryFits, IsThere, Sees

(* An answer reaches the cache.                                             *)
LEMMA ReadReturnsStep ==
  ASSUME CacheInv, NEW i \in Q!Slots, Q!ReadReturns(i)
  PROVE  CacheInv'
<1> DEFINE r == reads[i]
           p == r.page
           s == Q!Fetched(r.snap)
           e == Q!Landed(entries[p], r, s)
<1>1. /\ UNCHANGED <<scenario, server, committed, watching, writes, snackbar, spent>>
      /\ r.step = "answered"
      /\ entries' = [entries EXCEPT ![p] = Q!Landed(@, r, s)]
      /\ reads' = [reads EXCEPT ![i] = Q!NoRead]
  BY DEF Q!ReadReturns
<1>2. i \in SlotsOf(scenario) /\ ReadFits(scenario, committed, r) /\ p \in PagesOf(scenario)
  BY <1>1, PagesAre DEF CacheInv, ReadsFit, ReadFits
<1>3. /\ r.snap \in AnyData(scenario)
      /\ r.snap \in PageData(scenario, p) /\ DataIsSo(scenario, committed, p, r.snap)
  <2>1. /\ r.snap \in [scenario.pages[p] -> Q!RowValue]
        /\ \A x \in scenario.pages[p] : r.snap[x] \in committed[x]
    BY <1>1, <1>2 DEF ReadFits
  <2>2. \A x \in scenario.pages[p] : So(committed, x, r.snap[x])
    BY <2>1 DEF So, Q!WasSo
  <2>3. r.snap \in PageData(scenario, p)
    BY <2>1 DEF PageData
  <2> QED BY <1>2, <2>2, <2>3, DataOfPage DEF DataIsSo
<1>4. /\ s \in SeenRec(scenario) /\ SeenFits(scenario, p, s) /\ s.status # "loading"
      /\ s.data = r.snap
  BY <1>3 DEF Q!Fetched, SeenRec, SeenFits
<1>5. entries[p] \in EntryRec(scenario) /\ EntryFits(scenario, FALSE, p, entries[p])
      /\ watching \in BOOLEAN
  BY <1>2 DEF CacheInv, EntriesFit, EntryFits, ServerFits
<1>6. entries' = [entries EXCEPT ![p] = e]
  BY <1>1, <1>2
<1> HIDE DEF s, p
<1>7. EntryFits(scenario, watching, p, e) /\ e.seen = s
  <2>1. r \in ReadRec(scenario)
    BY <1>2 DEF ReadFits
  <2> HIDE DEF r
  <2>2. EntryFits(scenario, watching, p, e) /\ Sees(e, s)
    BY <1>4, <1>5, <2>1, LandedFits
  <2> QED BY <2>2 DEF Sees
<1> HIDE DEF e
<1>8. DataOrTap(scenario, committed, writes, p, e.seen.data)
  BY <1>3, <1>4, <1>7, SettledIsSo
<1>9. /\ EntriesFit'
      /\ (\A q \in PagesOf(scenario) :
            DataOrTap(scenario, committed, writes, q, entries[q].seen.data))
           => \A q \in PagesOf(scenario) :
                DataOrTap(scenario, committed, writes, q, entries'[q].seen.data)
  BY <1>1, <1>2, <1>6, <1>7, <1>8, OnePage DEF CacheInv
<1>10. /\ ReadsFit'
       /\ (\A j \in SlotsOf(scenario) : ReadIsSo(scenario, committed, reads[j]))
            => \A j \in SlotsOf(scenario) : ReadIsSo(scenario, committed, reads'[j])
  <2>1. ReadIsSo(scenario, committed, Q!NoRead)
    BY NoReadFits DEF ReadIsSo
  <2> QED BY <1>1, <1>2, <2>1, NoReadFits, OneRead DEF CacheInv
<1>11. ServerFits' /\ WritesFit' /\ (Alone' => Alone)
  BY <1>1 DEF CacheInv, ServerFits, WritesFit, Alone
<1>12. CacheIsSo => CacheIsSo'
  BY <1>1, <1>9, <1>10 DEF CacheIsSo
<1> QED BY <1>9, <1>10, <1>11, <1>12 DEF CacheInv

(* The fields of a read that is sent again.                                 *)
LEMMA RetriedIs ==
  ASSUME NEW sc, NEW r \in ReadRec(sc)
  PROVE  [r EXCEPT !.step = "sent", !.tries = r.tries + 1, !.snap = Q!NoData] =
           [step |-> "sent", page |-> r.page, epoch |-> r.epoch, tries |-> r.tries + 1,
            snap |-> Q!NoData, kept |-> r.kept]
<1> DEFINE x == [r EXCEPT !.step = "sent"]
           n == r.tries + 1
<1>1. x = [step |-> "sent", page |-> r.page, epoch |-> r.epoch, tries |-> r.tries,
           snap |-> r.snap, kept |-> r.kept]
  BY DEF ReadRec
<1> HIDE DEF x, n
<1> DEFINE y == [x EXCEPT !.tries = n]
<1>2. y = [step |-> "sent", page |-> r.page, epoch |-> r.epoch, tries |-> n,
           snap |-> r.snap, kept |-> r.kept]
  BY <1>1
<1> HIDE DEF y
<1>3. [y EXCEPT !.snap = Q!NoData] =
          [step |-> "sent", page |-> r.page, epoch |-> r.epoch, tries |-> n,
           snap |-> Q!NoData, kept |-> r.kept]
  BY <1>2
<1> QED BY <1>3 DEF x, y, n

(* A read that fails is sent again, or its failure is shown over the data   *)
(* its entry had.                                                           *)
LEMMA ReadFailsStep ==
  ASSUME CacheInv, NEW i \in Q!Slots, Q!ReadFails(i)
  PROVE  CacheInv'
<1> DEFINE r == reads[i]
           p == r.page
<1>1. /\ UNCHANGED <<scenario, server, committed, watching, writes, snackbar>>
      /\ r.step \in {"sent", "answered"} /\ Q!Spend("faults")
  BY DEF Q!ReadFails
<1>2. i \in SlotsOf(scenario) /\ ReadFits(scenario, committed, r) /\ p \in PagesOf(scenario)
      /\ r \in ReadRec(scenario) /\ r.kept \in PageData(scenario, p)
      /\ DOMAIN reads = SlotsOf(scenario)
  BY <1>1, PagesAre DEF CacheInv, ReadsFit, ReadFits
<1>3. spent' \in [Q!Kinds -> Nat] /\ (Alone' => Alone)
  BY <1>1, SpendFits DEF CacheInv, Alone, Q!Kinds
<1>4. ServerFits' /\ WritesFit'
  BY <1>1, <1>3 DEF CacheInv, ServerFits, WritesFit
<1>5. CASE /\ reads' = [reads EXCEPT ![i].step = "sent", ![i].tries = @ + 1, ![i].snap = Q!NoData]
           /\ UNCHANGED entries
  <2> DEFINE n == [step |-> "sent", page |-> r.page, epoch |-> r.epoch, tries |-> r.tries + 1,
                   snap |-> Q!NoData, kept |-> r.kept]
  <2>1. reads' = [reads EXCEPT ![i] = n]
    <3>1. reads' = [reads EXCEPT ![i] =
             [r EXCEPT !.step = "sent", !.tries = r.tries + 1, !.snap = Q!NoData]]
      BY <1>2, <1>5
    <3>2. [r EXCEPT !.step = "sent", !.tries = r.tries + 1, !.snap = Q!NoData] = n
      <4> HIDE DEF r
      <4> QED BY <1>2, RetriedIs
    <3> QED BY <3>1, <3>2
  <2>2. ReadFits(scenario, committed, n) /\ n.page = p /\ n.kept = r.kept
    <3> HIDE DEF r
    <3>1. r.kept \in AnyData(scenario) /\ r.epoch \in Nat /\ r.tries + 1 \in Nat
      BY <1>2 DEF ReadRec
    <3>2. Q!NoData \in AnyData(scenario)
      BY DEF AnyData
    <3>3. n \in ReadRec(scenario)
      BY <1>2, <3>1, <3>2 DEF ReadRec
    <3> QED BY <1>2, <3>3 DEF ReadFits
  <2>3. ReadIsSo(scenario, committed, r) => ReadIsSo(scenario, committed, n)
    BY <1>1, <2>2 DEF ReadIsSo
  <2> HIDE DEF n, p, r
  <2>4. /\ ReadsFit'
        /\ (\A j \in SlotsOf(scenario) : ReadIsSo(scenario, committed, reads[j]))
            /\ ReadIsSo(scenario, committed, n)
             => \A j \in SlotsOf(scenario) : ReadIsSo(scenario, committed, reads'[j])
    BY <1>1, <1>2, <2>1, <2>2, OneRead DEF CacheInv
  <2>5. EntriesFit'
    BY <1>1, <1>5 DEF CacheInv, EntriesFit
  <2>6. CacheIsSo => CacheIsSo'
    BY <1>1, <1>2, <1>5, <2>3, <2>4 DEF CacheIsSo, r
  <2> QED BY <1>3, <1>4, <2>4, <2>5, <2>6 DEF CacheInv
<1>6. CASE /\ entries' = [entries EXCEPT ![p] = Q!FailedRead(@, r)]
           /\ reads' = [reads EXCEPT ![i] = Q!NoRead]
  <2> DEFINE old == IF Q!Own(entries[p], r) THEN entries[p].seen.data ELSE r.kept
             s == [status |-> "error", refreshing |-> FALSE, data |-> old]
             e == Q!Landed(entries[p], r, s)
  <2>1. entries[p] \in EntryRec(scenario) /\ EntryFits(scenario, FALSE, p, entries[p])
        /\ watching \in BOOLEAN /\ entries[p].seen.data \in PageData(scenario, p)
        /\ DOMAIN entries = PagesOf(scenario)
    BY <1>2 DEF CacheInv, EntriesFit, EntryFits, SeenFits, ServerFits
  <2>2. old \in PageData(scenario, p) /\ old \in AnyData(scenario)
    BY <1>2, <2>1, DataOfPage
  <2>3. CacheIsSo => DataOrTap(scenario, committed, writes, p, old)
    <3>1. CacheIsSo => DataIsSo(scenario, committed, p, r.kept)
                       /\ DataOrTap(scenario, committed, writes, p, entries[p].seen.data)
      BY <1>1, <1>2 DEF CacheIsSo, ReadIsSo
    <3> QED BY <3>1, SettledIsSo
  <2>4. entries' = [entries EXCEPT ![p] = e]
    BY <1>6, <2>1 DEF Q!FailedRead
  <2> HIDE DEF old
  <2>5. s \in SeenRec(scenario) /\ SeenFits(scenario, p, s) /\ s.status # "loading" /\ s.data = old
    BY <2>2 DEF SeenRec, SeenFits
  <2> HIDE DEF s, p, r
  <2>6. EntryFits(scenario, watching, p, e) /\ Sees(e, s)
    BY <1>2, <2>1, <2>5, LandedFits
  <2> HIDE DEF e
  <2>7. CacheIsSo => DataOrTap(scenario, committed, writes, p, e.seen.data)
    BY <2>3, <2>5, <2>6 DEF Sees
  <2>8. /\ EntriesFit'
        /\ (\A q \in PagesOf(scenario) :
              DataOrTap(scenario, committed, writes, q, entries[q].seen.data))
           /\ DataOrTap(scenario, committed, writes, p, e.seen.data)
             => \A q \in PagesOf(scenario) :
                  DataOrTap(scenario, committed, writes, q, entries'[q].seen.data)
    BY <1>1, <1>2, <2>4, <2>6, OnePage DEF CacheInv
  <2>9. /\ ReadsFit'
        /\ (\A j \in SlotsOf(scenario) : ReadIsSo(scenario, committed, reads[j]))
             => \A j \in SlotsOf(scenario) : ReadIsSo(scenario, committed, reads'[j])
    <3>1. ReadIsSo(scenario, committed, Q!NoRead)
      BY NoReadFits DEF ReadIsSo
    <3> QED BY <1>1, <1>2, <1>6, <3>1, NoReadFits, OneRead DEF CacheInv
  <2>10. CacheIsSo => CacheIsSo'
    BY <1>1, <2>7, <2>8, <2>9 DEF CacheIsSo
  <2> QED BY <1>3, <1>4, <2>8, <2>9, <2>10 DEF CacheInv
<1> QED BY <1>5, <1>6 DEF Q!ReadFails

(* The server's values only grow, and what fits goes on fitting.             *)
LEMMA CommitsFit ==
  ASSUME ServerFits, ReadsFit, scenario' = scenario, watching' = watching, snackbar' = snackbar,
         spent' \in [Q!Kinds -> Nat],
         NEW row \in RowsIn(scenario), NEW value \in Q!RowValue, Q!Commits(row, value)
  PROVE  /\ ServerFits' /\ Grows(scenario, committed, committed') /\ value \in committed'[row]
         /\ reads' = reads => ReadsFit'
<1>1. /\ server' = [server EXCEPT ![row] = value]
      /\ committed' = [committed EXCEPT ![row] = @ \cup {value}]
  BY DEF Q!Commits
<1>2. Grows(scenario, committed, committed') /\ value \in committed'[row]
  BY <1>1 DEF Grows, ServerFits
<1>3. /\ server' \in [RowsIn(scenario) -> Q!RowValue]
      /\ committed' \in [RowsIn(scenario) -> SUBSET Q!RowValue]
      /\ \A r \in RowsIn(scenario) : server'[r] \in committed'[r]
  BY <1>1 DEF ServerFits
<1>4. ServerFits'
  BY <1>3 DEF ServerFits
<1>5. ASSUME reads' = reads PROVE ReadsFit'
  BY <1>2, <1>5, StaysSo DEF ReadsFit
<1> QED BY <1>2, <1>4, <1>5

(* What was so was so still.                                                *)
LEMMA SoGoesOn ==
  ASSUME NEW given, Grows(scenario, committed, given), NEW ws,
         \A p, r, v : ByTap(writes, p, r, v) => ByTap(ws, p, r, v)
  PROVE  /\ \A p \in PagesOf(scenario) : \A data :
              /\ DataIsSo(scenario, committed, p, data) => DataIsSo(scenario, given, p, data)
              /\ DataOrTap(scenario, committed, writes, p, data)
                   => DataOrTap(scenario, given, ws, p, data)
<1> SUFFICES ASSUME NEW p \in PagesOf(scenario), NEW data
             PROVE  /\ DataIsSo(scenario, committed, p, data) => DataIsSo(scenario, given, p, data)
                    /\ DataOrTap(scenario, committed, writes, p, data)
                         => DataOrTap(scenario, given, ws, p, data)
  OBVIOUS
<1>1. \A r \in scenario.pages[p] : r \in RowsIn(scenario)
  BY DEF RowsIn, PagesOf
<1>2. \A r \in scenario.pages[p] : \A v : So(committed, r, v) => So(given, r, v)
  BY <1>1, StaysSo
<1> QED BY <1>2 DEF DataIsSo, DataOrTap

(* The row is changed from the chat.                                        *)
LEMMA ChatChangesStep ==
  ASSUME CacheInv, NEW row \in Q!Rows, Q!ChatChanges(row)
  PROVE  CacheInv'
<1> DEFINE value == [set |-> ~server[row].set, version |-> server[row].version + 1]
<1>1. /\ UNCHANGED <<scenario, entries, watching, reads, writes, snackbar>>
      /\ Q!Spend("chats") /\ Q!Commits(row, value)
  BY DEF Q!ChatChanges
<1>2. row \in RowsIn(scenario)
  BY PagesAre
<1>3. server[row] \in Q!RowValue
  BY <1>2 DEF CacheInv, ServerFits
<1>4. value \in Q!RowValue
  BY <1>3 DEF Q!RowValue
<1>5. spent' \in [Q!Kinds -> Nat] /\ (Alone' => Alone)
  BY <1>1, SpendFits DEF CacheInv, Alone, Q!Kinds
<1> HIDE DEF value
<1>6. ServerFits' /\ Grows(scenario, committed, committed') /\ ReadsFit'
  BY <1>1, <1>2, <1>4, <1>5, CommitsFit DEF CacheInv
<1>7. EntriesFit'
  BY <1>1 DEF CacheInv, EntriesFit
<1>8. WritesFit'
  BY <1>1, <1>6, StaysSo DEF CacheInv, WritesFit
<1>9. \A p \in PagesOf(scenario) : \A data :
        /\ DataIsSo(scenario, committed, p, data) => DataIsSo(scenario, committed', p, data)
        /\ DataOrTap(scenario, committed, writes, p, data)
             => DataOrTap(scenario, committed', writes, p, data)
  BY <1>6, SoGoesOn
<1>10. ASSUME CacheIsSo PROVE CacheIsSo'
  <2>1. \A p \in PagesOf(scenario) :
          DataOrTap(scenario, committed', writes, p, entries[p].seen.data)
    BY <1>9, <1>10 DEF CacheIsSo
  <2>2. ASSUME NEW i \in SlotsOf(scenario)
        PROVE  ReadIsSo(scenario, committed', reads[i]) /\ WriteIsSo(scenario, committed', writes[i])
    <3>1. ReadIsSo(scenario, committed, reads[i]) /\ WriteIsSo(scenario, committed, writes[i])
      BY <1>10 DEF CacheIsSo
    <3>2. /\ reads[i].step # "none" => reads[i].page \in PagesOf(scenario)
          /\ writes[i].step # "none" => \A p \in DOMAIN writes[i].before : p \in PagesOf(scenario)
      BY DEF CacheInv, ReadsFit, ReadFits, WritesFit, WriteFits
    <3> QED BY <1>9, <3>1, <3>2 DEF ReadIsSo, WriteIsSo
  <2> QED BY <1>1, <1>10, <2>1, <2>2 DEF CacheIsSo
<1> QED BY <1>5, <1>6, <1>7, <1>8, <1>10 DEF CacheInv

(* A write the server has answered.                                         *)
WroteRec(w, step, answer) ==
  [step |-> step, kind |-> w.kind, row |-> w.row, set |-> w.set, version |-> w.version,
   before |-> w.before, answer |-> answer]

(* The fields of such a write.                                              *)
LEMMA WroteIs ==
  ASSUME NEW sc, NEW w \in WriteRec(sc), NEW value \in Q!RowValue
  PROVE  /\ [w EXCEPT !.step = "written", !.answer = value] = WroteRec(w, "written", value)
         /\ [w EXCEPT !.step = "refused"] = WroteRec(w, "refused", w.answer)
<1> DEFINE x == [w EXCEPT !.step = "written"]
<1>1. x = WroteRec(w, "written", w.answer)
  BY DEF WriteRec, WroteRec
<1>2. [w EXCEPT !.step = "refused"] = WroteRec(w, "refused", w.answer)
  BY DEF WriteRec, WroteRec
<1> HIDE DEF x
<1>3. [x EXCEPT !.answer = value] = WroteRec(w, "written", value)
  BY <1>1 DEF WroteRec
<1> QED BY <1>2, <1>3 DEF x

(* One write changes.                                                       *)
LEMMA OneWrite ==
  ASSUME WritesFit, scenario' = scenario, Grows(scenario, committed, committed'),
         NEW i \in SlotsOf(scenario), NEW w,
         WriteFits(scenario, committed', w), writes' = [writes EXCEPT ![i] = w]
  PROVE  /\ WritesFit' /\ writes'[i] = w
         /\ \A j \in SlotsOf(scenario) : j # i => writes'[j] = writes[j]
<1>1. DOMAIN writes' = SlotsOf(scenario) /\ writes'[i] = w
      /\ \A j \in SlotsOf(scenario) : j # i => writes'[j] = writes[j]
  BY DEF WritesFit
<1>2. \A j \in SlotsOf(scenario) : WriteFits(scenario, committed', writes'[j])
  <2>1. \A j \in SlotsOf(scenario) : WriteFits(scenario, committed', writes[j])
    BY StaysSo DEF WritesFit
  <2> QED BY <1>1, <2>1
<1> QED BY <1>1, <1>2 DEF WritesFit

(* The server writes, or refuses a version that is not its own.             *)
LEMMA ServerWritesStep ==
  ASSUME CacheInv, NEW i \in Q!Slots, Q!ServerWrites(i)
  PROVE  CacheInv'
<1> DEFINE w == writes[i]
           value == [set |-> w.set, version |-> server[w.row].version + 1]
<1>1. /\ UNCHANGED <<scenario, entries, watching, reads, snackbar, spent>>
      /\ w.step = "sent"
  BY DEF Q!ServerWrites
<1>2. i \in SlotsOf(scenario) /\ DOMAIN writes = SlotsOf(scenario)
      /\ WriteFits(scenario, committed, w) /\ w \in WriteRec(scenario)
      /\ w.row \in RowsIn(scenario)
  BY <1>1, PagesAre DEF CacheInv, WritesFit, WriteFits
<1>3. value \in Q!RowValue
  <2>1. w.set \in BOOLEAN /\ server[w.row] \in Q!RowValue
    BY <1>2 DEF WriteRec, CacheInv, ServerFits
  <2> QED BY <2>1 DEF Q!RowValue
<1>4. PICK n : /\ writes' = [writes EXCEPT ![i] = n]
               /\ \/ /\ n = WroteRec(w, "written", value) /\ Q!Commits(w.row, value)
                     /\ scenario.versioned => value = [set |-> w.set, version |-> w.version + 1]
                  \/ n = WroteRec(w, "refused", w.answer) /\ UNCHANGED <<server, committed>>
  <2>1. CASE w.version = server[w.row].version \/ ~scenario.versioned
    <3>1. /\ Q!Commits(w.row, value)
          /\ writes' = [writes EXCEPT ![i].step = "written", ![i].answer = value]
      BY <2>1 DEF Q!ServerWrites
    <3>2. writes' = [writes EXCEPT ![i] = [w EXCEPT !.step = "written", !.answer = value]]
      BY <1>2, <3>1
    <3>3. scenario.versioned => value = [set |-> w.set, version |-> w.version + 1]
      BY <2>1
    <3> HIDE DEF value, w
    <3>4. [w EXCEPT !.step = "written", !.answer = value] = WroteRec(w, "written", value)
      BY <1>2, <1>3, WroteIs
    <3> QED BY <3>1, <3>2, <3>3, <3>4
  <2>2. CASE ~(w.version = server[w.row].version \/ ~scenario.versioned)
    <3>1. writes' = [writes EXCEPT ![i].step = "refused"] /\ UNCHANGED <<server, committed>>
      BY <2>2 DEF Q!ServerWrites
    <3>2. writes' = [writes EXCEPT ![i] = [w EXCEPT !.step = "refused"]]
      BY <1>2, <3>1
    <3> HIDE DEF value, w
    <3>4. [w EXCEPT !.step = "refused"] = WroteRec(w, "refused", w.answer)
      BY <1>2, <1>3, WroteIs
    <3> QED BY <3>1, <3>2, <3>4
  <2> QED BY <2>1, <2>2
<1>5. /\ n.kind = w.kind /\ n.row = w.row /\ n.set = w.set /\ n.version = w.version
      /\ n.before = w.before /\ n.step \in {"written", "refused"}
  BY <1>4 DEF WroteRec
<1>6. /\ ServerFits' /\ ReadsFit' /\ Grows(scenario, committed, committed')
      /\ WriteFits(scenario, committed', n)
  <2>0. spent' \in [Q!Kinds -> Nat]
    BY <1>1 DEF CacheInv, ServerFits
  <2>1. CASE /\ n = WroteRec(w, "written", value) /\ Q!Commits(w.row, value)
             /\ scenario.versioned => value = [set |-> w.set, version |-> w.version + 1]
    <3> DEFINE row == w.row
    <3> HIDE DEF value, row
    <3>1. Q!Commits(row, value) /\ row \in RowsIn(scenario)
      BY <1>2, <2>1 DEF row
    <3>2. /\ ServerFits' /\ Grows(scenario, committed, committed') /\ value \in committed'[row]
          /\ ReadsFit'
      BY <1>1, <1>3, <2>0, <3>1, CommitsFit DEF CacheInv
    <3>3. n \in WriteRec(scenario) /\ n.answer = value
      BY <1>2, <1>3, <2>1 DEF WriteRec, WroteRec
    <3> HIDE DEF w
    <3>4. WriteFits(scenario, committed', n)
      BY <1>1, <1>2, <1>3, <1>5, <2>1, <3>2, <3>3 DEF WriteFits, row
    <3> QED BY <3>2, <3>4
  <2>2. CASE n = WroteRec(w, "refused", w.answer) /\ UNCHANGED <<server, committed>>
    <3>1. ServerFits' /\ ReadsFit' /\ Grows(scenario, committed, committed')
      BY <1>1, <2>2 DEF CacheInv, ServerFits, ReadsFit, Grows
    <3>3. n \in WriteRec(scenario) /\ n.step = "refused"
      BY <1>2, <1>3, <2>2 DEF WriteRec, WroteRec
    <3> HIDE DEF w, value
    <3>4. WriteFits(scenario, committed', n)
      BY <1>1, <1>2, <1>5, <2>2, <3>3 DEF WriteFits
    <3> QED BY <3>1, <3>4
  <2> QED BY <1>4, <2>1, <2>2
<1> HIDE DEF value
<1>7. /\ WritesFit' /\ writes'[i] = n
      /\ \A j \in SlotsOf(scenario) : j # i => writes'[j] = writes[j]
  BY <1>1, <1>2, <1>4, <1>6, OneWrite DEF CacheInv
<1>8. EntriesFit' /\ (Alone' => Alone)
  BY <1>1 DEF CacheInv, EntriesFit, Alone
<1>9. ASSUME CacheIsSo PROVE CacheIsSo'
  <2>1. \A j \in SlotsOf(scenario) :
          /\ writes'[j].step # "none" <=> writes[j].step # "none"
          /\ writes'[j].kind = writes[j].kind /\ writes'[j].row = writes[j].row
          /\ writes'[j].set = writes[j].set /\ writes'[j].version = writes[j].version
          /\ writes'[j].before = writes[j].before
    BY <1>1, <1>5, <1>7
  <2>2. DOMAIN writes' = SlotsOf(scenario)
    BY <1>1, <1>7 DEF WritesFit
  <2>3. \A p, r, v : ByTap(writes, p, r, v) => ByTap(writes', p, r, v)
    BY <1>2, <2>1, <2>2 DEF ByTap
  <2>4. OneAtATime(writes')
    BY <1>2, <1>9, <2>1, <2>2 DEF OneAtATime, CacheIsSo
  <2>5. \A p \in PagesOf(scenario) : \A data :
          /\ DataIsSo(scenario, committed, p, data) => DataIsSo(scenario, committed', p, data)
          /\ DataOrTap(scenario, committed, writes, p, data)
               => DataOrTap(scenario, committed', writes', p, data)
    BY <1>6, <2>3, SoGoesOn
  <2>6. \A p \in PagesOf(scenario) :
          DataOrTap(scenario, committed', writes', p, entries[p].seen.data)
    BY <1>9, <2>5 DEF CacheIsSo
  <2>7. ASSUME NEW j \in SlotsOf(scenario)
        PROVE  ReadIsSo(scenario, committed', reads[j]) /\ WriteIsSo(scenario, committed', writes'[j])
    <3>1. ReadIsSo(scenario, committed, reads[j]) /\ WriteIsSo(scenario, committed, writes[j])
      BY <1>9 DEF CacheIsSo
    <3>2. /\ reads[j].step # "none" => reads[j].page \in PagesOf(scenario)
          /\ writes[j].step # "none" => \A p \in DOMAIN writes[j].before : p \in PagesOf(scenario)
      BY DEF CacheInv, ReadsFit, ReadFits, WritesFit, WriteFits
    <3> QED BY <2>1, <2>5, <3>1, <3>2 DEF ReadIsSo, WriteIsSo
  <2> QED BY <1>1, <2>4, <2>6, <2>7 DEF CacheIsSo
<1> QED BY <1>6, <1>7, <1>8, <1>9 DEF CacheInv

(* A write that begins: the tap with what it saw, the Undo with nothing.     *)
BegunRec(kind, row, set, version, before) ==
  [step |-> "sent", kind |-> kind, row |-> row, set |-> set, version |-> version,
   before |-> before, answer |-> 0]
Begun(kind, row, set, version) ==
  [Q!NoWrite EXCEPT !.step = "sent", !.kind = kind, !.row = row, !.set = set,
                    !.version = version]

(* The fields of a write that begins.                                       *)
LEMMA BegunAs ==
  ASSUME NEW kind, NEW row, NEW set, NEW version
  PROVE  Begun(kind, row, set, version) =
           BegunRec(kind, row, set, version, [p \in {} |-> Q!Missing])
<1> DEFINE o1 == "none"
           o2 == "none"
           o3 == 0
           o4 == FALSE
           o5 == 0
           none == [p \in {} |-> Q!Missing]
           o6 == 0
           sent == "sent"
           n == Q!NoWrite
<1>0. n = [step |-> o1, kind |-> o2, row |-> o3, set |-> o4, version |-> o5,
           before |-> none, answer |-> o6]
  BY DEF Q!NoWrite, Q!None
<1> HIDE DEF o1, o2, o3, o4, o5, none, o6, sent, n
<1> DEFINE x1 == [n EXCEPT !.step = sent]
<1>1. x1 = [step |-> sent, kind |-> o2, row |-> o3, set |-> o4, version |-> o5,
            before |-> none, answer |-> o6]
  BY <1>0
<1> HIDE DEF x1
<1> DEFINE x2 == [x1 EXCEPT !.kind = kind]
<1>2. x2 = [step |-> sent, kind |-> kind, row |-> o3, set |-> o4, version |-> o5,
            before |-> none, answer |-> o6]
  BY <1>1
<1> HIDE DEF x2
<1> DEFINE x3 == [x2 EXCEPT !.row = row]
<1>3. x3 = [step |-> sent, kind |-> kind, row |-> row, set |-> o4, version |-> o5,
            before |-> none, answer |-> o6]
  BY <1>2
<1> HIDE DEF x3
<1> DEFINE x4 == [x3 EXCEPT !.set = set]
<1>4. x4 = [step |-> sent, kind |-> kind, row |-> row, set |-> set, version |-> o5,
            before |-> none, answer |-> o6]
  BY <1>3
<1> HIDE DEF x4
<1>5. [x4 EXCEPT !.version = version] =
        [step |-> sent, kind |-> kind, row |-> row, set |-> set, version |-> version,
         before |-> none, answer |-> o6]
  BY <1>4
<1>6. Begun(kind, row, set, version) = [x4 EXCEPT !.version = version]
  BY DEF Begun, x1, x2, x3, x4, n, sent
<1> QED BY <1>5, <1>6 DEF sent, none, o6, BegunRec

(* The tap, with the entries as they stood.                                 *)
TapBegun(row, set, version, before) ==
  [Q!NoWrite EXCEPT !.step = "sent", !.kind = "tap", !.row = row, !.set = set,
                    !.version = version, !.before = before]

(* The fields of a tap.                                                     *)
LEMMA BegunIs ==
  ASSUME NEW row, NEW set, NEW version, NEW before
  PROVE  TapBegun(row, set, version, before) = BegunRec("tap", row, set, version, before)
<1> DEFINE none == [p \in {} |-> Q!Missing]
           x == Begun("tap", row, set, version)
           tap == "tap"
           sent == "sent"
           o6 == 0
<1>1. x = [step |-> sent, kind |-> tap, row |-> row, set |-> set, version |-> version,
           before |-> none, answer |-> o6]
  BY BegunAs DEF BegunRec
<1> HIDE DEF x, none, tap, sent, o6
<1>2. [x EXCEPT !.before = before] =
        [step |-> sent, kind |-> tap, row |-> row, set |-> set, version |-> version,
           before |-> before, answer |-> o6]
  BY <1>1
<1>3. TapBegun(row, set, version, before) = [x EXCEPT !.before = before]
  BY DEF x, Begun, TapBegun
<1> QED BY <1>2, <1>3 DEF BegunRec, tap, sent, o6

(* The first free slot is one.                                              *)
LEMMA FirstFree ==
  ASSUME Q!FreeWrite # {}
  PROVE  LET i == CHOOSE j \in Q!FreeWrite : \A k \in Q!FreeWrite : j <= k
         IN i \in SlotsOf(scenario) /\ writes[i].step = "none"
<1>1. Q!FreeWrite \in SUBSET Nat
  BY DEF Q!FreeWrite, Q!Slots
<1>2. \E n \in Q!FreeWrite : \A m \in Q!FreeWrite : n <= m
  BY <1>1, Least
<1> DEFINE i == CHOOSE j \in Q!FreeWrite : \A k \in Q!FreeWrite : j <= k
<1>3. i \in Q!FreeWrite
  BY <1>2
<1> HIDE DEF i
<1>4. i \in SlotsOf(scenario) /\ writes[i].step = "none"
  BY <1>3, PagesAre DEF Q!FreeWrite
<1> QED BY <1>4 DEF i

(* Undo is tapped.                                                          *)
LEMMA UndoTappedStep ==
  ASSUME CacheInv, Q!UndoTapped
  PROVE  CacheInv'
<1> DEFINE i == CHOOSE j \in Q!FreeWrite : \A k \in Q!FreeWrite : j <= k
           n == BegunRec("undo", snackbar.row, snackbar.set, snackbar.version,
                         [p \in {} |-> Q!Missing])
<1>1. /\ UNCHANGED <<scenario, server, committed, entries, watching, reads>>
      /\ snackbar # Q!NoOffer /\ Q!FreeWrite # {} /\ snackbar' = Q!NoOffer
      /\ Q!Spend(IF Q!Busy THEN "races" ELSE "undos")
      /\ writes' = [writes EXCEPT ![i] = n]
  BY BegunAs DEF Q!UndoTapped, Begun
<1>2. i \in SlotsOf(scenario) /\ writes[i].step = "none"
  BY <1>1, FirstFree
<1>3. spent' \in [Q!Kinds -> Nat] /\ (Alone' => Alone /\ ~Q!Busy)
  BY <1>1, SpendFits DEF CacheInv, Alone, Q!Kinds
<1>4. ServerFits' /\ EntriesFit' /\ ReadsFit'
  <2>1. Q!NoOffer \in OfferRec(scenario)
    BY DEF OfferRec, Q!NoOffer, Q!None
  <2> QED BY <1>1, <1>3, <2>1 DEF CacheInv, ServerFits, EntriesFit, ReadsFit
<1>5. WriteFits(scenario, committed', n) /\ Grows(scenario, committed, committed')
      /\ n.before = [p \in {} |-> Q!Missing]
  <2>1. snackbar \in OfferRec(scenario) /\ snackbar.row \in RowsIn(scenario)
    BY <1>1 DEF CacheInv, ServerFits
  <2>2. [p \in {} |-> Q!Missing] \in Befores(scenario)
    BY DEF Befores
  <2> QED BY <1>1, <2>1, <2>2 DEF WriteFits, WriteRec, OfferRec, BegunRec, Grows
<1> HIDE DEF n, i
<1>6. /\ WritesFit' /\ writes'[i] = n
      /\ \A j \in SlotsOf(scenario) : j # i => writes'[j] = writes[j]
  BY <1>1, <1>2, <1>5, OneWrite DEF CacheInv
<1>7. ASSUME Alone' PROVE CacheIsSo'
  <2>1. Settled /\ CacheIsSo /\ \A j \in SlotsOf(scenario) : writes[j].step = "none"
    BY <1>3, <1>7, SettledWhenFree DEF CacheInv
  <2>2. OneAtATime(writes')
    BY <1>1, <1>6, <2>1 DEF OneAtATime, WritesFit
  <2>3. \A p \in PagesOf(scenario) :
          DataOrTap(scenario, committed, writes', p, entries[p].seen.data)
    BY <2>1, SettledIsSo DEF Settled
  <2>4. \A j \in SlotsOf(scenario) : WriteIsSo(scenario, committed, writes'[j])
    BY <1>5, <1>6, <2>1 DEF WriteIsSo
  <2> QED BY <1>1, <2>1, <2>2, <2>3, <2>4 DEF CacheIsSo
<1> QED BY <1>4, <1>6, <1>7 DEF CacheInv

(* A write that is refused or fails puts back what stood at the tap: it is  *)
(* the only one, so what stood there was so.                                *)
LEMMA GivesUpStep ==
  ASSUME CacheInv, NEW i \in Q!Slots, Q!Refused(i) \/ Q!Fails(i)
  PROVE  CacheInv'
<1> DEFINE w == writes[i]
<1>1. /\ UNCHANGED <<scenario, server, committed, watching, reads, snackbar>>
      /\ w.step # "none"
      /\ writes' = [writes EXCEPT ![i] = Q!NoWrite]
      /\ entries' = Q!RolledBack(w.before)
  BY DEF Q!Refused, Q!Fails, Q!GivesUp
<1>2. i \in SlotsOf(scenario) /\ DOMAIN writes = SlotsOf(scenario)
      /\ WriteFits(scenario, committed, w)
      /\ \A p \in DOMAIN w.before : p \in PagesOf(scenario) /\ SeenFits(scenario, p, w.before[p])
                                     /\ w.before[p].data # Q!NoData
  BY <1>1, PagesAre DEF CacheInv, WritesFit, WriteFits
<1>3. spent' \in [Q!Kinds -> Nat] /\ (Alone' => Alone)
  <2>1. CASE UNCHANGED spent
    BY <1>1, <2>1 DEF CacheInv, ServerFits, Alone
  <2>2. CASE Q!Spend("faults")
    BY <1>1, <2>2, SpendFits DEF CacheInv, Alone, Q!Kinds
  <2> QED BY <2>1, <2>2 DEF Q!Refused, Q!Fails
<1>4. ServerFits' /\ ReadsFit'
  BY <1>1, <1>3 DEF CacheInv, ServerFits, ReadsFit
<1>5. WriteFits(scenario, committed', Q!NoWrite) /\ Grows(scenario, committed, committed')
  BY <1>1, NoWriteFits DEF Grows
<1>6. /\ WritesFit' /\ writes'[i] = Q!NoWrite
      /\ \A j \in SlotsOf(scenario) : j # i => writes'[j] = writes[j]
  BY <1>1, <1>2, <1>5, OneWrite DEF CacheInv
<1>7. DOMAIN entries' = PagesOf(scenario)
      /\ \A p \in PagesOf(scenario) :
           entries'[p] = IF p \in DOMAIN w.before THEN Q!Written(entries[p], w.before[p])
                         ELSE entries[p]
  BY <1>1, PagesAre DEF Q!RolledBack
<1>8. ASSUME NEW p \in PagesOf(scenario), p \in DOMAIN w.before
      PROVE  EntryFits(scenario, watching, p, entries'[p]) /\ entries'[p].seen = w.before[p]
  <2> DEFINE s == w.before[p]
             e == entries[p]
  <2>1. s \in SeenRec(scenario) /\ SeenFits(scenario, p, s) /\ s.status # "loading"
    BY <1>2, <1>8 DEF SeenFits
  <2>2. e \in EntryRec(scenario) /\ EntryFits(scenario, FALSE, p, e)
    BY DEF CacheInv, EntriesFit, EntryFits
  <2>3. entries'[p] = Q!Written(e, s)
    BY <1>7, <1>8
  <2>4. 0 \in PageFlights(scenario)
    BY DEF PageFlights
  <2> HIDE DEF s, e
  <2>5. EntryFits(scenario, FALSE, p, Q!Written(e, s))
        /\ IsThere(Q!Written(e, s), s, Q!Ensured(e).flight)
    BY <2>1, <2>2, <2>4, WrittenFits
  <2>6. entries'[p].seen = s /\ EntryFits(scenario, watching, p, entries'[p])
    BY <2>1, <2>3, <2>5 DEF IsThere, EntryFits
  <2> QED BY <2>6 DEF s
<1>9. EntriesFit'
  BY <1>1, <1>7, <1>8 DEF EntriesFit, CacheInv
<1>10. ASSUME CacheIsSo, Alone PROVE CacheIsSo'
  <2>1. ASSUME NEW p \in PagesOf(scenario)
        PROVE  DataOrTap(scenario, committed, writes', p, entries'[p].seen.data)
    <3>1. CASE p \in DOMAIN w.before
      <4>1. DataIsSo(scenario, committed, p, w.before[p].data)
        BY <1>1, <1>2, <1>10, <3>1 DEF CacheIsSo, WriteIsSo
      <4> QED BY <1>8, <3>1, <4>1, SettledIsSo
    <3>2. CASE p \notin DOMAIN w.before
      <4>1. \A r, v : ~ByTap(writes, p, r, v)
        BY <1>1, <1>2, <1>10, <3>2 DEF ByTap, CacheIsSo, OneAtATime
      <4>2. DataIsSo(scenario, committed, p, entries[p].seen.data)
        BY <1>10, <4>1 DEF CacheIsSo, DataOrTap, DataIsSo
      <4> QED BY <1>7, <3>2, <4>2, SettledIsSo
    <3> QED BY <3>1, <3>2
  <2>2. OneAtATime(writes')
    BY <1>1, <1>2, <1>6, <1>10, NoWriteFits DEF CacheIsSo, OneAtATime
  <2>3. \A j \in SlotsOf(scenario) : WriteIsSo(scenario, committed, writes'[j])
    BY <1>6, <1>10, NoWriteFits DEF WriteIsSo, CacheIsSo
  <2> QED BY <1>1, <1>10, <2>1, <2>2, <2>3 DEF CacheIsSo
<1> QED BY <1>3, <1>4, <1>6, <1>9, <1>10 DEF CacheInv

(* A row is put in place, and the rest of the page stays.                    *)
PutIs(x, e, row, v) ==
  /\ ~Q!Shows(e, row) => x = e
  /\ Q!Shows(e, row) => x.seen.data = [e.seen.data EXCEPT ![row] = v]

(* A patch of a page (patchEach).                                           *)
LEMMA PatchedFits ==
  ASSUME NEW sc, NEW p \in PagesOf(sc), NEW open \in BOOLEAN, NEW e \in EntryRec(sc),
         EntryFits(sc, open, p, e), NEW row \in RowsIn(sc), NEW v \in Q!RowValue
  PROVE  EntryFits(sc, open, p, Q!Patched(e, row, v)) /\ PutIs(Q!Patched(e, row, v), e, row, v)
<1>1. CASE ~Q!Shows(e, row)
  BY <1>1 DEF Q!Patched, PutIs
<1>2. CASE Q!Shows(e, row)
  <2> DEFINE d == [e.seen.data EXCEPT ![row] = v]
             s == [status |-> e.seen.status, data |-> d, refreshing |-> e.seen.refreshing]
             x == [there |-> e.there, epoch |-> e.epoch, flight |-> e.flight, seen |-> s]
  <2>1. e.seen \in SeenRec(sc) /\ e.seen.data \in PageData(sc, p) /\ e.seen.data # Q!NoData
        /\ e.there /\ row \in DOMAIN e.seen.data
    BY <1>2 DEF EntryFits, SeenFits, Q!Shows, Q!HasData
  <2>2. e.seen.data \in [sc.pages[p] -> Q!RowValue] /\ row \in sc.pages[p]
    BY <2>1 DEF PageData
  <2>3. d \in [sc.pages[p] -> Q!RowValue]
    BY <2>2
  <2>4. Q!Patched(e, row, v) = [e EXCEPT !.seen.data[row] = v]
    BY <1>2 DEF Q!Patched
  <2>5. [e EXCEPT !.seen.data[row] = v] = [e EXCEPT !.seen = [e.seen EXCEPT !.data = d]]
    BY <2>1 DEF EntryRec, SeenRec
  <2> HIDE DEF d
  <2>6. [e.seen EXCEPT !.data = d] = s
    BY <2>1 DEF SeenRec
  <2> HIDE DEF s
  <2>7. [e EXCEPT !.seen = s] = x
    BY DEF EntryRec
  <2>8. s \in SeenRec(sc) /\ s.data = d /\ s.status = e.seen.status
    <3>1. d \in AnyData(sc)
      BY <2>3 DEF AnyData
    <3> QED BY <2>1, <3>1 DEF s, SeenRec
  <2>9. x \in EntryRec(sc) /\ x.seen = s /\ x.flight = e.flight /\ x.there
    BY <2>1, <2>8 DEF EntryRec
  <2> HIDE DEF x
  <2>10. d \in PageData(sc, p)
    BY <2>3 DEF PageData
  <2>11. e.seen.status # "loading"
    BY <2>1 DEF EntryFits, SeenFits
  <2>12. EntryFits(sc, open, p, x)
    BY <2>8, <2>9, <2>10, <2>11 DEF EntryFits, SeenFits
  <2>13. PutIs(x, e, row, v)
    BY <1>2, <2>8, <2>9 DEF PutIs, d
  <2> QED BY <2>4, <2>5, <2>6, <2>7, <2>12, <2>13
<1> QED BY <1>1, <1>2

(* A page with one row put in place shows what was so, or what the tap made *)
(* it.                                                                      *)
LEMMA PutIsSo ==
  ASSUME NEW sc, NEW p \in PagesOf(sc), NEW e, NEW x, NEW row, NEW v, NEW given, NEW ws,
         SeenFits(sc, p, e.seen), PutIs(x, e, row, v), Q!Shows(e, row),
         \A r \in sc.pages[p] :
           r # row => So(given, r, e.seen.data[r]) \/ ByTap(ws, p, r, e.seen.data[r]),
         So(given, row, v) \/ ByTap(ws, p, row, v)
  PROVE  DataOrTap(sc, given, ws, p, x.seen.data)
<1> DEFINE d == e.seen.data
<1>1. d \in [sc.pages[p] -> Q!RowValue] /\ row \in sc.pages[p]
  BY DEF SeenFits, PageData, Q!Shows, Q!HasData
<1>2. x.seen.data = [d EXCEPT ![row] = v]
  BY DEF PutIs
<1> HIDE DEF d
<1>3. \A r \in sc.pages[p] : x.seen.data[r] = IF r = row THEN v ELSE d[r]
  BY <1>1, <1>2
<1> QED BY <1>3 DEF DataOrTap, d

(* A tap patches every page that shows the row, and keeps what they showed. *)
LEMMA TapsStep ==
  ASSUME CacheInv, NEW page \in Q!Pages, NEW row \in Q!Rows, Q!Taps(page, row)
  PROVE  CacheInv'
<1> DEFINE i == CHOOSE j \in Q!FreeWrite : \A k \in Q!FreeWrite : j <= k
           old == entries[page].seen.data[row]
           v == Q!Flipped(old)
           n == BegunRec("tap", row, ~old.set, old.version, Q!Snapshot(row))
<1>0. page \in PagesOf(scenario) /\ row \in RowsIn(scenario)
  BY PagesAre
<1>1. /\ UNCHANGED <<scenario, server, committed, watching, reads, snackbar>>
      /\ scenario.overlap \/ ~Q!Busy
      /\ Q!Shows(entries[page], row) /\ Q!FreeWrite # {} /\ Q!Spend("taps")
      /\ entries' = [p \in Q!Pages |-> Q!Patched(entries[p], row, v)]
      /\ writes' = [writes EXCEPT ![i] = n]
  <2> DEFINE flip == ~old.set
             seen2 == old.version
             snap == Q!Snapshot(row)
             n2 == TapBegun(row, flip, seen2, snap)
  <2>1. /\ UNCHANGED <<scenario, server, committed, watching, reads, snackbar>>
        /\ scenario.overlap \/ ~Q!Busy
        /\ Q!Shows(entries[page], row) /\ Q!FreeWrite # {} /\ Q!Spend("taps")
        /\ entries' = [p \in Q!Pages |-> Q!Patched(entries[p], row, v)]
        /\ writes' = [writes EXCEPT ![i] = n2]
    BY DEF Q!Taps, TapBegun
  <2>2. n2 = n
    <3> HIDE DEF flip, seen2, snap
    <3>1. n2 = BegunRec("tap", row, flip, seen2, snap)
      BY BegunIs
    <3> QED BY <3>1 DEF flip, seen2, snap
  <2> HIDE DEF n2, n, v, i
  <2> QED BY <2>1, <2>2
<1>2. i \in SlotsOf(scenario) /\ writes[i].step = "none"
  BY <1>1, FirstFree
<1>3. spent' \in [Q!Kinds -> Nat] /\ (Alone' => Alone)
  BY <1>1, SpendFits DEF CacheInv, Alone, Q!Kinds
<1>4. ServerFits' /\ ReadsFit'
  BY <1>1, <1>3 DEF CacheInv, ServerFits, ReadsFit
<1>5. \A p \in PagesOf(scenario) :
        /\ entries[p] \in EntryRec(scenario) /\ EntryFits(scenario, watching, p, entries[p])
        /\ SeenFits(scenario, p, entries[p].seen)
  BY DEF CacheInv, EntriesFit, EntryFits
<1>6. old \in Q!RowValue
  <2>1. entries[page].seen.data \in PageData(scenario, page)
        /\ entries[page].seen.data # Q!NoData /\ row \in DOMAIN entries[page].seen.data
    BY <1>0, <1>1, <1>5 DEF SeenFits, Q!Shows, Q!HasData
  <2> QED BY <2>1 DEF PageData
<1>7. v \in Q!RowValue /\ v.set = ~old.set /\ v.version = old.version
  <2> HIDE DEF old
  <2> QED BY <1>6 DEF Q!Flipped, Q!RowValue
<1>8. Q!Snapshot(row) = [p \in {q \in PagesOf(scenario) : Q!Shows(entries[q], row)} |-> entries[p].seen]
  BY PagesAre DEF Q!Snapshot
<1>9. Q!Snapshot(row) \in Befores(scenario)
  BY <1>5, <1>8 DEF Befores, SeenFits
<1>10. /\ n \in WriteRec(scenario) /\ n.step = "sent" /\ n.kind = "tap" /\ n.row = row
       /\ n.set = ~old.set /\ n.version = old.version /\ n.before = Q!Snapshot(row)
  <2>1. old.set \in BOOLEAN /\ old.version \in Nat
    BY <1>6 DEF Q!RowValue
  <2> HIDE DEF old
  <2> QED BY <1>0, <1>9, <2>1 DEF WriteRec, BegunRec
<1> HIDE DEF n, v, old, i
<1>11. WriteFits(scenario, committed', n) /\ Grows(scenario, committed, committed')
  <2>1. \A p \in DOMAIN n.before : p \in PagesOf(scenario) /\ SeenFits(scenario, p, n.before[p])
                                    /\ n.before[p].data # Q!NoData
    BY <1>5, <1>8, <1>10 DEF Q!Shows, Q!HasData
  <2> QED BY <1>0, <1>1, <1>10, <2>1 DEF WriteFits, Grows
<1>12. /\ WritesFit' /\ writes'[i] = n
       /\ \A j \in SlotsOf(scenario) : j # i => writes'[j] = writes[j]
  BY <1>1, <1>2, <1>11, OneWrite DEF CacheInv
<1>13. DOMAIN entries' = PagesOf(scenario)
       /\ \A p \in PagesOf(scenario) : entries'[p] = Q!Patched(entries[p], row, v)
  BY <1>1, PagesAre
<1>14. \A p \in PagesOf(scenario) :
         EntryFits(scenario, watching, p, entries'[p]) /\ PutIs(entries'[p], entries[p], row, v)
  <2> TAKE p \in PagesOf(scenario)
  <2> DEFINE e == entries[p]
  <2>1. e \in EntryRec(scenario) /\ EntryFits(scenario, watching, p, e) /\ watching \in BOOLEAN
    BY <1>5 DEF CacheInv, ServerFits
  <2> HIDE DEF e
  <2>2. /\ EntryFits(scenario, watching, p, Q!Patched(e, row, v))
        /\ PutIs(Q!Patched(e, row, v), e, row, v)
    BY <1>0, <1>7, <2>1, PatchedFits
  <2> QED BY <1>13, <2>2 DEF e
<1>15. EntriesFit'
  BY <1>1, <1>13, <1>14 DEF EntriesFit
<1>16. ASSUME Alone' PROVE CacheIsSo'
  <2>1. Settled /\ CacheIsSo /\ \A j \in SlotsOf(scenario) : writes[j].step = "none"
    BY <1>1, <1>3, <1>16, SettledWhenFree DEF CacheInv, Alone
  <2>2. OneAtATime(writes') /\ DOMAIN writes' = SlotsOf(scenario)
    BY <1>1, <1>12, <2>1 DEF OneAtATime, WritesFit
  <2>3. ASSUME NEW p \in PagesOf(scenario)
        PROVE  DataOrTap(scenario, committed, writes', p, entries'[p].seen.data)
    <3>1. DataIsSo(scenario, committed, p, entries[p].seen.data)
      BY <2>1 DEF Settled
    <3>2. CASE ~Q!Shows(entries[p], row)
      <4>1. entries'[p] = entries[p]
        BY <1>14, <3>2 DEF PutIs
      <4> QED BY <3>1, <4>1, SettledIsSo
    <3>3. CASE Q!Shows(entries[p], row)
      <4>1. ByTap(writes', p, row, v)
        <5>1. p \in DOMAIN n.before
          BY <1>8, <1>10, <3>3
        <5> QED BY <1>2, <1>7, <1>10, <1>12, <2>2, <5>1 DEF ByTap
      <4>2. \A r \in scenario.pages[p] : So(committed, r, entries[p].seen.data[r])
        BY <3>1, <3>3 DEF DataIsSo, Q!Shows, Q!HasData
      <4>3. SeenFits(scenario, p, entries[p].seen) /\ PutIs(entries'[p], entries[p], row, v)
        BY <1>5, <1>14
      <4> QED BY <3>3, <4>1, <4>2, <4>3, PutIsSo
    <3> QED BY <3>2, <3>3
  <2>4. ASSUME NEW j \in SlotsOf(scenario)
        PROVE  WriteIsSo(scenario, committed, writes'[j])
    <3>1. \A p \in DOMAIN n.before : DataIsSo(scenario, committed, p, n.before[p].data)
      BY <1>8, <1>10, <2>1 DEF Settled
    <3> QED BY <1>12, <2>1, <3>1 DEF WriteIsSo
  <2> QED BY <1>1, <2>1, <2>2, <2>3, <2>4 DEF CacheIsSo
<1> QED BY <1>4, <1>12, <1>15, <1>16 DEF CacheInv

(* Once the write that was on its way has been answered, every row shown is  *)
(* so: the answer is put where the tap's value stood, or the answer is the   *)
(* tap's value a version on, and the page is read again.                     *)
LEMMA AnsweredIsSo ==
  ASSUME CacheInv, CacheIsSo, NEW i \in SlotsOf(scenario), writes[i].step = "written",
         ~(writes[i].kind = "tap" /\ scenario.answers)
  PROVE  Settled
<1> DEFINE w == writes[i]
<1>1. /\ w.answer \in committed[w.row]
      /\ scenario.versioned => w.answer = [set |-> w.set, version |-> w.version + 1]
  BY DEF CacheInv, WritesFit, WriteFits
<1>2. scenario.versioned \/ scenario.answers
  BY WebAssumption DEF CacheInv, ServerFits
<1>3. ASSUME NEW p, NEW r, NEW v, ByTap(writes, p, r, v) PROVE So(committed, r, v)
  <2>1. PICK j \in DOMAIN writes :
          /\ writes[j].step # "none" /\ writes[j].kind = "tap" /\ writes[j].row = r
          /\ v.set = writes[j].set /\ v.version = writes[j].version
    BY <1>3 DEF ByTap
  <2>2. j = i
    BY <2>1 DEF CacheIsSo, OneAtATime, CacheInv, WritesFit
  <2>3. w.answer = [set |-> v.set, version |-> v.version + 1] /\ w.row = r
    BY <1>1, <1>2, <2>1, <2>2
  <2> QED BY <1>1, <2>3 DEF So, Q!WasSo
<1> QED BY <1>3 DEF CacheIsSo, DataOrTap, DataIsSo, Settled

(* The answer of a write takes the tap's place, or the lists are read       *)
(* again.                                                                   *)
LEMMA SucceedsStep ==
  ASSUME CacheInv, NEW i \in Q!Slots, Q!Succeeds(i)
  PROVE  CacheInv'
<1> DEFINE w == writes[i]
<1>1. /\ UNCHANGED <<scenario, server, committed, watching, spent>>
      /\ w.step = "written"
      /\ writes' = [writes EXCEPT ![i] = Q!NoWrite]
      /\ snackbar' = Q!Offer(w)
  BY DEF Q!Succeeds
<1>2. i \in SlotsOf(scenario) /\ DOMAIN writes = SlotsOf(scenario)
      /\ WriteFits(scenario, committed, w) /\ w \in WriteRec(scenario)
      /\ w.row \in RowsIn(scenario) /\ w.answer \in Q!RowValue /\ w.answer \in committed[w.row]
  BY <1>1, PagesAre DEF CacheInv, WritesFit, WriteFits
<1>3. ServerFits' /\ (Alone' => Alone)
  <2>1. Q!Offer(w) \in {[row |-> w.row, set |-> ~w.set, version |-> w.answer.version], Q!NoOffer}
    BY DEF Q!Offer
  <2>2. w.set \in BOOLEAN /\ w.answer.version \in Nat
    BY <1>2 DEF WriteRec, Q!RowValue
  <2>3. Q!NoOffer \in OfferRec(scenario)
    BY DEF OfferRec, Q!NoOffer, Q!None
  <2>4. /\ Q!Offer(w) \in OfferRec(scenario)
        /\ Q!Offer(w) # Q!NoOffer => Q!Offer(w).row \in RowsIn(scenario)
    <3>1. CASE Q!Offer(w) = Q!NoOffer
      BY <2>3, <3>1
    <3>2. CASE Q!Offer(w) = [row |-> w.row, set |-> ~w.set, version |-> w.answer.version]
      BY <1>2, <2>2, <3>2 DEF OfferRec
    <3> QED BY <2>1, <3>1, <3>2
  <2> HIDE DEF w
  <2>5. /\ snackbar' \in OfferRec(scenario)
        /\ snackbar' # Q!NoOffer => snackbar'.row \in RowsIn(scenario)
    BY <1>1, <2>4
  <2> QED BY <1>1, <2>5 DEF CacheInv, ServerFits, Alone
<1>4. WriteFits(scenario, committed', Q!NoWrite) /\ Grows(scenario, committed, committed')
  BY <1>1, NoWriteFits DEF Grows
<1>5. /\ WritesFit' /\ writes'[i] = Q!NoWrite
      /\ \A j \in SlotsOf(scenario) : j # i => writes'[j] = writes[j]
  BY <1>1, <1>2, <1>4, OneWrite DEF CacheInv
<1>6. CacheIsSo => /\ OneAtATime(writes')
                   /\ \A j \in SlotsOf(scenario) : writes'[j].step = "none"
                   /\ \A j \in SlotsOf(scenario) : WriteIsSo(scenario, committed, writes'[j])
  <2>1. ASSUME CacheIsSo, NEW j \in SlotsOf(scenario) PROVE writes'[j].step = "none"
    <3>1. CASE j = i
      BY <1>5, <3>1, NoWriteFits
    <3>2. CASE j # i
      BY <1>1, <1>2, <1>5, <2>1, <3>2 DEF CacheIsSo, OneAtATime
    <3> QED BY <3>1, <3>2
  <2>2. DOMAIN writes' = SlotsOf(scenario)
    BY <1>1, <1>2
  <2> QED BY <2>1, <2>2 DEF OneAtATime, WriteIsSo
<1>7. CASE w.kind = "tap" /\ scenario.answers
  <2>1. entries' = Q!AnswerPut(w) /\ reads' = reads
    BY <1>7 DEF Q!Succeeds
  <2>2. DOMAIN entries' = PagesOf(scenario)
        /\ \A p \in PagesOf(scenario) : entries'[p] = Q!Patched(entries[p], w.row, w.answer)
    BY <2>1, PagesAre DEF Q!AnswerPut
  <2>3. \A p \in PagesOf(scenario) :
          /\ EntryFits(scenario, watching, p, entries[p])
          /\ EntryFits(scenario, watching, p, entries'[p])
          /\ PutIs(entries'[p], entries[p], w.row, w.answer)
    <3> TAKE p \in PagesOf(scenario)
    <3> DEFINE e == entries[p]
               row == w.row
               v == w.answer
    <3>1. e \in EntryRec(scenario) /\ EntryFits(scenario, watching, p, e) /\ watching \in BOOLEAN
          /\ row \in RowsIn(scenario) /\ v \in Q!RowValue /\ entries'[p] = Q!Patched(e, row, v)
      BY <1>2, <2>2 DEF CacheInv, ServerFits, EntriesFit, EntryFits
    <3> HIDE DEF e, row, v
    <3>2. /\ EntryFits(scenario, watching, p, Q!Patched(e, row, v))
          /\ PutIs(Q!Patched(e, row, v), e, row, v)
      BY <3>1, PatchedFits
    <3> QED BY <3>1, <3>2 DEF e, row, v
  <2>4. EntriesFit' /\ ReadsFit'
    BY <1>1, <2>1, <2>2, <2>3 DEF EntriesFit, ReadsFit, CacheInv
  <2>5. ASSUME CacheIsSo, NEW p \in PagesOf(scenario)
        PROVE  DataOrTap(scenario, committed, writes', p, entries'[p].seen.data)
    <3> DEFINE e == entries[p]
               row == w.row
               v == w.answer
    <3>1. SeenFits(scenario, p, e.seen) /\ PutIs(entries'[p], e, row, v)
          /\ DataOrTap(scenario, committed, writes, p, e.seen.data)
          /\ e.seen.data \in PageData(scenario, p)
          /\ (~e.there => e.seen.data = Q!NoData)
      BY <2>3, <2>5 DEF EntryFits, CacheIsSo, SeenFits
    <3>2. \A r, u : ByTap(writes, p, r, u) => r = row
      BY <1>1, <1>2, <2>5 DEF ByTap, CacheIsSo, OneAtATime
    <3>3. So(committed, row, v)
      BY <1>2 DEF So, Q!WasSo
    <3>4. row \in DOMAIN e.seen.data <=> Q!Shows(e, row) \/ (e.seen.data = Q!NoData /\ row \in DOMAIN e.seen.data)
      BY <3>1 DEF Q!Shows, Q!HasData
    <3> HIDE DEF e, row, v
    <3>5. CASE ~Q!Shows(e, row)
      <4>1. entries'[p] = e
        BY <3>1, <3>5 DEF PutIs
      <4>2. ASSUME e.seen.data # Q!NoData, NEW r \in scenario.pages[p]
            PROVE  So(committed, r, e.seen.data[r])
        <5>1. r \in DOMAIN e.seen.data
          BY <3>1, <4>2 DEF PageData
        <5>2. r # row
          BY <3>4, <3>5, <4>2, <5>1
        <5> QED BY <3>1, <3>2, <4>2, <5>2 DEF DataOrTap
      <4>3. DataIsSo(scenario, committed, p, e.seen.data)
        BY <4>2 DEF DataIsSo
      <4> QED BY <4>1, <4>3, SettledIsSo
    <3>6. CASE Q!Shows(e, row)
      <4>1. \A r \in scenario.pages[p] : r # row => So(committed, r, e.seen.data[r])
        BY <3>1, <3>2, <3>6 DEF DataOrTap, Q!Shows, Q!HasData
      <4> QED BY <3>1, <3>3, <3>6, <4>1, PutIsSo
    <3> QED BY <3>5, <3>6
  <2>6. CacheIsSo => CacheIsSo'
    BY <1>1, <1>6, <2>1, <2>5 DEF CacheIsSo
  <2> QED BY <1>3, <1>5, <2>4, <2>6 DEF CacheInv
<1>8. CASE ~(w.kind = "tap" /\ scenario.answers) /\ watching
  <2> DEFINE pages == {p \in PagesOf(scenario) : entries[p].there}
  <2>1. Q!Loads(entries, pages, TRUE)
    BY <1>8, PagesAre DEF Q!Succeeds, Q!Invalidates
  <2>2. pages = PagesOf(scenario)
    BY <1>8 DEF CacheInv, EntriesFit, EntryFits
  <2> HIDE DEF pages
  <2>3. Q!Loads(entries, PagesOf(scenario), TRUE)
    BY <2>1, <2>2
  <2>4. /\ EntriesFit' /\ ReadsFit'
        /\ (\A p \in PagesOf(scenario) :
              DataOrTap(scenario, committed, writes', p, entries[p].seen.data))
             => \A p \in PagesOf(scenario) :
                  DataOrTap(scenario, committed, writes', p, entries'[p].seen.data)
        /\ (\A j \in SlotsOf(scenario) : ReadIsSo(scenario, committed, reads[j]))
              => \A j \in SlotsOf(scenario) : ReadIsSo(scenario, committed, reads'[j])
    BY <1>1, <2>3, LoadsKeep DEF CacheInv
  <2>5. CacheIsSo => \A p \in PagesOf(scenario) :
                       DataOrTap(scenario, committed, writes', p, entries[p].seen.data)
    BY <1>1, <1>2, <1>8, AnsweredIsSo, SettledIsSo DEF Settled
  <2>6. CacheIsSo => CacheIsSo'
    BY <1>1, <1>6, <2>4, <2>5 DEF CacheIsSo
  <2> QED BY <1>3, <1>5, <2>4, <2>6 DEF CacheInv
<1>9. CASE ~(w.kind = "tap" /\ scenario.answers) /\ ~watching
  <2>1. entries' = Q!Dropped(entries) /\ reads' = Q!Orphaned(entries)
    BY <1>9 DEF Q!Succeeds, Q!Invalidates
  <2>2. /\ DOMAIN entries' = PagesOf(scenario)
        /\ \A p \in PagesOf(scenario) :
             entries'[p] = [entries[p] EXCEPT !.there = FALSE, !.flight = 0, !.seen = Q!Missing]
    BY <2>1, PagesAre DEF Q!Dropped, Q!None
  <2>3. ASSUME NEW p \in PagesOf(scenario)
        PROVE  EntryFits(scenario, FALSE, p, entries'[p]) /\ entries'[p].seen = Q!Missing
    <3> DEFINE e == entries[p]
               x == [there |-> FALSE, epoch |-> e.epoch, flight |-> 0, seen |-> Q!Missing]
    <3>1. e \in EntryRec(scenario)
      BY DEF CacheInv, EntriesFit, EntryFits
    <3> HIDE DEF e
    <3>2. [e EXCEPT !.there = FALSE, !.flight = 0, !.seen = Q!Missing] = x
      <4> DEFINE o == FALSE
                 y == [e EXCEPT !.there = o]
                 s == Q!Missing
      <4>1. e = [there |-> e.there, epoch |-> e.epoch, flight |-> e.flight, seen |-> e.seen]
        BY <3>1 DEF EntryRec
      <4> DEFINE z == 0
      <4> HIDE DEF o, s, z
      <4>2. y = [there |-> o, epoch |-> e.epoch, flight |-> e.flight, seen |-> e.seen]
        BY <4>1
      <4> HIDE DEF y
      <4> DEFINE f == [y EXCEPT !.flight = z]
      <4>3. f = [there |-> o, epoch |-> e.epoch, flight |-> z, seen |-> e.seen]
        BY <4>2
      <4> HIDE DEF f
      <4>4. [f EXCEPT !.seen = s] =
              [there |-> o, epoch |-> e.epoch, flight |-> z, seen |-> s]
        BY <4>3
      <4> QED BY <4>4 DEF o, y, s, z, f
    <3>3. e.epoch \in Nat /\ 0 \in PageFlights(scenario)
      BY <3>1 DEF EntryRec, PageFlights
    <3>4. EntryFits(scenario, FALSE, p, x) /\ x.seen = Q!Missing
      BY <3>3, MissingFits DEF EntryFits, EntryRec, SeenFits
    <3> QED BY <2>2, <3>2, <3>4 DEF e
  <2>4. EntriesFit'
    BY <1>1, <1>9, <2>2, <2>3 DEF EntriesFit, EntryFits
  <2>5. ASSUME NEW j \in SlotsOf(scenario)
        PROVE  /\ ReadFits(scenario, committed, reads'[j])
               /\ CacheIsSo => ReadIsSo(scenario, committed, reads'[j])
    <3> DEFINE r == reads[j]
               d == entries[r.page].seen.data
    <3>1. ReadFits(scenario, committed, r) /\ (CacheIsSo => ReadIsSo(scenario, committed, r))
      BY DEF CacheInv, ReadsFit, CacheIsSo
    <3>2. CASE r.step = "none"
      <4>1. reads'[j] = r
        BY <2>1, <3>2, PagesAre DEF Q!Orphaned
      <4> QED BY <3>1, <4>1
    <3>3. CASE r.step # "none"
      <4>1. reads'[j] = r \/ reads'[j] = [r EXCEPT !.kept = d]
        BY <2>1, PagesAre DEF Q!Orphaned
      <4>2. r.page \in PagesOf(scenario) /\ r \in ReadRec(scenario)
        BY <3>1, <3>3 DEF ReadFits
      <4>3. d \in PageData(scenario, r.page)
        BY <4>2 DEF CacheInv, EntriesFit, EntryFits, SeenFits
      <4>4. CacheIsSo => DataIsSo(scenario, committed, r.page, d)
        BY <1>1, <1>2, <1>9, <4>2, AnsweredIsSo DEF Settled
      <4> DEFINE n == [r EXCEPT !.kept = d]
      <4>5. n = [step |-> r.step, page |-> r.page, epoch |-> r.epoch, tries |-> r.tries,
                 snap |-> r.snap, kept |-> d]
        <5> HIDE DEF r, d
        <5> QED BY <4>2 DEF ReadRec
      <4>6. d \in AnyData(scenario)
        BY <4>2, <4>3, DataOfPage
      <4> HIDE DEF r, d, n
      <4>7. /\ n \in ReadRec(scenario) /\ n.step = r.step /\ n.page = r.page /\ n.snap = r.snap
            /\ n.kept = d
        BY <4>2, <4>5, <4>6 DEF ReadRec
      <4>8. ReadFits(scenario, committed, n)
        BY <3>1, <4>2, <4>3, <4>7 DEF ReadFits
      <4>9. CacheIsSo => ReadIsSo(scenario, committed, n)
        BY <4>4, <4>7 DEF ReadIsSo
      <4> QED BY <3>1, <4>1, <4>8, <4>9 DEF n
    <3> QED BY <3>2, <3>3
  <2>6. ReadsFit'
    BY <1>1, <2>1, <2>5, PagesAre DEF ReadsFit, Q!Orphaned
  <2>7. \A p \in PagesOf(scenario) : entries'[p].seen.data = Q!NoData
    BY <2>3, MissingFits
  <2>8. CacheIsSo => CacheIsSo'
    BY <1>1, <1>6, <2>5, <2>7, NothingIsSo DEF CacheIsSo
  <2> QED BY <1>3, <1>5, <2>4, <2>6, <2>8 DEF CacheInv
<1> QED BY <1>7, <1>8, <1>9

(* Every step keeps what the cache keeps.                                   *)
LEMMA CacheStep ==
  ASSUME CacheInv, [Q!Next]_(Q!vars)
  PROVE  CacheInv'
BY CacheStays, OpensStep, LeavesStep, ServerReadsStep, ReadReturnsStep, ReadFailsStep,
   ServerWritesStep, ChatChangesStep, UndoTappedStep, GivesUpStep, TapsStep, SucceedsStep
   DEF Q!Next

------------------------------------------------------------------------------
(* The app and its server as one.                                           *)

(* What holds in each world; Web runs one of them.                          *)
WebInv ==
  /\ world \in {"router", "screens", "week", "requests", "cache", "lists", "schedules"}
  /\ world = "router" => RouterInv
  /\ world = "screens" => ScreensInv
  /\ world = "week" => WeekInv
  /\ world = "requests" => RequestsInv
  /\ world = "cache" => CacheInv
  /\ world = "lists" => ListsInv
  /\ world = "schedules" => SchedulesInv

(* Every story begins with it.                                              *)
LEMMA WebStart == Init => WebInv
BY RouterStart, ScreensStart, WeekStart, RequestsStart, CacheStart, ListsStart,
   SchedulesStart
   DEF Init, WebInv

(* A step of one world keeps what holds in it, and what holds in the others *)
(* is about worlds that are off.                                            *)
LEMMA WebStep ==
  ASSUME WebInv, [Next]_vars
  PROVE  WebInv'
<1>1. CASE OnWeek
  BY <1>1, WeekStep DEF OnWeek, WebInv
<1>2. CASE OnScreens
  BY <1>2, ScreensStep DEF OnScreens, WebInv
<1>3. CASE InRequests
  BY <1>3, RequestsStep DEF InRequests, WebInv
<1>4. CASE InRouter
  BY <1>4, RouterStep DEF InRouter, WebInv
<1>5. CASE InCache
  BY <1>5, CacheStep DEF InCache, WebInv
<1>6. CASE OnLists
  BY <1>6, ListsStep DEF OnLists, WebInv
<1>7. CASE OfDates
  BY <1>7, SchedulesStep DEF OfDates, WebInv
<1>8. CASE UNCHANGED vars
  <2>1. /\ world' = world /\ UNCHANGED N!vars /\ UNCHANGED D!vars
        /\ UNCHANGED P!vars /\ UNCHANGED A!vars /\ UNCHANGED Q!vars
        /\ UNCHANGED L!vars /\ UNCHANGED S!vars
    BY <1>8 DEF vars, weekOnly, screensOnly, requestsOnly, routerOnly, cacheOnly, listsOnly,
                datesOnly, N!vars, D!vars, P!vars, A!vars, Q!vars, L!vars, S!vars
  <2> QED BY <2>1, RouterStays, ScreensStay, WeekStays, RequestsStay, CacheStays,
             ListsStep, SchedulesStep DEF WebInv
<1> QED BY <1>1, <1>2, <1>3, <1>4, <1>5, <1>6, <1>7, <1>8 DEF Next

(* The worlds keep what they keep.                                          *)
THEOREM WebKept == Spec => []WebInv
<1>1. WebInv /\ [Next]_vars => WebInv'
  BY WebStep
<1> QED BY WebStart, <1>1, PTL DEF Spec

(* Every variable of every part has its type: the histories and screens, the *)
(* rows, the tables of the limits, which never outgrow their bound, the      *)
(* cache, the lists, and the dates of a schedule with their states and times. *)
THEOREM WebTyped == Spec => []TypeOK
<1>1. WebInv => TypeOK
  BY RouterTyped, ScreensTyped, WeekTyped, RequestsTyped, CacheSound, ListsTyped, SchedulesTyped
     DEF WebInv, TypeOK
<1> QED BY WebKept, <1>1, PTL

(* The screen is the one the address names, a depth promises what is there  *)
(* to go back to, and back leads home from everywhere, however the app was  *)
(* opened and whatever the history holds (router.tsx).                      *)
THEOREM BackLeadsHome == Spec => []RouterIsSound
<1>1. WebInv => RouterIsSound
  BY RouterHolds DEF WebInv, RouterIsSound
<1> QED BY WebKept, <1>1, PTL

(* With one write at a time, whatever failed, was refused, rolled back or    *)
(* came late: once nothing is on its way, every row the cache shows has been *)
(* the server's; and an open screen with nothing but a skeleton has a read   *)
(* on its way (QueryCache.patchEach, load, invalidate).  And the lists:      *)
(* nothing unclosed falls between the screens, the tabs nest and their       *)
(* badges count their lines, and what counts as past reads as overdue        *)
(* (filterByScope, scopeCounts, groupTaskRows, paginate).                    *)
THEOREM ScreensKeptHonest == Spec => []ScreenIsHonest
<1>1. WebInv => ScreenIsHonest
  BY CacheSound, NothingIsLost, TabsFit, PastIsOverdue DEF WebInv, ScreenIsHonest
<1> QED BY WebKept, <1>1, PTL

(* No address gets more than its share of a window, one that waits as long  *)
(* as it was told to is let in, the app acts on the code that was raised,   *)
(* and a conflict is only answered when something did move, but for the move *)
(* of a whole series (SlidingWindowRateLimiter, toRequestError,              *)
(* web-tasks.service).                                                       *)
THEOREM RefusalsKeptFair == Spec => []RefusalsAreFair
<1>1. WebInv => RefusalsAreFair
  BY RequestsSound, ConflictsMeanMoved DEF WebInv, RefusalsAreFair
<1> QED BY WebKept, <1>1, PTL

(* A write of a task's screen, but for a "done" and a move of a task without *)
(* a date or of a whole series, finds the task or date as shown; two taps of *)
(* the week's page do not both take its last place nor move a row twice; and *)
(* a press of back never throws a typed title away without asking.           *)
THEOREM TapsKeptMeaning == Spec => TapsMeanWhatTheyShow
<1> DEFINE Meant == /\ world = "screens" => D!LandsAsShown
                    /\ world = "week" => P!TapsDoNotCollide
                    /\ world = "router" => N!AskedDraft
<1>1. WebInv /\ Next => Meant
  <2> SUFFICES ASSUME WebInv, Next PROVE Meant
    OBVIOUS
  <2>1. CASE world = "screens"
    <3>1. D!Next /\ ScreensInv
      BY <2>1 DEF Next, OnWeek, OnLists, OfDates, InCache, OnScreens, InRequests, InRouter, WebInv
    <3> QED BY <2>1, <3>1, WritesLand
  <2>2. CASE world = "week"
    <3>1. P!Next /\ WeekInv
      BY <2>2 DEF Next, OnWeek, OnLists, OfDates, InCache, OnScreens, InRequests, InRouter, WebInv
    <3> QED BY <2>2, <3>1, TapsKept
  <2>3. CASE world = "router"
    BY <2>3, DraftAsked DEF WebInv
  <2> QED BY <2>1, <2>2, <2>3
<1>2. WebInv /\ [Next]_vars => [Meant]_vars
  BY <1>1
<1>3. TapsMeanWhatTheyShow <=> [][Meant]_vars
  BY DEF TapsMeanWhatTheyShow
<1> QED BY WebKept, <1>2, <1>3, PTL DEF Spec
==============================================================================
