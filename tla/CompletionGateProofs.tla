----------------------- MODULE CompletionGateProofs ------------------------
(***************************************************************************)
(* The router and the completion gate, for every document: what the        *)
(* scanners of PhasesDoc have in common whatever lines they read, and with *)
(* it that the gate accepts what the router sends but for the named gaps,  *)
(* and completes nothing that is owed.                                     *)
(*                                                                         *)
(* A scanner is a recursive function, and what it computes is proved by    *)
(* induction: as sets of numbers, for the provers instantiate no operator. *)
(***************************************************************************)
EXTENDS CompletionGate, FiniteSetTheorems, SequenceTheorems, WellFoundedInduction, TLAPS

-----------------------------------------------------------------------------
(* Induction and recursion on numbers. *)

\* A set that has 0 and with a number its successor has every number.
LEMMA SetInduction ==
  ASSUME NEW T, 0 \in T, \A n \in Nat : n \in T => n + 1 \in T
  PROVE  Nat \subseteq T
<1> DEFINE R == OpToRel(<, Nat)
           U == Nat \ T
<1>1. IsWellFoundedOn(R, Nat)
  BY NatLessThanWellFounded
<1>2. \A x, y \in Nat : <<y, x>> \in R <=> y < x
  BY DEF OpToRel
<1> HIDE DEF R
<1>3. SUFFICES ASSUME U # {} PROVE FALSE
  OBVIOUS
<1>4. PICK x \in U : \A y \in U : <<y, x>> \notin R
  <2> HIDE DEF U
  <2> U \subseteq Nat
    BY DEF U
  <2> QED BY <1>1, <1>3, WFMin
<1>5. x # 0 /\ x - 1 \in Nat /\ (x - 1) + 1 = x /\ x - 1 < x
  OBVIOUS
<1>6. <<x - 1, x>> \in R
  BY <1>2, <1>5
<1> QED BY <1>4, <1>5, <1>6

\* So a set that has a, and with each number below b its successor, has a .. b.
LEMMA Interval ==
  ASSUME NEW a \in Nat, NEW b \in Nat, NEW T, a \in T,
         \A j \in a .. b - 1 : j \in T => j + 1 \in T
  PROVE  \A j \in a .. b : j \in T
<1> DEFINE U == {k \in Nat : a + k <= b => a + k \in T}
<1>1. 0 \in U
  OBVIOUS
<1>2. ASSUME NEW k \in Nat, k \in U PROVE k + 1 \in U
  <2>1. SUFFICES ASSUME a + (k + 1) <= b PROVE a + (k + 1) \in T
    OBVIOUS
  <2>2. a + k \in T /\ a + k \in a .. b - 1 /\ (a + k) + 1 = a + (k + 1)
    BY <1>2, <2>1
  <2> QED BY <2>2
<1>3. Nat \subseteq U
  <2> HIDE DEF U
  <2> QED BY <1>1, <1>2, SetInduction
<1>4. ASSUME NEW j \in a .. b PROVE j \in T
  <2>1. j - a \in Nat /\ a + (j - a) = j /\ j <= b
    OBVIOUS
  <2> QED BY <1>3, <2>1
<1> QED BY <1>4

\* f follows the recursion from a up to k.
Solves(f, F, a, k) == f[0] = a /\ \A j \in 1 .. k : f[j] = F[<<f[j - 1], j>>]

\* There is a function that follows a recursion within a set.
LEMMA Recursion ==
  ASSUME NEW S, NEW a \in S, NEW n \in Nat, NEW F,
         \A s \in S, j \in 1 .. n : F[<<s, j>>] \in S
  PROVE  \E f \in [0 .. n -> S] : Solves(f, F, a, n)
<1> DEFINE Ok(k) == k <= n => \E f \in [0 .. k -> S] : Solves(f, F, a, k)
           T == {k \in Nat : Ok(k)}
<1>1. Ok(0)
  <2> DEFINE f == [i \in 0 .. 0 |-> a]
  <2>1. f \in [0 .. 0 -> S] /\ f[0] = a
    OBVIOUS
  <2>2. Solves(f, F, a, 0)
    BY <2>1 DEF Solves
  <2> QED BY <2>1, <2>2
<1>2. ASSUME NEW k \in Nat, Ok(k) PROVE Ok(k + 1)
  <2>1. SUFFICES ASSUME k + 1 <= n PROVE \E f \in [0 .. k + 1 -> S] : Solves(f, F, a, k + 1)
    OBVIOUS
  <2>2. PICK f \in [0 .. k -> S] : Solves(f, F, a, k)
    BY <1>2, <2>1
  <2>3. f[k] \in S /\ F[<<f[k], k + 1>>] \in S
    BY <2>1
  <2> DEFINE x == F[<<f[k], k + 1>>]
             g == [i \in 0 .. k + 1 |-> IF i = k + 1 THEN x ELSE f[i]]
  <2>4. x \in S
    BY <2>3
  <2>5. /\ g \in [0 .. k + 1 -> S] /\ g[0] = f[0] /\ g[k + 1] = x
        /\ \A i \in 0 .. k : g[i] = f[i]
    <3> HIDE DEF x
    <3> QED BY <2>4
  <2> HIDE DEF g
  <2>6. ASSUME NEW j \in 1 .. k + 1 PROVE g[j] = F[<<g[j - 1], j>>]
    <3>1. CASE j = k + 1
      BY <2>5, <3>1
    <3>2. CASE j \in 1 .. k
      <4>1. f[j] = F[<<f[j - 1], j>>]
        BY <2>2, <3>2 DEF Solves
      <4>2. g[j] = f[j] /\ g[j - 1] = f[j - 1]
        BY <2>5, <3>2
      <4> QED BY <4>1, <4>2
    <3> QED BY <3>1, <3>2
  <2>7. Solves(g, F, a, k + 1)
    BY <2>2, <2>5, <2>6 DEF Solves
  <2> QED BY <2>5, <2>7
<1> HIDE DEF Ok
<1>3. 0 \in T /\ \A k \in Nat : k \in T => k + 1 \in T
  BY <1>1, <1>2
<1>4. n \in T
  <2> HIDE DEF T
  <2> QED BY <1>3, SetInduction
<1> QED BY <1>4 DEF Ok

-----------------------------------------------------------------------------
(* The scopes of the scanners. *)

Scope == [superseded : BOOLEAN, verification : BOOLEAN, shim : BOOLEAN, descoped : BOOLEAN,
          host : BOOLEAN]

RouterAt(d, i)   == ScopeAt(EnterRouter, d, i)
AutotickAt(d, i) == ScopeAt(EnterAutotick, d, i)
LedgerAt(d, i)   == ScopeAt(EnterLedger, d, i)
ParseAt(d, i)    == ScopeAt(EnterParse, d, i)
CoverAt(d, i)    == ScopeAt(EnterCover, d, i)

\* Every scanner makes a scope of a scope.
LEMMA EnterType ==
  ASSUME NEW s \in Scope, NEW l \in Line
  PROVE  /\ EnterRouter(s, l) \in Scope /\ EnterAutotick(s, l) \in Scope
         /\ EnterLedger(s, l) \in Scope /\ EnterParse(s, l) \in Scope
         /\ EnterCover(s, l) \in Scope
<1> USE DEF Scope, Line, NoScope, Titled, Names, Supersedes, PlainBold
<1>1. EnterRouter(s, l) \in Scope
  BY DEF EnterRouter
<1>2. EnterAutotick(s, l) \in Scope
  BY DEF EnterAutotick
<1>3. EnterLedger(s, l) \in Scope
  BY DEF EnterLedger
<1>4. EnterParse(s, l) \in Scope
  BY DEF EnterParse
<1>5. EnterCover(s, l) \in Scope
  BY DEF EnterCover
<1> QED BY <1>1, <1>2, <1>3, <1>4, <1>5

\* The router's scanner begins without a scope and goes from line to line.
LEMMA RouterScan ==
  ASSUME NEW d \in Seq(Line)
  PROVE  /\ RouterAt(d, 0) = NoScope
         /\ \A i \in 1 .. Len(d) : RouterAt(d, i) = EnterRouter(RouterAt(d, i - 1), d[i])
         /\ \A i \in 0 .. Len(d) : RouterAt(d, i) \in Scope
<1> DEFINE n == Len(d)
           F == [p \in Scope \X (1 .. n) |-> EnterRouter(p[1], d[p[2]])]
           after[j \in 0 .. n] == IF j = 0 THEN NoScope ELSE EnterRouter(after[j - 1], d[j])
<1>1. n \in Nat /\ NoScope \in Scope
  BY DEF NoScope, Scope
<1>2. ASSUME NEW s \in Scope, NEW j \in 1 .. n
      PROVE  F[<<s, j>>] = EnterRouter(s, d[j]) /\ F[<<s, j>>] \in Scope
  <2>1. d[j] \in Line
    OBVIOUS
  <2>2. EnterRouter(s, d[j]) \in Scope
    BY <2>1, EnterType
  <2>3. F[<<s, j>>] = EnterRouter(s, d[j])
    OBVIOUS
  <2> QED BY <2>2, <2>3
<1> HIDE DEF F
<1>3. PICK f \in [0 .. n -> Scope] : Solves(f, F, NoScope, n)
  <2> HIDE DEF n
  <2> QED BY <1>1, <1>2, Recursion
<1>4. f = [j \in 0 .. n |-> IF j = 0 THEN NoScope ELSE EnterRouter(f[j - 1], d[j])]
  BY <1>2, <1>3 DEF Solves
<1>5. after = [j \in 0 .. n |-> IF j = 0 THEN NoScope ELSE EnterRouter(after[j - 1], d[j])]
  <2> HIDE DEF n
  <2> QED BY <1>4
<1>6. \A i \in 0 .. n : RouterAt(d, i) = after[i]
  BY DEF RouterAt, ScopeAt
<1> HIDE DEF after
<1>7. RouterAt(d, 0) = NoScope /\ \A i \in 1 .. n : RouterAt(d, i) = EnterRouter(RouterAt(d, i - 1), d[i])
  BY <1>1, <1>5, <1>6
<1>8. \A i \in 0 .. n : i \in {j \in 0 .. n : RouterAt(d, j) \in Scope}
  <2> DEFINE T == {j \in 0 .. n : RouterAt(d, j) \in Scope}
  <2>1. 0 \in T
    BY <1>1, <1>7
  <2>2. ASSUME NEW j \in 0 .. n - 1, j \in T PROVE j + 1 \in T
    <3>1. j + 1 \in 1 .. n /\ (j + 1) - 1 = j /\ d[j + 1] \in Line
      BY <1>1
    <3>2. RouterAt(d, j + 1) = EnterRouter(RouterAt(d, j), d[j + 1])
      BY <1>7, <3>1
    <3>3. RouterAt(d, j + 1) \in Scope
      BY <2>2, <3>1, <3>2, EnterType
    <3> QED BY <3>1, <3>3
  <2> HIDE DEF n, T
  <2>3. \A i \in 0 .. n : i \in T
    BY <1>1, <2>1, <2>2, Interval
  <2> QED BY <2>3 DEF T
<1> QED BY <1>7, <1>8

\* That of the auto-tick begins without a scope and goes from line to line.
LEMMA AutotickScan ==
  ASSUME NEW d \in Seq(Line)
  PROVE  /\ AutotickAt(d, 0) = NoScope
         /\ \A i \in 1 .. Len(d) : AutotickAt(d, i) = EnterAutotick(AutotickAt(d, i - 1), d[i])
         /\ \A i \in 0 .. Len(d) : AutotickAt(d, i) \in Scope
<1> DEFINE n == Len(d)
           F == [p \in Scope \X (1 .. n) |-> EnterAutotick(p[1], d[p[2]])]
           after[j \in 0 .. n] == IF j = 0 THEN NoScope ELSE EnterAutotick(after[j - 1], d[j])
<1>1. n \in Nat /\ NoScope \in Scope
  BY DEF NoScope, Scope
<1>2. ASSUME NEW s \in Scope, NEW j \in 1 .. n
      PROVE  F[<<s, j>>] = EnterAutotick(s, d[j]) /\ F[<<s, j>>] \in Scope
  <2>1. d[j] \in Line
    OBVIOUS
  <2>2. EnterAutotick(s, d[j]) \in Scope
    BY <2>1, EnterType
  <2>3. F[<<s, j>>] = EnterAutotick(s, d[j])
    OBVIOUS
  <2> QED BY <2>2, <2>3
<1> HIDE DEF F
<1>3. PICK f \in [0 .. n -> Scope] : Solves(f, F, NoScope, n)
  <2> HIDE DEF n
  <2> QED BY <1>1, <1>2, Recursion
<1>4. f = [j \in 0 .. n |-> IF j = 0 THEN NoScope ELSE EnterAutotick(f[j - 1], d[j])]
  BY <1>2, <1>3 DEF Solves
<1>5. after = [j \in 0 .. n |-> IF j = 0 THEN NoScope ELSE EnterAutotick(after[j - 1], d[j])]
  <2> HIDE DEF n
  <2> QED BY <1>4
<1>6. \A i \in 0 .. n : AutotickAt(d, i) = after[i]
  BY DEF AutotickAt, ScopeAt
<1> HIDE DEF after
<1>7. AutotickAt(d, 0) = NoScope /\ \A i \in 1 .. n : AutotickAt(d, i) = EnterAutotick(AutotickAt(d, i - 1), d[i])
  BY <1>1, <1>5, <1>6
<1>8. \A i \in 0 .. n : i \in {j \in 0 .. n : AutotickAt(d, j) \in Scope}
  <2> DEFINE T == {j \in 0 .. n : AutotickAt(d, j) \in Scope}
  <2>1. 0 \in T
    BY <1>1, <1>7
  <2>2. ASSUME NEW j \in 0 .. n - 1, j \in T PROVE j + 1 \in T
    <3>1. j + 1 \in 1 .. n /\ (j + 1) - 1 = j /\ d[j + 1] \in Line
      BY <1>1
    <3>2. AutotickAt(d, j + 1) = EnterAutotick(AutotickAt(d, j), d[j + 1])
      BY <1>7, <3>1
    <3>3. AutotickAt(d, j + 1) \in Scope
      BY <2>2, <3>1, <3>2, EnterType
    <3> QED BY <3>1, <3>3
  <2> HIDE DEF n, T
  <2>3. \A i \in 0 .. n : i \in T
    BY <1>1, <2>1, <2>2, Interval
  <2> QED BY <2>3 DEF T
<1> QED BY <1>7, <1>8

\* That of RUNTIME_GATES.md begins without a scope and goes from line to line.
LEMMA LedgerScan ==
  ASSUME NEW d \in Seq(Line)
  PROVE  /\ LedgerAt(d, 0) = NoScope
         /\ \A i \in 1 .. Len(d) : LedgerAt(d, i) = EnterLedger(LedgerAt(d, i - 1), d[i])
         /\ \A i \in 0 .. Len(d) : LedgerAt(d, i) \in Scope
<1> DEFINE n == Len(d)
           F == [p \in Scope \X (1 .. n) |-> EnterLedger(p[1], d[p[2]])]
           after[j \in 0 .. n] == IF j = 0 THEN NoScope ELSE EnterLedger(after[j - 1], d[j])
<1>1. n \in Nat /\ NoScope \in Scope
  BY DEF NoScope, Scope
<1>2. ASSUME NEW s \in Scope, NEW j \in 1 .. n
      PROVE  F[<<s, j>>] = EnterLedger(s, d[j]) /\ F[<<s, j>>] \in Scope
  <2>1. d[j] \in Line
    OBVIOUS
  <2>2. EnterLedger(s, d[j]) \in Scope
    BY <2>1, EnterType
  <2>3. F[<<s, j>>] = EnterLedger(s, d[j])
    OBVIOUS
  <2> QED BY <2>2, <2>3
<1> HIDE DEF F
<1>3. PICK f \in [0 .. n -> Scope] : Solves(f, F, NoScope, n)
  <2> HIDE DEF n
  <2> QED BY <1>1, <1>2, Recursion
<1>4. f = [j \in 0 .. n |-> IF j = 0 THEN NoScope ELSE EnterLedger(f[j - 1], d[j])]
  BY <1>2, <1>3 DEF Solves
<1>5. after = [j \in 0 .. n |-> IF j = 0 THEN NoScope ELSE EnterLedger(after[j - 1], d[j])]
  <2> HIDE DEF n
  <2> QED BY <1>4
<1>6. \A i \in 0 .. n : LedgerAt(d, i) = after[i]
  BY DEF LedgerAt, ScopeAt
<1> HIDE DEF after
<1>7. LedgerAt(d, 0) = NoScope /\ \A i \in 1 .. n : LedgerAt(d, i) = EnterLedger(LedgerAt(d, i - 1), d[i])
  BY <1>1, <1>5, <1>6
<1>8. \A i \in 0 .. n : i \in {j \in 0 .. n : LedgerAt(d, j) \in Scope}
  <2> DEFINE T == {j \in 0 .. n : LedgerAt(d, j) \in Scope}
  <2>1. 0 \in T
    BY <1>1, <1>7
  <2>2. ASSUME NEW j \in 0 .. n - 1, j \in T PROVE j + 1 \in T
    <3>1. j + 1 \in 1 .. n /\ (j + 1) - 1 = j /\ d[j + 1] \in Line
      BY <1>1
    <3>2. LedgerAt(d, j + 1) = EnterLedger(LedgerAt(d, j), d[j + 1])
      BY <1>7, <3>1
    <3>3. LedgerAt(d, j + 1) \in Scope
      BY <2>2, <3>1, <3>2, EnterType
    <3> QED BY <3>1, <3>3
  <2> HIDE DEF n, T
  <2>3. \A i \in 0 .. n : i \in T
    BY <1>1, <2>1, <2>2, Interval
  <2> QED BY <2>3 DEF T
<1> QED BY <1>7, <1>8

\* parse_phases begins without a scope and goes from line to line.
LEMMA ParseScan ==
  ASSUME NEW d \in Seq(Line)
  PROVE  /\ ParseAt(d, 0) = NoScope
         /\ \A i \in 1 .. Len(d) : ParseAt(d, i) = EnterParse(ParseAt(d, i - 1), d[i])
         /\ \A i \in 0 .. Len(d) : ParseAt(d, i) \in Scope
<1> DEFINE n == Len(d)
           F == [p \in Scope \X (1 .. n) |-> EnterParse(p[1], d[p[2]])]
           after[j \in 0 .. n] == IF j = 0 THEN NoScope ELSE EnterParse(after[j - 1], d[j])
<1>1. n \in Nat /\ NoScope \in Scope
  BY DEF NoScope, Scope
<1>2. ASSUME NEW s \in Scope, NEW j \in 1 .. n
      PROVE  F[<<s, j>>] = EnterParse(s, d[j]) /\ F[<<s, j>>] \in Scope
  <2>1. d[j] \in Line
    OBVIOUS
  <2>2. EnterParse(s, d[j]) \in Scope
    BY <2>1, EnterType
  <2>3. F[<<s, j>>] = EnterParse(s, d[j])
    OBVIOUS
  <2> QED BY <2>2, <2>3
<1> HIDE DEF F
<1>3. PICK f \in [0 .. n -> Scope] : Solves(f, F, NoScope, n)
  <2> HIDE DEF n
  <2> QED BY <1>1, <1>2, Recursion
<1>4. f = [j \in 0 .. n |-> IF j = 0 THEN NoScope ELSE EnterParse(f[j - 1], d[j])]
  BY <1>2, <1>3 DEF Solves
<1>5. after = [j \in 0 .. n |-> IF j = 0 THEN NoScope ELSE EnterParse(after[j - 1], d[j])]
  <2> HIDE DEF n
  <2> QED BY <1>4
<1>6. \A i \in 0 .. n : ParseAt(d, i) = after[i]
  BY DEF ParseAt, ScopeAt
<1> HIDE DEF after
<1>7. ParseAt(d, 0) = NoScope /\ \A i \in 1 .. n : ParseAt(d, i) = EnterParse(ParseAt(d, i - 1), d[i])
  BY <1>1, <1>5, <1>6
<1>8. \A i \in 0 .. n : i \in {j \in 0 .. n : ParseAt(d, j) \in Scope}
  <2> DEFINE T == {j \in 0 .. n : ParseAt(d, j) \in Scope}
  <2>1. 0 \in T
    BY <1>1, <1>7
  <2>2. ASSUME NEW j \in 0 .. n - 1, j \in T PROVE j + 1 \in T
    <3>1. j + 1 \in 1 .. n /\ (j + 1) - 1 = j /\ d[j + 1] \in Line
      BY <1>1
    <3>2. ParseAt(d, j + 1) = EnterParse(ParseAt(d, j), d[j + 1])
      BY <1>7, <3>1
    <3>3. ParseAt(d, j + 1) \in Scope
      BY <2>2, <3>1, <3>2, EnterType
    <3> QED BY <3>1, <3>3
  <2> HIDE DEF n, T
  <2>3. \A i \in 0 .. n : i \in T
    BY <1>1, <2>1, <2>2, Interval
  <2> QED BY <2>3 DEF T
<1> QED BY <1>7, <1>8

\* And the scanner of uncovered rows begins without a scope and goes from line to line.
LEMMA CoverScan ==
  ASSUME NEW d \in Seq(Line)
  PROVE  /\ CoverAt(d, 0) = NoScope
         /\ \A i \in 1 .. Len(d) : CoverAt(d, i) = EnterCover(CoverAt(d, i - 1), d[i])
         /\ \A i \in 0 .. Len(d) : CoverAt(d, i) \in Scope
<1> DEFINE n == Len(d)
           F == [p \in Scope \X (1 .. n) |-> EnterCover(p[1], d[p[2]])]
           after[j \in 0 .. n] == IF j = 0 THEN NoScope ELSE EnterCover(after[j - 1], d[j])
<1>1. n \in Nat /\ NoScope \in Scope
  BY DEF NoScope, Scope
<1>2. ASSUME NEW s \in Scope, NEW j \in 1 .. n
      PROVE  F[<<s, j>>] = EnterCover(s, d[j]) /\ F[<<s, j>>] \in Scope
  <2>1. d[j] \in Line
    OBVIOUS
  <2>2. EnterCover(s, d[j]) \in Scope
    BY <2>1, EnterType
  <2>3. F[<<s, j>>] = EnterCover(s, d[j])
    OBVIOUS
  <2> QED BY <2>2, <2>3
<1> HIDE DEF F
<1>3. PICK f \in [0 .. n -> Scope] : Solves(f, F, NoScope, n)
  <2> HIDE DEF n
  <2> QED BY <1>1, <1>2, Recursion
<1>4. f = [j \in 0 .. n |-> IF j = 0 THEN NoScope ELSE EnterCover(f[j - 1], d[j])]
  BY <1>2, <1>3 DEF Solves
<1>5. after = [j \in 0 .. n |-> IF j = 0 THEN NoScope ELSE EnterCover(after[j - 1], d[j])]
  <2> HIDE DEF n
  <2> QED BY <1>4
<1>6. \A i \in 0 .. n : CoverAt(d, i) = after[i]
  BY DEF CoverAt, ScopeAt
<1> HIDE DEF after
<1>7. CoverAt(d, 0) = NoScope /\ \A i \in 1 .. n : CoverAt(d, i) = EnterCover(CoverAt(d, i - 1), d[i])
  BY <1>1, <1>5, <1>6
<1>8. \A i \in 0 .. n : i \in {j \in 0 .. n : CoverAt(d, j) \in Scope}
  <2> DEFINE T == {j \in 0 .. n : CoverAt(d, j) \in Scope}
  <2>1. 0 \in T
    BY <1>1, <1>7
  <2>2. ASSUME NEW j \in 0 .. n - 1, j \in T PROVE j + 1 \in T
    <3>1. j + 1 \in 1 .. n /\ (j + 1) - 1 = j /\ d[j + 1] \in Line
      BY <1>1
    <3>2. CoverAt(d, j + 1) = EnterCover(CoverAt(d, j), d[j + 1])
      BY <1>7, <3>1
    <3>3. CoverAt(d, j + 1) \in Scope
      BY <2>2, <3>1, <3>2, EnterType
    <3> QED BY <3>1, <3>3
  <2> HIDE DEF n, T
  <2>3. \A i \in 0 .. n : i \in T
    BY <1>1, <2>1, <2>2, Interval
  <2> QED BY <2>3 DEF T
<1> QED BY <1>7, <1>8

-----------------------------------------------------------------------------
(* What the scanners agree on. *)

\* The scopes of the router, the auto-tick, the ledger, parse_phases and the
\* cover of one line.
Agree(r, a, l, p, c) ==
  /\ (a.superseded <=> r.superseded) /\ (c.superseded <=> r.superseded)
  /\ l.superseded => r.superseded
  /\ (p.verification <=> r.verification) /\ (c.verification <=> r.verification)
  /\ r.verification => a.verification /\ l.verification
  /\ p.descoped <=> r.descoped
  /\ c.descoped => r.descoped
  /\ r.shim => c.shim \/ c.verification
  /\ c.shim => r.shim

\* No line makes them disagree.
LEMMA AgreeStep ==
  ASSUME NEW r \in Scope, NEW a \in Scope, NEW l \in Scope, NEW p \in Scope, NEW c \in Scope,
         NEW x \in Line, Agree(r, a, l, p, c)
  PROVE  Agree(EnterRouter(r, x), EnterAutotick(a, x), EnterLedger(l, x), EnterParse(p, x),
               EnterCover(c, x))
<1> DEFINE r1 == EnterRouter(r, x)
           a1 == EnterAutotick(a, x)
           l1 == EnterLedger(l, x)
           p1 == EnterParse(p, x)
           c1 == EnterCover(c, x)
<1> SUFFICES Agree(r1, a1, l1, p1, c1)
  OBVIOUS
<1>1. CASE x.is = "row"
  <2>1. r1 = r /\ a1 = a /\ l1 = l /\ p1 = p /\ c1 = c
    BY <1>1 DEF EnterRouter, EnterAutotick, EnterLedger, EnterParse, EnterCover, Supersedes, PlainBold
  <2> QED BY <2>1
<1>2. CASE x.is = "phase"
  <2>1. r1 = NoScope /\ a1 = NoScope /\ p1 = NoScope /\ c1 = NoScope
    BY <1>2 DEF EnterRouter, EnterAutotick, EnterParse, EnterCover, Supersedes, PlainBold
  <2>2. l1.superseded = FALSE
    BY <1>2, Zenon DEF EnterLedger, Scope, Supersedes, PlainBold
  <2> HIDE DEF r1, a1, l1, p1, c1
  <2> QED BY <2>1, <2>2 DEF Agree, NoScope
<1>3. CASE x.is = "named"
  <2>1. r1.superseded = r.superseded /\ a1.superseded = a.superseded /\ c1.superseded = c.superseded
    BY <1>3, Zenon DEF EnterRouter, EnterAutotick, EnterCover, Supersedes, PlainBold, Scope
  <2>2. l1.superseded = FALSE
    BY <1>3, Zenon DEF EnterLedger, Supersedes, PlainBold, Scope
  <2>3. p1 = NoScope
    BY <1>3, Zenon DEF EnterParse
  <2>4. ~x.verification /\ ~x.descoped /\ x.section = "none"
    BY <1>3 DEF Line
  <2>5. r1.verification = x.verification /\ c1.verification = x.verification
    BY <1>3, Zenon DEF EnterRouter, EnterCover, Supersedes, PlainBold, Scope
  <2>6. r1.descoped = x.descoped /\ c1.descoped = x.descoped
    BY <1>3, Zenon DEF EnterRouter, EnterCover, Supersedes, PlainBold, Scope
  <2>7. r1.shim = (x.section = "verification") /\ c1.shim = (x.section = "verification")
    BY <1>3, Zenon DEF EnterRouter, EnterCover, Supersedes, PlainBold, Scope, Names
  <2> HIDE DEF r1, a1, l1, p1, c1
  <2> QED BY <2>1, <2>2, <2>3, <2>4, <2>5, <2>6, <2>7 DEF Agree, NoScope
<1>4. CASE x.is = "heading"
  <2>1. /\ r1.superseded = r.superseded /\ a1.superseded = a.superseded
        /\ c1.superseded = c.superseded /\ l1.superseded = l.superseded
    BY <1>4, Zenon DEF EnterRouter, EnterAutotick, EnterCover, EnterLedger, Supersedes, PlainBold, Scope
  <2>2. /\ r1.verification = x.verification /\ a1.verification = x.verification
        /\ c1.verification = x.verification
    BY <1>4, Zenon DEF EnterRouter, EnterAutotick, EnterCover, Supersedes, PlainBold, Scope
  <2>3. l1.verification = x.verification
    BY <1>4, Zenon DEF EnterLedger, Supersedes, PlainBold, Scope
  <2>4. p1.verification = x.verification /\ p1.descoped = x.descoped
    BY <1>4, Zenon DEF EnterParse, Scope
  <2>5. r1.descoped = x.descoped /\ c1.descoped = x.descoped
    BY <1>4, Zenon DEF EnterRouter, EnterCover, Supersedes, PlainBold, Scope
  <2>6. r1.shim = Names(x, "verification") /\ c1.shim = Names(x, "verification")
    BY <1>4, Zenon DEF EnterRouter, EnterCover, Supersedes, PlainBold, Scope
  <2> HIDE DEF r1, a1, l1, p1, c1
  <2> QED BY <2>1, <2>2, <2>3, <2>4, <2>5, <2>6, Zenon DEF Agree
<1>5. CASE Supersedes(x)
  <2>1. x.is = "bold" /\ x.section = "status" /\ ~x.verification /\ ~x.descoped /\ ~Titled(x)
    BY <1>5 DEF Supersedes, Line, Titled
  <2>2. r1 = [r EXCEPT !.superseded = TRUE] /\ a1 = [a EXCEPT !.superseded = TRUE]
    BY <1>5, <2>1, Zenon DEF EnterRouter, EnterAutotick, PlainBold
  <2>3. l1 = [l EXCEPT !.superseded = TRUE] /\ c1 = [c EXCEPT !.superseded = TRUE]
    BY <1>5, <2>1, Zenon DEF EnterLedger, EnterCover, PlainBold
  <2>4. /\ p1.verification = (x.verification \/ (p.verification /\ ~Titled(x)))
        /\ p1.descoped = (x.descoped \/ (p.descoped /\ ~Titled(x)))
    BY <2>1, Zenon DEF EnterParse, Scope
  <2> HIDE DEF r1, a1, l1, p1, c1
  <2>5. (p1.verification <=> p.verification) /\ (p1.descoped <=> p.descoped)
    BY <2>1, <2>4, Zenon
  <2>6. r1.superseded /\ a1.superseded /\ c1.superseded
    BY <2>2, <2>3, Zenon DEF Scope
  <2>7. /\ r1.verification = r.verification /\ r1.descoped = r.descoped /\ r1.shim = r.shim
        /\ a1.verification = a.verification /\ l1.verification = l.verification
    BY <2>2, <2>3, Zenon DEF Scope
  <2>8. c1.verification = c.verification /\ c1.descoped = c.descoped /\ c1.shim = c.shim
    BY <2>3, Zenon DEF Scope
  <2> QED BY <2>5, <2>6, <2>7, <2>8, Zenon DEF Agree
<1>6. CASE PlainBold(x)
  <2>0. x.is = "bold" /\ ~Supersedes(x)
    BY <1>6 DEF PlainBold
  <2>1. /\ r1.superseded = r.superseded /\ a1.superseded = a.superseded
        /\ c1.superseded = c.superseded /\ l1.superseded = l.superseded
    BY <1>6, <2>0, Zenon DEF EnterRouter, EnterAutotick, EnterCover, EnterLedger, Scope
  <2>2. /\ r1.verification = (x.verification \/ (r.verification /\ ~Titled(x)))
        /\ c1.verification = (x.verification \/ (c.verification /\ ~Titled(x)))
    BY <1>6, <2>0, Zenon DEF EnterRouter, EnterCover, Scope
  <2>3. /\ p1.verification = (x.verification \/ (p.verification /\ ~Titled(x)))
        /\ p1.descoped = (x.descoped \/ (p.descoped /\ ~Titled(x)))
    BY <2>0, Zenon DEF EnterParse, Scope
  <2>4. a1.verification = (a.verification \/ x.verification)
    BY <1>6, <2>0, Zenon DEF EnterAutotick, Scope
  <2>5. l1.verification = (x.verification \/ (l.verification /\ ~Names(x, "deliverables")))
    BY <1>6, <2>0, Zenon DEF EnterLedger, Scope
  <2>6. /\ r1.descoped = (x.descoped \/ (r.descoped /\ ~Titled(x)))
        /\ c1.descoped = x.descoped
    BY <1>6, <2>0, Zenon DEF EnterRouter, EnterCover, Scope
  <2>7. r1.shim = IF x.verification \/ ~Titled(x) THEN r.shim ELSE Names(x, "verification")
    BY <1>6, <2>0, Zenon DEF EnterRouter, Scope
  <2>8. c1.shim = (~x.verification
                     /\ IF Titled(x) THEN Names(x, "verification") ELSE c.shim)
    BY <1>6, <2>0, Zenon DEF EnterCover, Scope
  <2>9. Names(x, "deliverables") => Titled(x)
    BY DEF Names, Titled
  <2> HIDE DEF r1, a1, l1, p1, c1
  <2>11. (r1.verification <=> p1.verification) /\ (r1.verification <=> c1.verification)
    BY <2>2, <2>3, Zenon DEF Agree
  <2>12. r1.verification => a1.verification /\ l1.verification
    BY <2>2, <2>4, <2>5, <2>9, Zenon DEF Agree
  <2>13. (p1.descoped <=> r1.descoped) /\ (c1.descoped => r1.descoped)
    BY <2>3, <2>6, Zenon DEF Agree
  <2>14. r1.shim => c1.shim \/ c1.verification
    <3>1. CASE x.verification
      BY <2>2, <3>1, Zenon
    <3>2. CASE ~x.verification /\ Titled(x)
      <4>1. r1.shim = Names(x, "verification") /\ c1.shim = Names(x, "verification")
        BY <2>7, <2>8, <3>2, Zenon DEF Names
      <4> QED BY <4>1, Zenon
    <3>3. CASE ~x.verification /\ ~Titled(x)
      <4>1. r1.shim = r.shim /\ (c1.shim <=> c.shim) /\ (c.verification => c1.verification)
        BY <2>2, <2>7, <2>8, <3>3, Zenon
      <4> QED BY <4>1, Zenon DEF Agree
    <3> QED BY <3>1, <3>2, <3>3
  <2>15. c1.shim => r1.shim
    <3>1. CASE x.verification
      BY <2>8, <3>1, Zenon
    <3>2. CASE ~x.verification /\ Titled(x)
      <4>1. r1.shim = Names(x, "verification") /\ c1.shim = Names(x, "verification")
        BY <2>7, <2>8, <3>2, Zenon DEF Names
      <4> QED BY <4>1, Zenon
    <3>3. CASE ~x.verification /\ ~Titled(x)
      <4>1. r1.shim = r.shim /\ (c1.shim <=> c.shim)
        BY <2>7, <2>8, <3>3, Zenon
      <4> QED BY <4>1, Zenon DEF Agree
    <3> QED BY <3>1, <3>2, <3>3
  <2> QED BY <2>1, <2>11, <2>12, <2>13, <2>14, <2>15, Zenon DEF Agree
<1>7. x.is \in {"row", "phase", "named", "bold", "heading"}
  BY DEF Line
<1> QED BY <1>1, <1>2, <1>3, <1>4, <1>5, <1>6, <1>7 DEF PlainBold

\* So they agree at every line of every document.
LEMMA ScannersAgree ==
  ASSUME NEW d \in Seq(Line), NEW i \in 0 .. Len(d)
  PROVE  Agree(RouterAt(d, i), AutotickAt(d, i), LedgerAt(d, i), ParseAt(d, i), CoverAt(d, i))
<1> DEFINE Ok(j) == Agree(RouterAt(d, j), AutotickAt(d, j), LedgerAt(d, j), ParseAt(d, j), CoverAt(d, j))
           T == {j \in 0 .. Len(d) : Ok(j)}
<1>1. Ok(0)
  BY RouterScan, AutotickScan, LedgerScan, ParseScan, CoverScan DEF Agree, NoScope
<1>2. ASSUME NEW j \in 0 .. Len(d) - 1, Ok(j) PROVE Ok(j + 1)
  <2>1. j + 1 \in 1 .. Len(d) /\ (j + 1) - 1 = j /\ j \in 0 .. Len(d) /\ d[j + 1] \in Line
    OBVIOUS
  <2>2. /\ RouterAt(d, j + 1) = EnterRouter(RouterAt(d, j), d[j + 1])
        /\ AutotickAt(d, j + 1) = EnterAutotick(AutotickAt(d, j), d[j + 1])
        /\ LedgerAt(d, j + 1) = EnterLedger(LedgerAt(d, j), d[j + 1])
        /\ ParseAt(d, j + 1) = EnterParse(ParseAt(d, j), d[j + 1])
        /\ CoverAt(d, j + 1) = EnterCover(CoverAt(d, j), d[j + 1])
    BY <2>1, RouterScan, AutotickScan, LedgerScan, ParseScan, CoverScan
  <2>3. /\ RouterAt(d, j) \in Scope /\ AutotickAt(d, j) \in Scope /\ LedgerAt(d, j) \in Scope
        /\ ParseAt(d, j) \in Scope /\ CoverAt(d, j) \in Scope
    BY <2>1, RouterScan, AutotickScan, LedgerScan, ParseScan, CoverScan
  <2> QED BY <1>2, <2>1, <2>2, <2>3, AgreeStep
<1> HIDE DEF Ok
<1>3. 0 \in T /\ \A j \in 0 .. Len(d) - 1 : j \in T => j + 1 \in T
  BY <1>1, <1>2
<1>4. Len(d) \in Nat /\ 0 \in Nat
  OBVIOUS
<1>5. i \in T
  <2> HIDE DEF T
  <2> QED BY <1>3, <1>4, Interval
<1> QED BY <1>5 DEF Ok

\* Two lines that every scanner reads the same, whether they are ticked or not.
Alike(x, y) == x = y \/ (x.is = "row" /\ y.is = "row")

\* A document in which rows were ticked has the scopes it had.
LEMMA TicksKeepScopes ==
  ASSUME NEW d \in Seq(Line), NEW e \in Seq(Line), Len(e) = Len(d),
         \A j \in 1 .. Len(d) : Alike(d[j], e[j]),
         NEW i \in 0 .. Len(d)
  PROVE  /\ RouterAt(e, i) = RouterAt(d, i) /\ ParseAt(e, i) = ParseAt(d, i)
         /\ CoverAt(e, i) = CoverAt(d, i) /\ AutotickAt(e, i) = AutotickAt(d, i)
<1> DEFINE Ok(j) == /\ RouterAt(e, j) = RouterAt(d, j) /\ ParseAt(e, j) = ParseAt(d, j)
                    /\ CoverAt(e, j) = CoverAt(d, j) /\ AutotickAt(e, j) = AutotickAt(d, j)
           T == {j \in 0 .. Len(d) : Ok(j)}
<1>1. Ok(0)
  BY RouterScan, ParseScan, CoverScan, AutotickScan
<1>2. ASSUME NEW j \in 0 .. Len(d) - 1, Ok(j) PROVE Ok(j + 1)
  <2>1. j + 1 \in 1 .. Len(d) /\ (j + 1) - 1 = j
    OBVIOUS
  <2>2. /\ RouterAt(d, j + 1) = EnterRouter(RouterAt(d, j), d[j + 1])
        /\ RouterAt(e, j + 1) = EnterRouter(RouterAt(e, j), e[j + 1])
        /\ ParseAt(d, j + 1) = EnterParse(ParseAt(d, j), d[j + 1])
        /\ ParseAt(e, j + 1) = EnterParse(ParseAt(e, j), e[j + 1])
        /\ CoverAt(d, j + 1) = EnterCover(CoverAt(d, j), d[j + 1])
        /\ CoverAt(e, j + 1) = EnterCover(CoverAt(e, j), e[j + 1])
        /\ AutotickAt(d, j + 1) = EnterAutotick(AutotickAt(d, j), d[j + 1])
        /\ AutotickAt(e, j + 1) = EnterAutotick(AutotickAt(e, j), e[j + 1])
    BY <2>1, RouterScan, ParseScan, CoverScan, AutotickScan
  <2>3. ASSUME NEW s PROVE /\ EnterRouter(s, d[j + 1]) = EnterRouter(s, e[j + 1])
                           /\ EnterParse(s, d[j + 1]) = EnterParse(s, e[j + 1])
                           /\ EnterCover(s, d[j + 1]) = EnterCover(s, e[j + 1])
                           /\ EnterAutotick(s, d[j + 1]) = EnterAutotick(s, e[j + 1])
    <3>1. CASE d[j + 1] = e[j + 1]
      BY <3>1
    <3>2. CASE d[j + 1].is = "row" /\ e[j + 1].is = "row"
      BY <3>2 DEF EnterRouter, EnterParse, EnterCover, EnterAutotick, Supersedes, PlainBold
    <3> QED BY <2>1, <3>1, <3>2 DEF Alike
  <2> QED BY <1>2, <2>2, <2>3
<1> HIDE DEF Ok
<1>3. 0 \in T /\ \A j \in 0 .. Len(d) - 1 : j \in T => j + 1 \in T
  BY <1>1, <1>2
<1>4. Len(d) \in Nat /\ 0 \in Nat
  OBVIOUS
<1>5. i \in T
  <2> HIDE DEF T
  <2> QED BY <1>3, <1>4, Interval
<1> QED BY <1>5 DEF Ok

\* Two lines that differ in their values only, and such documents.
SameButValue(x, y) ==
  /\ x.is = y.is /\ x.section = y.section /\ x.verification = y.verification
  /\ x.descoped = y.descoped /\ x.host = y.host

Revalued(d, e) ==
  /\ d \in Seq(Line) /\ e \in Seq(Line) /\ Len(e) = Len(d)
  /\ \A j \in 1 .. Len(d) : SameButValue(d[j], e[j])

\* parse_phases does not look at values to know what a row is under.
LEMMA ValuesKeepParse ==
  ASSUME NEW d, NEW e, Revalued(d, e), NEW i \in 0 .. Len(d)
  PROVE  ParseAt(e, i) = ParseAt(d, i)
<1> USE DEF Revalued
<1> DEFINE T == {j \in 0 .. Len(d) : ParseAt(e, j) = ParseAt(d, j)}
<1>1. 0 \in T
  BY ParseScan
<1>2. ASSUME NEW j \in 0 .. Len(d) - 1, j \in T PROVE j + 1 \in T
  <2>1. j + 1 \in 1 .. Len(d) /\ (j + 1) - 1 = j
    OBVIOUS
  <2>2. /\ ParseAt(d, j + 1) = EnterParse(ParseAt(d, j), d[j + 1])
        /\ ParseAt(e, j + 1) = EnterParse(ParseAt(e, j), e[j + 1])
    BY <2>1, ParseScan
  <2>3. ASSUME NEW s PROVE EnterParse(s, d[j + 1]) = EnterParse(s, e[j + 1])
    BY <2>1 DEF SameButValue, EnterParse, Titled, Names
  <2> QED BY <1>2, <2>1, <2>2, <2>3
<1>3. Len(d) \in Nat /\ 0 \in Nat
  OBVIOUS
<1>4. i \in T
  <2> HIDE DEF T
  <2> QED BY <1>1, <1>2, <1>3, Interval
<1> QED BY <1>4


-----------------------------------------------------------------------------
(* Documents: phases, and the lines of each. *)

\* Where the lines of a document are: a status line is the first one or stands
\* below its phase's header, and only status lines stand before every phase.
Shaped(d) ==
  \A i \in DOMAIN d :
    /\ d[i].section = "status" => i = 1 \/ i - 1 \in PhaseStarts(d)
    /\ d[i].section = "status" \/ \E q \in PhaseStarts(d) : q <= i

\* A row is in a phase.
LEMMA RowsHavePhases ==
  ASSUME NEW d \in Seq(Line), Shaped(d), NEW i \in DOMAIN d, d[i].is = "row"
  PROVE  \E p \in PhaseStarts(d) : i \in LinesOf(d, p)
<1> DEFINE Last(j) == \E p \in PhaseStarts(d) : p <= j /\ \A q \in PhaseStarts(d) : q <= j => q <= p
           T == {j \in 0 .. Len(d) : (\E q \in PhaseStarts(d) : q <= j) => Last(j)}
<1>1. Len(d) \in Nat /\ 0 \in Nat /\ DOMAIN d = 1 .. Len(d) /\ PhaseStarts(d) \subseteq 1 .. Len(d)
  BY DEF PhaseStarts
<1>2. 0 \in T
  BY <1>1
<1>3. ASSUME NEW j \in 0 .. Len(d) - 1, j \in T PROVE j + 1 \in T
  <2>1. j + 1 \in 0 .. Len(d)
    BY <1>1
  <2>2. CASE j + 1 \in PhaseStarts(d)
    BY <1>1, <2>1, <2>2
  <2>3. CASE j + 1 \notin PhaseStarts(d)
    <3>1. \A q \in PhaseStarts(d) : q <= j + 1 <=> q <= j
      BY <1>1, <2>3
    <3>2. SUFFICES ASSUME NEW q \in PhaseStarts(d), q <= j + 1 PROVE Last(j + 1)
      BY <2>1
    <3>3. Last(j)
      BY <1>3, <3>1, <3>2
    <3>4. PICK p \in PhaseStarts(d) : p <= j /\ \A r \in PhaseStarts(d) : r <= j => r <= p
      BY <3>3
    <3> QED BY <3>1, <3>4
  <2> QED BY <2>2, <2>3
<1>4. i \in T
  <2> HIDE DEF T
  <2>1. i \in 0 .. Len(d)
    BY <1>1
  <2> QED BY <1>1, <1>2, <1>3, <2>1, Interval
<1>5. d[i] \in Line /\ d[i].section = "none"
  BY DEF Line
<1>6. \E q \in PhaseStarts(d) : q <= i
  BY <1>5 DEF Shaped
<1>7. PICK p \in PhaseStarts(d) : p <= i /\ \A q \in PhaseStarts(d) : q <= i => q <= p
  BY <1>4, <1>6
<1>8. i \notin PhaseStarts(d)
  BY DEF PhaseStarts
<1>9. i > p /\ \A q \in PhaseStarts(d) : q > p => i < q
  BY <1>1, <1>7, <1>8
<1> QED BY <1>9 DEF LinesOf

\* A phase states its status on the line below its header, or nowhere.
StatusBelow(d, p) == p + 1 \in DOMAIN d /\ d[p + 1].section = "status"

LEMMA StatusLine1 ==
  ASSUME NEW d \in Seq(Line), Shaped(d), NEW p \in PhaseStarts(d)
  PROVE  FirstOf(d, p, "status") = IF StatusBelow(d, p) THEN {p + 1} ELSE {}
<1>1. Len(d) \in Nat /\ DOMAIN d = 1 .. Len(d) /\ PhaseStarts(d) \subseteq 1 .. Len(d)
  BY DEF PhaseStarts
<1>2. ASSUME NEW i \in LinesOf(d, p), d[i].section = "status" PROVE i = p + 1
  <2>1. i \in DOMAIN d /\ i > p /\ \A q \in PhaseStarts(d) : q > p => i < q
    BY DEF LinesOf
  <2>2. i - 1 \in PhaseStarts(d)
    BY <1>1, <1>2, <2>1 DEF Shaped
  <2> QED BY <1>1, <2>1, <2>2
<1>3. ASSUME StatusBelow(d, p) PROVE p + 1 \in LinesOf(d, p) /\ d[p + 1].is = "bold"
  <2>1. d[p + 1].is = "bold"
    BY <1>1, <1>3 DEF StatusBelow, Line
  <2>2. p + 1 \notin PhaseStarts(d)
    BY <2>1 DEF PhaseStarts
  <2> QED BY <1>1, <1>3, <2>1, <2>2 DEF LinesOf, StatusBelow
<1>4. ASSUME NEW i \in LinesOf(d, p), d[i].section = "status" PROVE StatusBelow(d, p)
  BY <1>2, <1>4 DEF StatusBelow, LinesOf
<1> DEFINE hits == {i \in LinesOf(d, p) : d[i].is = "bold" /\ Names(d[i], "status")}
<1>5. hits = IF StatusBelow(d, p) THEN {p + 1} ELSE {}
  BY <1>2, <1>3, <1>4 DEF Names, StatusBelow
<1>6. FirstOf(d, p, "status") = {i \in hits : \A j \in hits : i <= j}
  BY DEF FirstOf
<1>7. p + 1 <= p + 1
  BY <1>1
<1> HIDE DEF hits
<1> QED BY <1>5, <1>6, <1>7

\* What parse_phases says of a phase, by the sets it counts.
Dropped(d) == {i \in OpenRows(d) : d[i].descoped \/ ParseAt(d, i).descoped}
Checks(d)  == {i \in OpenRows(d) : d[i].verification \/ ParseAt(d, i).verification}

Status(d, p) == IF StatusBelow(d, p) THEN d[p + 1].value ELSE "none"

LEMMA PhaseRecord ==
  ASSUME NEW d \in Seq(Line), Shaped(d), NEW p \in PhaseStarts(d)
  PROVE  /\ parse_phases(d)[p].status = Status(d, p)
         /\ parse_phases(d)[p].checked = Cardinality(DoneRows(d) \cap LinesOf(d, p))
         /\ parse_phases(d)[p].unchecked = Cardinality(OpenRows(d) \cap LinesOf(d, p))
         /\ parse_phases(d)[p].descoped = Cardinality(Dropped(d) \cap LinesOf(d, p))
         /\ parse_phases(d)[p].verification = Cardinality(Checks(d) \cap LinesOf(d, p))
<1>1. parse_phases(d)[p].status =
        IF FirstOf(d, p, "status") = {} THEN "none"
        ELSE d[CHOOSE i \in FirstOf(d, p, "status") : TRUE].value
  BY Zenon DEF parse_phases
<1>2. parse_phases(d)[p].status = Status(d, p)
  <2>1. CASE StatusBelow(d, p)
    <3>1. FirstOf(d, p, "status") = {p + 1}
      BY <2>1, StatusLine1
    <3>2. (CHOOSE i \in FirstOf(d, p, "status") : TRUE) = p + 1
      BY <3>1
    <3> QED BY <1>1, <2>1, <3>1, <3>2 DEF Status
  <2>2. CASE ~StatusBelow(d, p)
    BY <1>1, <2>2, StatusLine1 DEF Status
  <2> QED BY <2>1, <2>2
<1>3. /\ parse_phases(d)[p].checked = Cardinality(DoneRows(d) \cap LinesOf(d, p))
      /\ parse_phases(d)[p].unchecked = Cardinality(OpenRows(d) \cap LinesOf(d, p))
  BY Zenon DEF parse_phases
<1>4. parse_phases(d)[p].descoped = Cardinality(Dropped(d) \cap LinesOf(d, p))
  BY Zenon DEF parse_phases, Scan, Dropped, ParseAt
<1>5. parse_phases(d)[p].verification = Cardinality(Checks(d) \cap LinesOf(d, p))
  BY Zenon DEF parse_phases, Scan, Checks, ParseAt
<1> QED BY <1>2, <1>3, <1>4, <1>5

\* The open rows of a phase, and how many of them count.
Open(d, p)  == OpenRows(d) \cap LinesOf(d, p)
Drops(d, p) == Dropped(d) \cap LinesOf(d, p)
Verifs(d, p) == Checks(d) \cap LinesOf(d, p)

Owed(d, p, exempt) == EffectiveUnchecked(parse_phases(d)[p], exempt)

LEMMA RowsAreFinite ==
  ASSUME NEW d \in Seq(Line)
  PROVE  /\ IsFiniteSet(OpenRows(d)) /\ IsFiniteSet(DoneRows(d))
         /\ Cardinality(OpenRows(d)) \in Nat /\ Cardinality(DoneRows(d)) \in Nat
<1>1. Len(d) \in Nat /\ DOMAIN d = 1 .. Len(d) /\ IsFiniteSet(1 .. Len(d))
  BY FS_Interval
<1>2. OpenRows(d) \subseteq 1 .. Len(d) /\ DoneRows(d) \subseteq 1 .. Len(d)
  BY <1>1 DEF OpenRows, DoneRows
<1>3. IsFiniteSet(OpenRows(d)) /\ IsFiniteSet(DoneRows(d))
  BY <1>1, <1>2, FS_Subset
<1> QED BY <1>3, FS_CardinalityType

LEMMA Counting ==
  ASSUME NEW d \in Seq(Line), NEW p \in PhaseStarts(d)
  PROVE  /\ Drops(d, p) \subseteq Open(d, p) /\ Verifs(d, p) \subseteq Open(d, p)
         /\ IsFiniteSet(Open(d, p)) /\ IsFiniteSet(Drops(d, p)) /\ IsFiniteSet(Verifs(d, p))
         /\ Cardinality(Open(d, p)) \in Nat /\ Cardinality(Drops(d, p)) \in Nat
         /\ Cardinality(Verifs(d, p)) \in Nat
         /\ Cardinality(Drops(d, p)) <= Cardinality(Open(d, p))
<1>1. IsFiniteSet(OpenRows(d))
  BY RowsAreFinite
<1>2. Open(d, p) \subseteq OpenRows(d)
  BY DEF Open
<1>3. Drops(d, p) \subseteq Open(d, p) /\ Verifs(d, p) \subseteq Open(d, p)
  BY DEF Drops, Verifs, Open, Dropped, Checks
<1>4. IsFiniteSet(Open(d, p))
  BY <1>1, <1>2, FS_Subset
<1>5. /\ IsFiniteSet(Drops(d, p)) /\ IsFiniteSet(Verifs(d, p))
      /\ Cardinality(Drops(d, p)) <= Cardinality(Open(d, p))
  BY <1>3, <1>4, FS_Subset
<1> QED BY <1>3, <1>4, <1>5, FS_CardinalityType

LEMMA OwedCounts ==
  ASSUME NEW d \in Seq(Line), Shaped(d), NEW p \in PhaseStarts(d), NEW exempt \in BOOLEAN
  PROVE  /\ ~exempt => (Owed(d, p, exempt) > 0
                          <=> Cardinality(Open(d, p)) > Cardinality(Drops(d, p)))
         /\ exempt => (Owed(d, p, exempt) > 0
                         <=> Cardinality(Open(d, p))
                               > Cardinality(Drops(d, p)) + Cardinality(Verifs(d, p)))
         /\ Owed(d, p, exempt) > 0 \/ Owed(d, p, exempt) = 0
<1>1. /\ parse_phases(d)[p].unchecked = Cardinality(Open(d, p))
      /\ parse_phases(d)[p].descoped = Cardinality(Drops(d, p))
      /\ parse_phases(d)[p].verification = Cardinality(Verifs(d, p))
  BY PhaseRecord DEF Open, Drops, Verifs
<1> DEFINE o == Cardinality(Open(d, p))
           n == Cardinality(Drops(d, p))
           v == Cardinality(Verifs(d, p))
<1>2. o \in Nat /\ n \in Nat /\ v \in Nat /\ n <= o
  BY Counting
<1>3. Owed(d, p, exempt) = IF exempt THEN Monus(o - n, v) ELSE o - n
  BY <1>1 DEF Owed, EffectiveUnchecked
<1> HIDE DEF o, n, v
<1>4. Monus(o - n, v) = IF o > n + v THEN o - n - v ELSE 0
  BY <1>2 DEF Monus
<1>5. /\ ~exempt => (Owed(d, p, exempt) > 0 <=> o > n)
      /\ exempt => (Owed(d, p, exempt) > 0 <=> o > n + v)
      /\ Owed(d, p, exempt) > 0 \/ Owed(d, p, exempt) = 0
  <2>1. CASE exempt
    BY <1>2, <1>3, <1>4, <2>1
  <2>2. CASE ~exempt
    BY <1>2, <1>3, <2>2
  <2> QED BY <2>1, <2>2
<1> QED BY <1>5 DEF o, n, v

\* Nothing of a phase is owed: every open row is dropped or, with the
\* exemption and no row of both kinds, for verification.
LEMMA NoneOwed ==
  ASSUME NEW d \in Seq(Line), Shaped(d), NEW p \in PhaseStarts(d), NEW exempt \in BOOLEAN,
         ~(Owed(d, p, exempt) > 0), exempt => Dropped(d) \cap Checks(d) = {}
  PROVE  Open(d, p) = Drops(d, p) \/ (exempt /\ Open(d, p) = Drops(d, p) \cup Verifs(d, p))
<1>1. /\ Drops(d, p) \subseteq Open(d, p) /\ Verifs(d, p) \subseteq Open(d, p)
      /\ IsFiniteSet(Open(d, p)) /\ IsFiniteSet(Drops(d, p)) /\ IsFiniteSet(Verifs(d, p))
      /\ Cardinality(Open(d, p)) \in Nat /\ Cardinality(Drops(d, p)) \in Nat
      /\ Cardinality(Verifs(d, p)) \in Nat
      /\ Cardinality(Drops(d, p)) <= Cardinality(Open(d, p))
  BY Counting
<1>2. CASE ~exempt
  <2>1. ~(Cardinality(Open(d, p)) > Cardinality(Drops(d, p)))
    BY <1>2, OwedCounts
  <2>2. Cardinality(Open(d, p)) = Cardinality(Drops(d, p))
    BY <1>1, <2>1
  <2> QED BY <1>1, <2>2, FS_Subset
<1>3. CASE exempt
  <2> DEFINE B == Drops(d, p) \cup Verifs(d, p)
  <2>1. ~(Cardinality(Open(d, p)) > Cardinality(Drops(d, p)) + Cardinality(Verifs(d, p)))
    BY <1>3, OwedCounts
  <2>2. Drops(d, p) \cap Verifs(d, p) = {}
    BY <1>3 DEF Drops, Verifs
  <2>3. /\ IsFiniteSet(B)
        /\ Cardinality(B) = Cardinality(Drops(d, p)) + Cardinality(Verifs(d, p))
                              - Cardinality(Drops(d, p) \cap Verifs(d, p))
    BY <1>1, FS_Union
  <2>4. Cardinality(Drops(d, p) \cap Verifs(d, p)) = 0
    BY <2>2, FS_EmptySet
  <2>5. Cardinality(B) = Cardinality(Drops(d, p)) + Cardinality(Verifs(d, p))
    BY <1>1, <2>3, <2>4
  <2>6. B \subseteq Open(d, p)
    BY <1>1
  <2> HIDE DEF B
  <2>7. Cardinality(B) <= Cardinality(Open(d, p)) /\ Cardinality(B) \in Nat
    BY <1>1, <2>3, <2>6, FS_Subset, FS_CardinalityType
  <2>8. Cardinality(B) = Cardinality(Open(d, p))
    BY <1>1, <2>1, <2>5, <2>7
  <2>9. B = Open(d, p)
    BY <1>1, <2>6, <2>8, FS_Subset
  <2> QED BY <1>3, <2>9 DEF B
<1> QED BY <1>2, <1>3

\* Something is: some open row is neither.
LEMMA SomeOwed ==
  ASSUME NEW d \in Seq(Line), Shaped(d), NEW p \in PhaseStarts(d), NEW exempt \in BOOLEAN,
         Owed(d, p, exempt) > 0
  PROVE  \E i \in Open(d, p) : i \notin Dropped(d) /\ (exempt => i \notin Checks(d))
<1>1. /\ Drops(d, p) \subseteq Open(d, p) /\ Verifs(d, p) \subseteq Open(d, p)
      /\ IsFiniteSet(Open(d, p)) /\ IsFiniteSet(Drops(d, p)) /\ IsFiniteSet(Verifs(d, p))
      /\ Cardinality(Open(d, p)) \in Nat /\ Cardinality(Drops(d, p)) \in Nat
      /\ Cardinality(Verifs(d, p)) \in Nat
  BY Counting
<1> DEFINE B == IF exempt THEN Drops(d, p) \cup Verifs(d, p) ELSE Drops(d, p)
<1>2. IsFiniteSet(B) /\ Cardinality(B) \in Nat /\ Cardinality(B) < Cardinality(Open(d, p))
  <2>1. CASE ~exempt
    <3>1. B = Drops(d, p) /\ Cardinality(Open(d, p)) > Cardinality(Drops(d, p))
      BY <2>1, OwedCounts
    <3> HIDE DEF B
    <3> QED BY <1>1, <3>1
  <2>2. CASE exempt
    <3>1. /\ B = Drops(d, p) \cup Verifs(d, p)
          /\ Cardinality(Open(d, p)) > Cardinality(Drops(d, p)) + Cardinality(Verifs(d, p))
      BY <2>2, OwedCounts
    <3> HIDE DEF B
    <3>2. /\ IsFiniteSet(B)
          /\ Cardinality(B) = Cardinality(Drops(d, p)) + Cardinality(Verifs(d, p))
                                - Cardinality(Drops(d, p) \cap Verifs(d, p))
      BY <1>1, <3>1, FS_Union
    <3>3. IsFiniteSet(Drops(d, p) \cap Verifs(d, p))
      BY <1>1, FS_Intersection
    <3>4. Cardinality(Drops(d, p) \cap Verifs(d, p)) \in Nat /\ Cardinality(B) \in Nat
      BY <3>2, <3>3, FS_CardinalityType
    <3> QED BY <1>1, <3>1, <3>2, <3>4
  <2> QED BY <2>1, <2>2
<1>3. ~(Open(d, p) \subseteq B)
  <2> HIDE DEF B
  <2>1. SUFFICES ASSUME Open(d, p) \subseteq B PROVE FALSE
    OBVIOUS
  <2>2. Cardinality(Open(d, p)) <= Cardinality(B)
    BY <1>2, <2>1, FS_Subset
  <2> QED BY <1>1, <1>2, <2>2
<1>4. PICK i \in Open(d, p) : i \notin B
  BY <1>3
<1>5. i \in LinesOf(d, p)
  BY DEF Open
<1> QED BY <1>4, <1>5 DEF Drops, Verifs

\* The phases of a document do not change with the values of its lines.
LEMMA ValuesKeepPhases ==
  ASSUME NEW d, NEW e, Revalued(d, e)
  PROVE  /\ DOMAIN e = DOMAIN d /\ PhaseStarts(e) = PhaseStarts(d)
         /\ \A p : LinesOf(e, p) = LinesOf(d, p)
         /\ \A p : StatusBelow(e, p) <=> StatusBelow(d, p)
         /\ TopStatus(e) = TopStatus(d)
         /\ Shaped(d) => Shaped(e)
<1>1. DOMAIN e = DOMAIN d /\ DOMAIN d = 1 .. Len(d)
  BY DEF Revalued
<1>2. \A j \in DOMAIN d : e[j].is = d[j].is /\ e[j].section = d[j].section
  BY <1>1 DEF Revalued, SameButValue
<1>3. PhaseStarts(e) = PhaseStarts(d)
  BY <1>1, <1>2 DEF PhaseStarts
<1>4. \A p : LinesOf(e, p) = LinesOf(d, p)
  BY <1>1, <1>3 DEF LinesOf
<1>5. \A p : StatusBelow(e, p) <=> StatusBelow(d, p)
  BY <1>1, <1>2 DEF StatusBelow
<1>6. {i \in DOMAIN e : e[i].is = "bold" /\ Names(e[i], "status")}
        = {i \in DOMAIN d : d[i].is = "bold" /\ Names(d[i], "status")}
  BY <1>1, <1>2 DEF Names
<1>7. TopStatus(e) = TopStatus(d)
  BY <1>6, Zenon DEF TopStatus
<1>8. Shaped(d) => Shaped(e)
  BY <1>1, <1>2, <1>3 DEF Shaped
<1> QED BY <1>1, <1>3, <1>4, <1>5, <1>7, <1>8

\* Nor do its rows, when theirs stay.
LEMMA ValuesKeepRows ==
  ASSUME NEW d, NEW e, Revalued(d, e), \A j \in DOMAIN d : d[j].is = "row" => e[j] = d[j]
  PROVE  /\ OpenRows(e) = OpenRows(d) /\ DoneRows(e) = DoneRows(d)
         /\ Dropped(e) = Dropped(d) /\ Checks(e) = Checks(d)
<1>1. DOMAIN e = DOMAIN d /\ DOMAIN d = 1 .. Len(d) /\ \A j \in DOMAIN d : e[j].is = d[j].is
  BY DEF Revalued, SameButValue
<1>2. OpenRows(e) = OpenRows(d) /\ DoneRows(e) = DoneRows(d)
  BY <1>1 DEF OpenRows, DoneRows, OpenRow, DoneRow
<1>3. \A i \in DOMAIN d : ParseAt(e, i) = ParseAt(d, i)
  <2>1. DOMAIN d \subseteq 0 .. Len(d)
    BY <1>1 DEF Revalued
  <2> QED BY <2>1, ValuesKeepParse
<1>4. \A i \in OpenRows(d) : i \in DOMAIN d /\ e[i] = d[i]
  BY DEF OpenRows, OpenRow
<1> QED BY <1>2, <1>3, <1>4, Zenon DEF Dropped, Checks

\* Only a numbered phase ends what a status line superseded.
LEMMA StaysSuperseded ==
  ASSUME NEW s \in Scope, s.superseded, NEW x \in Line, x.is # "phase"
  PROVE  EnterRouter(s, x).superseded
<1>1. CASE x.is \in {"named", "heading"}
  <2>1. ~Supersedes(x) /\ ~PlainBold(x)
    BY <1>1 DEF Supersedes, PlainBold
  <2>2. EnterRouter(s, x).superseded = s.superseded
    BY <1>1, <2>1, Zenon DEF EnterRouter, Scope
  <2> QED BY <2>2
<1>2. CASE Supersedes(x)
  <2>1. EnterRouter(s, x) = [s EXCEPT !.superseded = TRUE]
    BY <1>2, Zenon DEF EnterRouter, PlainBold, Supersedes
  <2> QED BY <2>1, Zenon DEF Scope
<1>3. CASE PlainBold(x)
  <2>1. x.is = "bold" /\ ~Supersedes(x)
    BY <1>3 DEF PlainBold
  <2>2. EnterRouter(s, x).superseded = s.superseded
    BY <1>3, <2>1, Zenon DEF EnterRouter, Scope
  <2> QED BY <2>2
<1>4. CASE x.is \notin {"named", "heading"} /\ ~Supersedes(x) /\ ~PlainBold(x)
  BY <1>4, Zenon DEF EnterRouter
<1> QED BY <1>1, <1>2, <1>3, <1>4

\* The scanners of lines see the rows of a Superseded phase superseded.
LEMMA SupersededScope ==
  ASSUME NEW d \in Seq(Line), Shaped(d), NEW p \in PhaseStarts(d),
         Status(d, p) = "Superseded", NEW i \in LinesOf(d, p)
  PROVE  RouterAt(d, i).superseded
<1> DEFINE T == {j \in 1 .. Len(d) : RouterAt(d, j).superseded}
<1>1. Len(d) \in Nat /\ DOMAIN d = 1 .. Len(d) /\ p \in 1 .. Len(d) /\ i \in 1 .. Len(d) /\ i > p
  BY DEF PhaseStarts, LinesOf
<1>2. StatusBelow(d, p) /\ d[p + 1].value = "Superseded" /\ d[p + 1].section = "status"
  BY DEF Status, StatusBelow
<1>3. p + 1 \in 1 .. Len(d) /\ (p + 1) - 1 = p /\ d[p + 1] \in Line
  BY <1>1, <1>2 DEF StatusBelow
<1>4. Supersedes(d[p + 1]) /\ d[p + 1].is = "bold"
  BY <1>2, <1>3 DEF Supersedes, Line
<1>5. p + 1 \in T
  <2>1. RouterAt(d, p + 1) = EnterRouter(RouterAt(d, p), d[p + 1])
    BY <1>3, RouterScan
  <2>2. RouterAt(d, p) \in Scope
    <3>1. p \in 0 .. Len(d)
      BY <1>1
    <3> QED BY <3>1, RouterScan
  <2>3. EnterRouter(RouterAt(d, p), d[p + 1]) = [RouterAt(d, p) EXCEPT !.superseded = TRUE]
    BY <1>4, Zenon DEF EnterRouter, PlainBold
  <2>4. EnterRouter(RouterAt(d, p), d[p + 1]).superseded
    BY <2>2, <2>3, Zenon DEF Scope
  <2> QED BY <1>3, <2>1, <2>4
<1>6. ASSUME NEW j \in p + 1 .. i - 1, j \in T PROVE j + 1 \in T
  <2>1. j + 1 \in 1 .. Len(d) /\ (j + 1) - 1 = j /\ j \in 0 .. Len(d) /\ j + 1 > p /\ j + 1 <= i
    BY <1>1
  <2>2. j + 1 \notin PhaseStarts(d)
    BY <1>1, <2>1 DEF LinesOf, PhaseStarts
  <2>3. d[j + 1].is # "phase"
    BY <1>1, <2>1, <2>2 DEF PhaseStarts
  <2>4. RouterAt(d, j + 1) = EnterRouter(RouterAt(d, j), d[j + 1])
    BY <2>1, RouterScan
  <2>5. RouterAt(d, j) \in Scope /\ RouterAt(d, j).superseded
    BY <1>6, <2>1, RouterScan
  <2>6. d[j + 1] \in Line
    BY <2>1
  <2>7. EnterRouter(RouterAt(d, j), d[j + 1]).superseded
    BY <2>3, <2>5, <2>6, StaysSuperseded
  <2> QED BY <2>1, <2>4, <2>7
<1>7. i \in T
  <2> HIDE DEF T
  <2>1. p + 1 \in Nat /\ i \in Nat /\ i \in p + 1 .. i
    BY <1>1
  <2> QED BY <1>5, <1>6, <2>1, Interval
<1> QED BY <1>7

-----------------------------------------------------------------------------
(* What the gate writes. *)

\* A line with another value is a line.
LEMMA OtherValue ==
  ASSUME NEW x \in Line, NEW v \in Text, NEW y, y = [x EXCEPT !.value = v]
  PROVE  y \in Line /\ SameButValue(x, y) /\ y.value = v
<1> DEFINE Rec == [is : {"row", "phase", "named", "bold", "heading"}, section : STRING,
                   value : Text, verification : BOOLEAN, descoped : BOOLEAN, host : BOOLEAN]
<1>1. x \in Rec
  BY DEF Line
<1>2. y \in Rec /\ y.value = v
  BY <1>1
<1>3. /\ y.is = x.is /\ y.section = x.section /\ y.verification = x.verification
      /\ y.descoped = x.descoped /\ y.host = x.host
  BY <1>1
<1> HIDE DEF Rec
<1>4. y \in Line
  <2>1. /\ x.is \in {"row", "phase", "named"} => x.section = "none"
        /\ x.section \in {"status", "kind"} => x.is = "bold"
        /\ x.is \in {"phase", "named"} \/ x.section \in {"status", "kind"} =>
             ~x.verification /\ ~x.descoped /\ ~x.host
    BY Zenon DEF Line
  <2>2. /\ y.is \in {"row", "phase", "named"} => y.section = "none"
        /\ y.section \in {"status", "kind"} => y.is = "bold"
        /\ y.is \in {"phase", "named"} \/ y.section \in {"status", "kind"} =>
             ~y.verification /\ ~y.descoped /\ ~y.host
    BY <1>3, <2>1, Zenon
  <2> QED BY <1>2, <2>2, Zenon DEF Line, Rec
<1>5. SameButValue(x, y)
  BY <1>3 DEF SameButValue
<1> QED BY <1>2, <1>4, <1>5

\* The rows that the auto-tick ticks.
Ticks == IF structural \/ Cardinality(Tickable(doc)) > passed THEN {} ELSE Tickable(doc)

LEMMA Tickables ==
  ASSUME NEW d \in Seq(Line)
  PROVE  /\ Tickable(d) = {i \in OpenRows(d) : /\ Spaced(d[i]) /\ ~AutotickAt(d, i).superseded
                                               /\ d[i].verification \/ AutotickAt(d, i).verification}
         /\ IsFiniteSet(Tickable(d)) /\ Cardinality(Tickable(d)) \in Nat
<1>1. Tickable(d) = {i \in OpenRows(d) : /\ Spaced(d[i]) /\ ~AutotickAt(d, i).superseded
                                         /\ d[i].verification \/ AutotickAt(d, i).verification}
  BY Zenon DEF Tickable, Scan, MarkedRow, AutotickAt
<1>2. IsFiniteSet(Tickable(d))
  BY <1>1, RowsAreFinite, FS_Subset
<1> QED BY <1>1, <1>2, FS_CardinalityType

\* After the ticks the rows ticked are done and no other line has changed.
LEMMA TickFacts ==
  ASSUME doc \in Seq(Line), structural \in BOOLEAN
  PROVE  /\ AfterTicks \in Seq(Line) /\ Revalued(doc, AfterTicks)
         /\ \A i \in DOMAIN doc \ Ticks : AfterTicks[i] = doc[i]
         /\ OpenRows(AfterTicks) = OpenRows(doc) \ Ticks
         /\ \A j \in 1 .. Len(doc) : Alike(doc[j], AfterTicks[j])
         /\ Ticks \subseteq Tickable(doc) /\ Tickable(doc) \subseteq OpenRows(doc)
<1>1. Tickable(doc) \subseteq OpenRows(doc) /\ Ticks \subseteq Tickable(doc)
  BY Tickables DEF Ticks
<1>2. AfterTicks = [i \in DOMAIN doc |-> IF i \in Ticks THEN Audited(doc[i]) ELSE doc[i]]
  <2>1. doc = [i \in DOMAIN doc |-> doc[i]]
    OBVIOUS
  <2>2. CASE structural \/ Cardinality(Tickable(doc)) > passed
    <3>1. AfterTicks = doc /\ Ticks = {}
      BY <2>2 DEF AfterTicks, autotick_verification_rows, Ticks
    <3> QED BY <2>1, <3>1
  <2>3. CASE ~(structural \/ Cardinality(Tickable(doc)) > passed)
    BY <2>3 DEF AfterTicks, autotick_verification_rows, Ticks
  <2> QED BY <2>2, <2>3
<1>3. DOMAIN doc = 1 .. Len(doc) /\ Len(doc) \in Nat
  OBVIOUS
<1>4. ASSUME NEW i \in DOMAIN doc, i \in Ticks
      PROVE  /\ Audited(doc[i]) \in Line /\ SameButValue(doc[i], Audited(doc[i]))
             /\ doc[i].is = "row" /\ Audited(doc[i]).is = "row" /\ ~OpenRow(Audited(doc[i]))
  <2>1. doc[i] \in Line /\ doc[i].is = "row"
    BY <1>1, <1>4 DEF OpenRows, OpenRow
  <2>2. /\ DOMAIN Audited(doc[i]) = DOMAIN doc[i]
        /\ Audited(doc[i]).value = "audited"
    BY <2>1 DEF Audited, Line
  <2>3. SameButValue(doc[i], Audited(doc[i]))
    BY <2>1 DEF Audited, Line, SameButValue
  <2>4. Audited(doc[i]) = [doc[i] EXCEPT !.value = "audited"]
    BY Zenon DEF Audited
  <2>5. "audited" \in Text
    BY DEF Text
  <2>6. Audited(doc[i]) \in Line
    BY <2>1, <2>4, <2>5, OtherValue
  <2> QED BY <2>1, <2>2, <2>3, <2>6 DEF OpenRow, SameButValue
<1>5. \A i \in DOMAIN doc : doc[i] \in Line /\ SameButValue(doc[i], doc[i])
  BY DEF SameButValue
<1>6. AfterTicks \in Seq(Line) /\ Len(AfterTicks) = Len(doc)
  <2>1. \A i \in 1 .. Len(doc) : (IF i \in Ticks THEN Audited(doc[i]) ELSE doc[i]) \in Line
    BY <1>3, <1>4, <1>5
  <2>2. AfterTicks \in [1 .. Len(doc) -> Line]
    BY <1>2, <1>3, <2>1
  <2> QED BY <1>3, <2>2
<1>7. Revalued(doc, AfterTicks)
  BY <1>2, <1>3, <1>4, <1>5, <1>6 DEF Revalued
<1>8. \A j \in 1 .. Len(doc) : Alike(doc[j], AfterTicks[j])
  BY <1>2, <1>3, <1>4 DEF Alike
<1>9. \A i \in DOMAIN doc \ Ticks : AfterTicks[i] = doc[i]
  BY <1>2
<1>10. OpenRows(AfterTicks) = OpenRows(doc) \ Ticks
  BY <1>2, <1>4 DEF OpenRows
<1> QED BY <1>1, <1>6, <1>7, <1>8, <1>9, <1>10

\* The document that is completed: in it only status lines have changed, to
\* Complete, and of the phases' only those with the heading of one that flips.
LEMMA FlipFacts ==
  ASSUME NEW t \in Seq(Line), Shaped(t), NEW flip \in SUBSET PhaseStarts(t),
         NEW e, e = FlipTop(FlipPhases(t, flip), "Complete")
  PROVE  /\ e \in Seq(Line) /\ Revalued(t, e)
         /\ \A j \in DOMAIN t : t[j].section # "status" => e[j] = t[j]
         /\ \A p \in PhaseStarts(t) : StatusBelow(t, p) /\ p + 1 \notin TopStatus(t) =>
              e[p + 1].value = IF p \in Namesakes(t, flip) THEN "Complete" ELSE t[p + 1].value
<1> DEFINE lines == UNION {FirstOf(t, p, "status") : p \in Namesakes(t, flip)}
           f == FlipPhases(t, flip)
           done(x) == [x EXCEPT !.value = "Complete"]
<1>1. DOMAIN t = 1 .. Len(t) /\ Len(t) \in Nat
  OBVIOUS
<1>2. f = [i \in DOMAIN t |-> IF i \in lines THEN done(t[i]) ELSE t[i]]
  BY DEF FlipPhases
<1>3. lines \subseteq {i \in DOMAIN t : t[i].section = "status"}
  BY DEF FirstOf, LinesOf, Names
<1>4. ASSUME NEW x \in Line, x.section = "status"
      PROVE  done(x) \in Line /\ SameButValue(x, done(x)) /\ done(x).value = "Complete"
  <2> DEFINE y == done(x)
  <2>0. "Complete" \in Text
    BY DEF Text
  <2>1. y = [x EXCEPT !.value = "Complete"]
    BY Zenon
  <2> HIDE DEF y
  <2>2. y \in Line /\ SameButValue(x, y) /\ y.value = "Complete"
    BY <2>0, <2>1, OtherValue
  <2> QED BY <2>2 DEF y
<1>5. ASSUME NEW p \in PhaseStarts(t), StatusBelow(t, p) PROVE p + 1 \in lines <=> p \in Namesakes(t, flip)
  <2>1. \A q \in PhaseStarts(t) : q \in Nat
    BY <1>1 DEF PhaseStarts
  <2>2. \A q \in Namesakes(t, flip) : FirstOf(t, q, "status") \subseteq {q + 1}
    BY StatusLine1 DEF Namesakes
  <2>3. FirstOf(t, p, "status") = {p + 1}
    BY <1>5, StatusLine1
  <2>4. p + 1 \in lines => p \in Namesakes(t, flip)
    BY <2>1, <2>2 DEF Namesakes
  <2> QED BY <2>3, <2>4
<1> HIDE DEF lines
<1>6. TopStatus(f) \subseteq {i \in DOMAIN t : t[i].section = "status"}
  <2>1. DOMAIN f = DOMAIN t
    BY <1>2
  <2>2. \A i \in DOMAIN t : f[i].section = t[i].section
    BY <1>1, <1>2, <1>3, <1>4 DEF SameButValue
  <2> HIDE DEF f
  <2> QED BY <2>1, <2>2 DEF TopStatus, Names
<1>7. f \in Seq(Line) /\ Revalued(t, f)
  <2>1. \A i \in 1 .. Len(t) : (IF i \in lines THEN done(t[i]) ELSE t[i]) \in Line
    <3>1. \A i \in 1 .. Len(t) : t[i] \in Line
      OBVIOUS
    <3> HIDE DEF done
    <3> QED BY <1>1, <1>3, <1>4, <3>1
  <2>2. f \in [1 .. Len(t) -> Line]
    BY <1>1, <1>2, <2>1
  <2>3. f \in Seq(Line) /\ Len(f) = Len(t)
    BY <1>1, <2>2
  <2>4. \A i \in 1 .. Len(t) : SameButValue(t[i], f[i])
    BY <1>1, <1>2, <1>3, <1>4 DEF SameButValue
  <2> QED BY <2>3, <2>4 DEF Revalued
<1>8. TopStatus(f) = TopStatus(t)
  BY <1>7, ValuesKeepPhases
<1>9. e = [i \in DOMAIN t |-> IF i \in TopStatus(t) THEN done(f[i]) ELSE f[i]]
  <2>1. DOMAIN f = DOMAIN t
    BY <1>2
  <2> HIDE DEF f
  <2> QED BY <1>8, <2>1 DEF FlipTop, f
<1>10. \A i \in DOMAIN t : f[i] \in Line /\ SameButValue(t[i], f[i]) /\ f[i].section = t[i].section
  BY <1>1, <1>7 DEF Revalued, SameButValue
<1>11. \A j \in DOMAIN t : t[j].section # "status" => f[j] = t[j]
  BY <1>2, <1>3
<1>12. \A p \in PhaseStarts(t) : StatusBelow(t, p) =>
         f[p + 1].value = IF p \in Namesakes(t, flip) THEN "Complete" ELSE t[p + 1].value
  BY <1>1, <1>2, <1>4, <1>5 DEF StatusBelow
<1> HIDE DEF f
<1>13. \A i \in DOMAIN t : e[i] \in Line /\ SameButValue(t[i], e[i])
  <2>1. \A i \in TopStatus(t) : i \in DOMAIN t /\ t[i].section = "status"
    BY <1>6, <1>8
  <2>2. ASSUME NEW i \in DOMAIN t PROVE e[i] \in Line /\ SameButValue(t[i], e[i])
    <3>1. CASE i \in TopStatus(t)
      <4>1. e[i] = done(f[i]) /\ f[i].section = "status"
        BY <1>9, <1>10, <2>1, <3>1
      <4>2. e[i] \in Line /\ SameButValue(f[i], e[i])
        BY <1>4, <1>10, <4>1
      <4> QED BY <1>10, <4>2 DEF SameButValue
    <3>2. CASE i \notin TopStatus(t)
      BY <1>9, <1>10, <3>2
    <3> QED BY <3>1, <3>2
  <2> QED BY <2>2
<1>14. e \in Seq(Line) /\ Len(e) = Len(t)
  <2>1. DOMAIN e = 1 .. Len(t) /\ e = [i \in 1 .. Len(t) |-> e[i]]
    BY <1>1, <1>9
  <2>2. e \in [1 .. Len(t) -> Line]
    BY <1>1, <1>13, <2>1
  <2> QED BY <1>1, <2>2
<1>15. Revalued(t, e)
  BY <1>1, <1>13, <1>14 DEF Revalued
<1>16. \A j \in DOMAIN t : t[j].section # "status" => e[j] = t[j]
  BY <1>6, <1>8, <1>9, <1>11
<1>17. \A p \in PhaseStarts(t) : StatusBelow(t, p) /\ p + 1 \notin TopStatus(t) =>
         e[p + 1].value = IF p \in Namesakes(t, flip) THEN "Complete" ELSE t[p + 1].value
  BY <1>9, <1>12 DEF StatusBelow
<1> QED BY <1>14, <1>15, <1>16, <1>17

\* Which phases flip and which refuse.
LEMMA PlanFacts ==
  ASSUME NEW t \in Seq(Line), Shaped(t), NEW exempt \in BOOLEAN
  PROVE  /\ \A p : p \in phase_completion_plan(t, exempt).flip <=>
              /\ p \in PhaseStarts(t) /\ Status(t, p) \notin {"none", "Complete", "Superseded"}
              /\ Cardinality(DoneRows(t) \cap LinesOf(t, p)) + Cardinality(Open(t, p)) > 0
              /\ Owed(t, p, exempt) = 0
         /\ \A p : p \in phase_completion_plan(t, exempt).refused <=>
              /\ p \in PhaseStarts(t) /\ Status(t, p) # "Superseded"
              /\ \/ Owed(t, p, exempt) > 0
                 \/ /\ Status(t, p) \notin {"none", "Complete"}
                    /\ p \notin phase_completion_plan(t, exempt).flip
<1> DEFINE flips(p) == /\ parse_phases(t)[p].status \notin {"none", "Complete", "Superseded"}
                       /\ parse_phases(t)[p].checked + parse_phases(t)[p].unchecked > 0
                       /\ EffectiveUnchecked(parse_phases(t)[p], exempt) = 0
           refuses(p) == /\ parse_phases(t)[p].status # "Superseded"
                         /\ \/ EffectiveUnchecked(parse_phases(t)[p], exempt) > 0
                            \/ /\ parse_phases(t)[p].status \notin {"none", "Complete"}
                               /\ ~flips(p)
<1>1. DOMAIN parse_phases(t) = PhaseStarts(t)
  BY Zenon DEF parse_phases
<1>2. /\ phase_completion_plan(t, exempt).flip = {p \in DOMAIN parse_phases(t) : flips(p)}
      /\ phase_completion_plan(t, exempt).refused = {p \in DOMAIN parse_phases(t) : refuses(p)}
  BY Zenon DEF phase_completion_plan
<1>3. \A p \in PhaseStarts(t) : flips(p) <=>
        /\ Status(t, p) \notin {"none", "Complete", "Superseded"}
        /\ Cardinality(DoneRows(t) \cap LinesOf(t, p)) + Cardinality(Open(t, p)) > 0
        /\ Owed(t, p, exempt) = 0
  BY PhaseRecord, Zenon DEF Owed, Open
<1>4. \A p \in PhaseStarts(t) : refuses(p) <=>
        /\ Status(t, p) # "Superseded"
        /\ Owed(t, p, exempt) > 0 \/ (Status(t, p) \notin {"none", "Complete"} /\ ~flips(p))
  BY PhaseRecord, Zenon DEF Owed
<1> HIDE DEF flips, refuses
<1> QED BY <1>1, <1>2, <1>3, <1>4, Zenon

-----------------------------------------------------------------------------
(* The invariant. *)

\* Documents are made of lines where the template puts them; what was sent was
\* found done and covered; and a ledger is there by a structural skip only, with
\* the rows the gate would list now.
GateInv ==
  /\ doc \in Seq(Line) /\ Shaped(doc)
  /\ passed \in Nat /\ structural \in BOOLEAN
  /\ pc \in {"writing", "sent", "refused", "completed"}
  /\ pc = "sent" => ImplementationDone /\ Covered
  /\ pc = "writing" \/ ~structural => ledger = {}
  /\ pc \in {"sent", "refused"} => ledger \in {{}, Deferred}

LEMMA GateInit == Init => GateInv
<1> SUFFICES ASSUME Init PROVE GateInv
  OBVIOUS
<1>1. /\ doc = <<>> /\ structural \in BOOLEAN /\ passed \in IF structural THEN {0} ELSE 0 .. MaxTests
      /\ ledger = {} /\ pc = "writing"
  BY DEF Init
<1>2. passed \in Nat
  BY <1>1, CompletionGateAssumption
<1>3. doc \in Seq(Line) /\ DOMAIN doc = {}
  BY <1>1
<1>4. Shaped(doc)
  BY <1>3 DEF Shaped
<1> QED BY <1>1, <1>2, <1>3, <1>4 DEF GateInv

\* Writing keeps the template.
LEMMA WriteKeeps ==
  ASSUME GateInv, NEW l \in Lines, Write(l)
  PROVE  doc' \in Seq(Line) /\ Shaped(doc')
<1>1. doc \in Seq(Line) /\ Shaped(doc) /\ l \in Line
  BY CompletionGateAssumption DEF GateInv
<1>2. /\ l.section = "status" => doc = <<>> \/ Len(doc) \in PhaseStarts(doc)
      /\ PhaseStarts(doc) # {} \/ l.is = "phase" \/ l.section = "status"
      /\ doc' = Append(doc, l)
  BY DEF Write
<1> DEFINE n == Len(doc) + 1
<1>3. /\ doc' \in Seq(Line) /\ Len(doc') = n /\ DOMAIN doc' = 1 .. n /\ n \in Nat /\ n >= 1
      /\ doc'[n] = l /\ \A i \in DOMAIN doc : i \in 1 .. n - 1 /\ doc'[i] = doc[i]
      /\ DOMAIN doc = 1 .. n - 1 /\ Len(doc) = n - 1
  BY <1>1, <1>2
<1>4. PhaseStarts(doc) \subseteq PhaseStarts(doc') /\ PhaseStarts(doc) \subseteq 1 .. n - 1
  <2> HIDE DEF n
  <2> QED BY <1>3 DEF PhaseStarts
<1>5. l.is = "phase" => n \in PhaseStarts(doc')
  <2> HIDE DEF n
  <2> QED BY <1>3 DEF PhaseStarts
<1> HIDE DEF n
<1>6. ASSUME NEW i \in DOMAIN doc'
      PROVE  /\ doc'[i].section = "status" => i = 1 \/ i - 1 \in PhaseStarts(doc')
             /\ doc'[i].section = "status" \/ \E q \in PhaseStarts(doc') : q <= i
  <2>1. CASE i \in DOMAIN doc
    <3>1. doc'[i] = doc[i]
      BY <1>3, <2>1
    <3> QED BY <1>1, <1>4, <2>1, <3>1 DEF Shaped
  <2>2. CASE i = n
    <3>1. doc = <<>> => n = 1
      BY <1>3
    <3>2. doc'[i].section = "status" => i = 1 \/ i - 1 \in PhaseStarts(doc')
      BY <1>2, <1>3, <1>4, <2>2, <3>1
    <3>3. \A q \in PhaseStarts(doc) : q <= n
      BY <1>3, <1>4
    <3>4. doc'[i].section = "status" \/ \E q \in PhaseStarts(doc') : q <= i
      BY <1>2, <1>3, <1>4, <1>5, <2>2, <3>3
    <3> QED BY <3>2, <3>4
  <2>3. i \in DOMAIN doc \/ i = n
    BY <1>3
  <2> QED BY <2>1, <2>2, <2>3
<1> QED BY <1>3, <1>6 DEF Shaped

\* What the gate reads when it decides, and what it writes when it completes.
LEMMA Decided ==
  ASSUME GateInv
  PROVE  /\ AfterTicks \in Seq(Line) /\ Shaped(AfterTicks) /\ Revalued(doc, AfterTicks)
         /\ PhaseStarts(AfterTicks) = PhaseStarts(doc)
         /\ structural => AfterTicks = doc
         /\ ~structural => Deferred = {}
         /\ Deferred \subseteq OpenRows(doc)
<1>1. doc \in Seq(Line) /\ Shaped(doc) /\ structural \in BOOLEAN
  BY DEF GateInv
<1>2. AfterTicks \in Seq(Line) /\ Revalued(doc, AfterTicks)
  BY <1>1, TickFacts
<1>3. Shaped(AfterTicks) /\ PhaseStarts(AfterTicks) = PhaseStarts(doc)
  BY <1>1, <1>2, ValuesKeepPhases
<1>4. structural => AfterTicks = doc
  BY DEF AfterTicks
<1>5. ~structural => Deferred = {}
  BY DEF Deferred
<1>6. Deferred \subseteq OpenRows(doc)
  BY Zenon DEF Deferred, enumerate_deferred_verification_rows, Scan
<1> QED BY <1>1, <1>2, <1>3, <1>4, <1>5, <1>6

LEMMA Completed ==
  ASSUME GateInv, Complete
  PROVE  /\ doc' \in Seq(Line) /\ Shaped(doc') /\ Revalued(AfterTicks, doc')
         /\ \A j \in DOMAIN AfterTicks : AfterTicks[j].section # "status" => doc'[j] = AfterTicks[j]
         /\ \A p \in PhaseStarts(AfterTicks) :
              StatusBelow(AfterTicks, p) /\ p + 1 \notin TopStatus(AfterTicks) =>
                doc'[p + 1].value = IF p \in Namesakes(AfterTicks, Plan.flip) THEN "Complete" ELSE AfterTicks[p + 1].value
         /\ OpenRows(doc') = OpenRows(AfterTicks) /\ DoneRows(doc') = DoneRows(AfterTicks)
         /\ Dropped(doc') = Dropped(AfterTicks) /\ Checks(doc') = Checks(AfterTicks)
<1> DEFINE t == AfterTicks
           e == doc'
<1>1. t \in Seq(Line) /\ Shaped(t)
  BY Decided
<1>2. Plan.flip \in SUBSET PhaseStarts(t)
  <2>1. (Deferred # {}) \in BOOLEAN
    OBVIOUS
  <2> QED BY <1>1, <2>1, PlanFacts DEF Plan
<1>3. e = FlipTop(FlipPhases(t, Plan.flip), "Complete")
  BY DEF Complete
<1> HIDE DEF t, e
<1>4. /\ e \in Seq(Line) /\ Revalued(t, e)
      /\ \A j \in DOMAIN t : t[j].section # "status" => e[j] = t[j]
      /\ \A p \in PhaseStarts(t) : StatusBelow(t, p) /\ p + 1 \notin TopStatus(t) =>
           e[p + 1].value = IF p \in Namesakes(t, Plan.flip) THEN "Complete" ELSE t[p + 1].value
  BY <1>1, <1>2, <1>3, FlipFacts
<1>5. Shaped(e)
  BY <1>1, <1>4, ValuesKeepPhases
<1>6. \A j \in DOMAIN t : t[j].is = "row" => e[j] = t[j]
  <2>1. \A j \in DOMAIN t : t[j] \in Line
    BY <1>1
  <2>2. \A j \in DOMAIN t : t[j].is = "row" => t[j].section # "status"
    BY <2>1 DEF Line
  <2> QED BY <1>4, <2>2
<1>7. /\ OpenRows(e) = OpenRows(t) /\ DoneRows(e) = DoneRows(t)
      /\ Dropped(e) = Dropped(t) /\ Checks(e) = Checks(t)
  BY <1>4, <1>6, ValuesKeepRows
<1> QED BY <1>4, <1>5, <1>7 DEF t, e

LEMMA GateStep == GateInv /\ [Next]_vars => GateInv'
<1> SUFFICES ASSUME GateInv, [Next]_vars PROVE GateInv'
  OBVIOUS
<1>0. /\ doc \in Seq(Line) /\ Shaped(doc) /\ passed \in Nat /\ structural \in BOOLEAN
      /\ pc = "sent" => ImplementationDone /\ Covered
      /\ pc = "writing" \/ ~structural => ledger = {}
      /\ pc \in {"sent", "refused"} => ledger \in {{}, Deferred}
      /\ pc \in {"writing", "sent", "refused", "completed"}
  BY DEF GateInv
<1>1. ASSUME NEW l \in Lines, Write(l) PROVE GateInv'
  <2>1. doc' \in Seq(Line) /\ Shaped(doc')
    BY <1>1, WriteKeeps
  <2>2. /\ pc = "writing" /\ passed' = passed /\ structural' = structural /\ ledger' = ledger
        /\ pc' = pc
    BY <1>1 DEF Write
  <2> QED BY <1>0, <2>1, <2>2 DEF GateInv
<1>2. CASE Send
  <2>1. /\ pc \in {"writing", "refused"} /\ ImplementationDone /\ Covered /\ pc' = "sent"
        /\ UNCHANGED <<doc, passed, structural, ledger>>
    BY <1>2 DEF Send
  <2>2. (ImplementationDone /\ Covered)'
    BY <2>1 DEF ImplementationDone, Covered
  <2>3. Deferred' = Deferred
    BY <2>1 DEF Deferred
  <2>4. Shaped(doc)'
    BY <1>0, <2>1
  <2> QED BY <1>0, <2>1, <2>2, <2>3, <2>4 DEF GateInv
<1>3. CASE Refuse
  <2>1. /\ pc = "sent" /\ doc' = AfterTicks /\ ledger' = IF Deferred = {} THEN ledger ELSE Deferred
        /\ pc' = "refused" /\ passed' = passed /\ structural' = structural
    BY <1>3 DEF Refuse
  <2>2. doc' \in Seq(Line) /\ Shaped(doc')
    BY <2>1, Decided
  <2>3. ledger' \in {{}, Deferred}
    BY <1>0, <2>1
  <2>4. Deferred' = Deferred
    <3>1. CASE structural
      <4>1. doc' = doc
        BY <2>1, <3>1, Decided
      <4> QED BY <2>1, <4>1 DEF Deferred
    <3>2. CASE ~structural
      BY <2>1, <3>2 DEF Deferred
    <3> QED BY <3>1, <3>2
  <2>5. ~structural => ledger' = {}
    BY <2>3, Decided
  <2> QED BY <1>0, <2>1, <2>2, <2>3, <2>4, <2>5 DEF GateInv
<1>4. CASE Complete
  <2>1. /\ pc = "sent" /\ ledger' = IF Deferred = {} THEN ledger ELSE Deferred
        /\ pc' = "completed" /\ passed' = passed /\ structural' = structural
    BY <1>4 DEF Complete
  <2>2. doc' \in Seq(Line) /\ Shaped(doc')
    BY <1>4, Completed
  <2>3. ~structural => ledger' = {}
    BY <1>0, <2>1, Decided
  <2> QED BY <1>0, <2>1, <2>2, <2>3 DEF GateInv
<1>5. CASE UNCHANGED vars
  <2>1. UNCHANGED <<doc, passed, structural, ledger, pc>>
    BY <1>5 DEF vars
  <2>2. /\ ImplementationDone' = ImplementationDone /\ Covered' = Covered
        /\ Deferred' = Deferred /\ Shaped(doc)' = Shaped(doc)
    BY <2>1 DEF ImplementationDone, Covered, Deferred
  <2> QED BY <1>0, <2>1, <2>2 DEF GateInv
<1> QED BY <1>1, <1>2, <1>3, <1>4, <1>5 DEF Next

LEMMA GateAlways == Spec => []GateInv
  BY GateInit, GateStep, PTL DEF Spec

-----------------------------------------------------------------------------
(* The ticks of the gate. *)

\* What may be ticked of a document: a verification row, or one that is dropped.
MayTick(d) ==
  Scan(EnterRouter, LAMBDA s, l : \/ ~s.superseded /\ (l.verification \/ s.verification \/ s.shim)
                                  \/ l.descoped \/ s.descoped, d)

\* The rows that the router takes for exempt, and those left when it sends.
LEMMA SentRows ==
  ASSUME GateInv, pc = "sent", NEW i \in OpenRows(doc)
  PROVE  \/ RouterAt(doc, i).superseded
         \/ doc[i].descoped \/ RouterAt(doc, i).descoped
         \/ doc[i].verification \/ RouterAt(doc, i).verification
         \/ RouterAt(doc, i).shim
<1>1. doc \in Seq(Line) /\ ImplementationDone
  BY DEF GateInv
<1>2. Unchecked(doc) > 0
  <2>1. IsFiniteSet(OpenRows(doc)) /\ Cardinality(OpenRows(doc)) \in Nat /\ OpenRows(doc) # {}
    BY <1>1, RowsAreFinite
  <2>2. Cardinality(OpenRows(doc)) # 0
    BY <2>1, FS_EmptySet
  <2> QED BY <2>1, <2>2 DEF Unchecked
<1>3. Scan(EnterRouter, ExemptForRouter, doc) = OpenRows(doc)
  BY <1>1, <1>2 DEF ImplementationDone, remaining_unchecked_are_verification_only
<1>4. ExemptForRouter(RouterAt(doc, i), doc[i])
  BY <1>3, Zenon DEF Scan, RouterAt
<1> QED BY <1>4, Zenon DEF ExemptForRouter

\* A row that the gate can tick is one that it may.
LEMMA TicksAreChecks ==
  ASSUME GateInv, pc = "sent"
  PROVE  Tickable(doc) \subseteq MayTick(doc)
<1>1. doc \in Seq(Line)
  BY DEF GateInv
<1> SUFFICES ASSUME NEW i \in Tickable(doc) PROVE i \in MayTick(doc)
  OBVIOUS
<1>2. i \in OpenRows(doc) /\ ~AutotickAt(doc, i).superseded
  BY <1>1, Tickables
<1>3. i \in 0 .. Len(doc)
  BY <1>1, <1>2 DEF OpenRows
<1>4. ~RouterAt(doc, i).superseded
  BY <1>1, <1>2, <1>3, ScannersAgree, Zenon DEF Agree
<1>5. \/ ~RouterAt(doc, i).superseded
           /\ (doc[i].verification \/ RouterAt(doc, i).verification \/ RouterAt(doc, i).shim)
      \/ doc[i].descoped \/ RouterAt(doc, i).descoped
  BY <1>2, <1>4, SentRows, Zenon
<1> QED BY <1>2, <1>5, Zenon DEF MayTick, Scan, RouterAt

LEMMA TicksStep ==
  ASSUME GateInv, [Next]_vars, NEW i \in OpenRows(doc) \cap DOMAIN doc', DoneRow(doc'[i])
  PROVE  i \in MayTick(doc)
<1>0. /\ doc \in Seq(Line) /\ structural \in BOOLEAN /\ i \in DOMAIN doc
      /\ doc[i].value \in {"open", "tight"}
  BY DEF GateInv, OpenRows, OpenRow
<1>1. doc'[i] # doc[i]
  BY <1>0 DEF DoneRow
<1>2. CASE \E l \in Lines : Write(l)
  <2>1. PICK l \in Lines : doc' = Append(doc, l)
    BY <1>2 DEF Write
  <2>2. doc'[i] = doc[i]
    BY <1>0, <2>1, CompletionGateAssumption
  <2> QED BY <1>1, <2>2
<1>3. CASE Send \/ UNCHANGED vars
  BY <1>1, <1>3 DEF Send, vars
<1>4. CASE Refuse
  <2>1. pc = "sent" /\ doc' = AfterTicks
    BY <1>4 DEF Refuse
  <2>2. i \in Ticks
    BY <1>0, <1>1, <2>1, TickFacts
  <2> QED BY <1>0, <2>1, <2>2, TickFacts, TicksAreChecks
<1>5. CASE Complete
  <2>1. pc = "sent"
    BY <1>5 DEF Complete
  <2>2. AfterTicks[i].section # "status" /\ i \in DOMAIN AfterTicks
    <3>1. i \in DOMAIN AfterTicks /\ AfterTicks[i].is = "row" /\ AfterTicks[i] \in Line
      <4>1. Revalued(doc, AfterTicks) /\ i \in 1 .. Len(doc)
        BY <1>0, Decided
      <4>2. AfterTicks[i].is = doc[i].is /\ i \in DOMAIN AfterTicks /\ AfterTicks[i] \in Line
        BY <4>1 DEF Revalued, SameButValue
      <4>3. doc[i].is = "row"
        BY DEF OpenRows, OpenRow
      <4> QED BY <4>2, <4>3
    <3> QED BY <3>1 DEF Line
  <2>3. doc'[i] = AfterTicks[i]
    BY <1>5, <2>2, Completed
  <2>4. i \in Ticks
    BY <1>0, <1>1, <2>3, TickFacts
  <2> QED BY <1>0, <2>1, <2>4, TickFacts, TicksAreChecks
<1> QED BY <1>2, <1>3, <1>4, <1>5 DEF Next

\* The auto-tick of __mark_complete__ ticks no deliverable that is owed, in any
\* document the router sends: with the router's check in front, a section that
\* only autotick_verification_rows takes for one of verification holds no other
\* row that is open.
THEOREM NoDeliverableIsTicked == Spec => TicksNoDeliverable
<1>1. ASSUME GateInv, [Next]_vars
      PROVE  \A i \in OpenRows(doc) \cap DOMAIN doc' : DoneRow(doc'[i]) => i \in MayTick(doc)
  BY <1>1, TicksStep
<1>2. GateInv /\ [Next]_vars =>
        [\A i \in OpenRows(doc) \cap DOMAIN doc' : DoneRow(doc'[i]) => i \in MayTick(doc)]_vars
  BY <1>1
<1> QED BY <1>2, GateAlways, PTL DEF Spec, TicksNoDeliverable, MayTick

-----------------------------------------------------------------------------
(* What is completed. *)

\* A phase whose status the gate rewrites was not Superseded, if none that is has
\* the heading of another one.
LEMMA RewrittenPhases ==
  ASSUME GateInv, ~SupersededTwin, NEW p \in Namesakes(AfterTicks, Plan.flip)
  PROVE  Status(AfterTicks, p) # "Superseded"
<1> DEFINE t == AfterTicks
<1>1. /\ doc \in Seq(Line) /\ Shaped(doc) /\ structural \in BOOLEAN
      /\ t \in Seq(Line) /\ Shaped(t) /\ Revalued(doc, t) /\ PhaseStarts(t) = PhaseStarts(doc)
  BY Decided DEF GateInv
<1>2. PICK f \in Plan.flip : t[p] = t[f]
  BY DEF Namesakes
<1>3. p \in PhaseStarts(t) /\ f \in PhaseStarts(t) /\ Status(t, f) # "Superseded"
  <2>1. (Deferred # {}) \in BOOLEAN
    OBVIOUS
  <2> QED BY <1>1, <2>1, PlanFacts DEF Plan, Namesakes
<1>4. \A j \in DOMAIN doc : doc[j].is # "row" => t[j] = doc[j]
  <2>1. (\A j \in DOMAIN doc \ Ticks : t[j] = doc[j]) /\ Ticks \subseteq OpenRows(doc)
    BY <1>1, TickFacts
  <2>2. \A j \in OpenRows(doc) : doc[j].is = "row"
    BY DEF OpenRows, OpenRow
  <2> HIDE DEF t
  <2> QED BY <2>1, <2>2
<1> HIDE DEF t
<1>5. doc[p] = doc[f]
  <2>1. \A q \in PhaseStarts(doc) : q \in DOMAIN doc /\ doc[q].is # "row"
    BY DEF PhaseStarts
  <2> QED BY <1>1, <1>2, <1>3, <1>4, <2>1
<1>6. \A q \in PhaseStarts(doc) : Status(t, q) = Status(doc, q)
  <2>1. \A q : StatusBelow(t, q) <=> StatusBelow(doc, q)
    BY <1>1, ValuesKeepPhases
  <2>2. \A j \in DOMAIN doc : doc[j].section = "status" => doc[j].is # "row"
    BY <1>1 DEF Line
  <2> QED BY <1>4, <2>1, <2>2 DEF Status, StatusBelow
<1>7. \A q \in PhaseStarts(doc) : parse_phases(doc)[q].status = Status(doc, q)
  BY <1>1, PhaseRecord
<1> QED BY <1>1, <1>3, <1>5, <1>6, <1>7, Zenon DEF SupersededTwin, t

\* What holds of a phase of the completed document, by the one it was made of.
LEMMA CompletedPhases ==
  ASSUME GateInv, Complete, HasTopStatus', ~SupersededTwin, NEW p \in PhaseStarts(doc')
  PROVE  /\ p \in PhaseStarts(AfterTicks) /\ LinesOf(doc', p) = LinesOf(AfterTicks, p)
         /\ Status(doc', p) \in {"Complete", Status(AfterTicks, p)}
         /\ p \in Plan.flip => Status(doc', p) = "Complete"
         /\ Status(AfterTicks, p) = "Superseded" => Status(doc', p) = "Superseded"
         /\ Open(doc', p) = Open(AfterTicks, p) /\ Drops(doc', p) = Drops(AfterTicks, p)
         /\ Verifs(doc', p) = Verifs(AfterTicks, p)
<1> DEFINE t == AfterTicks
           e == doc'
           N == Namesakes(t, Plan.flip)
<1>1. /\ e \in Seq(Line) /\ Revalued(t, e)
      /\ \A q \in PhaseStarts(t) : StatusBelow(t, q) /\ q + 1 \notin TopStatus(t) =>
           e[q + 1].value = IF q \in N THEN "Complete" ELSE t[q + 1].value
      /\ OpenRows(e) = OpenRows(t) /\ Dropped(e) = Dropped(t) /\ Checks(e) = Checks(t)
  BY Completed
<1>2. t \in Seq(Line) /\ Shaped(t)
  BY Decided
<1>3. PICK i \in TopStatus(e) : \A q \in PhaseStarts(e) : i < q
  BY Zenon DEF HasTopStatus
<1>4. p \in Plan.flip => Status(t, p) \notin {"none", "Complete", "Superseded"}
  <2>1. (Deferred # {}) \in BOOLEAN
    OBVIOUS
  <2> QED BY <1>2, <2>1, PlanFacts DEF Plan
<1>5. p \in N => Status(t, p) # "Superseded"
  BY RewrittenPhases
<1> HIDE DEF t, e
<1>6. /\ PhaseStarts(e) = PhaseStarts(t) /\ \A q : LinesOf(e, q) = LinesOf(t, q)
      /\ \A q : StatusBelow(e, q) <=> StatusBelow(t, q)
      /\ TopStatus(e) = TopStatus(t)
  BY <1>1, ValuesKeepPhases
<1>7. p \in PhaseStarts(e) /\ p \in PhaseStarts(t)
  BY <1>6 DEF e
<1>8. p + 1 \notin TopStatus(t)
  <2>1. i < p /\ i \in Nat /\ p \in Nat
    BY <1>1, <1>3, <1>7 DEF PhaseStarts, TopStatus
  <2>2. \A j \in TopStatus(e) : j <= i
    BY <1>3 DEF TopStatus
  <2> QED BY <1>6, <2>1, <2>2
<1>9. p \in Plan.flip => p \in N
  BY <1>7 DEF Namesakes
<1> HIDE DEF N
<1>10. StatusBelow(t, p) => e[p + 1].value = IF p \in N THEN "Complete" ELSE t[p + 1].value
  BY <1>1, <1>7, <1>8
<1>11. Status(e, p) = IF StatusBelow(t, p) /\ p \in N THEN "Complete" ELSE Status(t, p)
  BY <1>6, <1>10 DEF Status
<1>12. p \in Plan.flip => StatusBelow(t, p)
  BY <1>4 DEF Status
<1>13. Open(e, p) = Open(t, p) /\ Drops(e, p) = Drops(t, p) /\ Verifs(e, p) = Verifs(t, p)
  BY <1>1, <1>6 DEF Open, Drops, Verifs
<1>14. /\ Status(e, p) \in {"Complete", Status(t, p)}
       /\ p \in Plan.flip => Status(e, p) = "Complete"
       /\ Status(t, p) = "Superseded" => Status(e, p) = "Superseded"
  BY <1>5, <1>9, <1>11, <1>12
<1> QED BY <1>6, <1>7, <1>13, <1>14 DEF t, e

\* More is exempt once a ledger is there.
LEMMA ExemptOwesLess ==
  ASSUME NEW d \in Seq(Line), Shaped(d), NEW p \in PhaseStarts(d),
         NEW e \in Seq(Line), Shaped(e), p \in PhaseStarts(e),
         Open(e, p) = Open(d, p), Drops(e, p) = Drops(d, p), Verifs(e, p) = Verifs(d, p),
         NEW y \in BOOLEAN, NEW x \in BOOLEAN, y => x, Owed(e, p, x) > 0
  PROVE  Owed(d, p, y) > 0
<1>1. /\ Cardinality(Open(d, p)) \in Nat /\ Cardinality(Drops(d, p)) \in Nat
      /\ Cardinality(Verifs(d, p)) \in Nat
  BY Counting
<1>2. /\ x => Cardinality(Open(d, p)) > Cardinality(Drops(d, p)) + Cardinality(Verifs(d, p))
      /\ ~x => Cardinality(Open(d, p)) > Cardinality(Drops(d, p))
  BY OwedCounts
<1>3. /\ ~y => (Owed(d, p, y) > 0 <=> Cardinality(Open(d, p)) > Cardinality(Drops(d, p)))
      /\ y => (Owed(d, p, y) > 0
                 <=> Cardinality(Open(d, p)) > Cardinality(Drops(d, p)) + Cardinality(Verifs(d, p)))
  BY OwedCounts
<1> QED BY <1>1, <1>2, <1>3

LEMMA CoherentCompletes ==
  ASSUME GateInv, Complete, HasTopStatus', ~SupersededTwin
  PROVE  phase_completion_plan(doc', ledger' # {}).refused = {}
<1> DEFINE t == AfterTicks
           e == doc'
           y == Deferred # {}
           x == ledger' # {}
<1>1. t \in Seq(Line) /\ Shaped(t) /\ e \in Seq(Line) /\ Shaped(e)
  BY Decided, Completed
<1>2. y \in BOOLEAN /\ x \in BOOLEAN
  OBVIOUS
<1>3. y => x
  BY DEF Complete
<1>4. phase_completion_plan(t, y).refused = {} /\ Plan.flip = phase_completion_plan(t, y).flip
  BY DEF Complete, Plan
<1> SUFFICES ASSUME NEW p \in phase_completion_plan(e, x).refused PROVE FALSE
  OBVIOUS
<1>5. \A q \in PhaseStarts(e) :
        /\ q \in PhaseStarts(t)
        /\ Status(e, q) \in {"Complete", Status(t, q)}
        /\ q \in Plan.flip => Status(e, q) = "Complete"
        /\ Status(t, q) = "Superseded" => Status(e, q) = "Superseded"
        /\ Open(e, q) = Open(t, q) /\ Drops(e, q) = Drops(t, q) /\ Verifs(e, q) = Verifs(t, q)
  BY CompletedPhases
<1> HIDE DEF t, e, x, y
<1>6. /\ p \in PhaseStarts(e) /\ Status(e, p) # "Superseded"
      /\ Owed(e, p, x) > 0 \/ Status(e, p) \notin {"none", "Complete"}
  BY <1>1, <1>2, PlanFacts
<1>7. p \in PhaseStarts(t) /\ Status(t, p) # "Superseded"
  BY <1>5, <1>6
<1>8. ~(Owed(t, p, y) > 0) /\ (Status(t, p) \notin {"none", "Complete"} => p \in Plan.flip)
  BY <1>1, <1>2, <1>4, <1>7, PlanFacts
<1>9. ~(Owed(e, p, x) > 0)
  BY <1>1, <1>2, <1>3, <1>5, <1>6, <1>8, ExemptOwesLess
<1>10. Status(e, p) \in {"none", "Complete"}
  BY <1>5, <1>6, <1>8
<1> QED BY <1>6, <1>9, <1>10

\* What has been completed would pass the gate again: no phase of it is left
\* open and no row of one counts, if the document has a status line to flip and
\* no Superseded phase has the heading of another one.
THEOREM CompletedStaysCoherent == Spec => CoherentWithTopStatus
<1>1. ASSUME GateInv, [Next]_vars, pc' = "completed", HasTopStatus', ~SupersededTwin, ~UNCHANGED vars
      PROVE  Coherent'
  <2>1. Complete
    BY <1>1 DEF Next, Write, Send, Refuse
  <2> QED BY <1>1, <2>1, CoherentCompletes DEF Coherent
<1>2. GateInv /\ [Next]_vars =>
        [pc' = "completed" /\ HasTopStatus' /\ ~SupersededTwin => Coherent']_vars
  BY <1>1
<1> QED BY <1>2, GateAlways, PTL DEF Spec, CoherentWithTopStatus

\* The rows of d that are dropped or under a status line that supersedes them.
Let_go(d) == Scan(EnterRouter, LAMBDA s, l : s.superseded \/ s.descoped \/ l.descoped, d)

LEMMA NothingOwedStep ==
  ASSUME GateInv, Complete, HasTopStatus', ~SupersededTwin,
         ~(structural /\ (DoubleDiscount \/ SupersededInWord))
  PROVE  OpenRows(doc') = ledger' \cup Let_go(doc')
<1> DEFINE t == AfterTicks
           e == doc'
           y == Deferred # {}
<1>1. /\ t \in Seq(Line) /\ Shaped(t) /\ e \in Seq(Line) /\ Shaped(e) /\ Revalued(t, e)
      /\ \A j \in DOMAIN t : t[j].section # "status" => e[j] = t[j]
      /\ OpenRows(e) = OpenRows(t) /\ Dropped(e) = Dropped(t) /\ Checks(e) = Checks(t)
  BY Decided, Completed
<1>2. /\ doc \in Seq(Line) /\ structural \in BOOLEAN /\ (structural => t = doc)
      /\ ~structural => Deferred = {}
      /\ Deferred \subseteq OpenRows(doc)
  BY Decided DEF GateInv
<1>3. ledger' = Deferred
  <2>1. pc = "sent" /\ ledger' = IF Deferred = {} THEN ledger ELSE Deferred
    BY DEF Complete
  <2>2. ledger \in {{}, Deferred}
    BY <2>1 DEF GateInv
  <2> QED BY <2>1, <2>2
<1>4. Deferred \subseteq OpenRows(e)
  <2>1. CASE structural
    <3>1. OpenRows(e) = OpenRows(doc)
      BY <1>1, <1>2, <2>1
    <3> QED BY <1>2, <3>1
  <2>2. CASE ~structural
    BY <1>2, <2>2
  <2> QED BY <2>1, <2>2
<1>5. Let_go(e) \subseteq OpenRows(e)
  BY Zenon DEF Let_go, Scan
<1>6. ASSUME NEW i \in OpenRows(e) PROVE i \in Deferred \cup Let_go(e)
  <2>1. i \in OpenRows(t) /\ i \in DOMAIN e /\ e[i].is = "row" /\ i \in 0 .. Len(e)
    BY <1>1, <1>6 DEF OpenRows, OpenRow
  <2>2. PICK p \in PhaseStarts(e) : i \in LinesOf(e, p)
    BY <1>1, <2>1, RowsHavePhases
  <2>3. /\ p \in PhaseStarts(t) /\ LinesOf(e, p) = LinesOf(t, p)
        /\ Status(t, p) = "Superseded" => Status(e, p) = "Superseded"
    BY CompletedPhases
  <2>4. Plan.refused = {} /\ Plan = phase_completion_plan(t, y) /\ y \in BOOLEAN
    BY DEF Complete, Plan
  <2>5. CASE Status(t, p) = "Superseded"
    <3>1. Status(e, p) = "Superseded"
      BY <2>3, <2>5
    <3>2. RouterAt(e, i).superseded
      BY <1>1, <2>2, <3>1, SupersededScope
    <3> QED BY <1>6, <3>2, Zenon DEF Let_go, Scan, RouterAt
  <2>6. CASE i \in Dropped(e)
    <3>1. e[i].descoped \/ ParseAt(e, i).descoped
      BY <2>6 DEF Dropped
    <3>2. e[i].descoped \/ RouterAt(e, i).descoped
      BY <1>1, <2>1, <3>1, ScannersAgree, Zenon DEF Agree
    <3> QED BY <1>6, <3>2, Zenon DEF Let_go, Scan, RouterAt
  <2>7. CASE Status(t, p) # "Superseded" /\ i \notin Dropped(e)
    <3>1. ~(Owed(t, p, y) > 0)
      <4> HIDE DEF t, y
      <4> QED BY <1>1, <2>3, <2>4, <2>7, PlanFacts
    <3>2. i \in Open(t, p) /\ i \notin Drops(t, p)
      BY <1>1, <2>1, <2>2, <2>3, <2>7 DEF Open, Drops
    <3>3. y => structural
      BY <1>2
    <3>4. y => t = doc /\ ~DoubleDiscount /\ ~SupersededInWord
      <4>1. structural => ~DoubleDiscount /\ ~SupersededInWord
        OBVIOUS
      <4> HIDE DEF t, y
      <4> QED BY <1>2, <3>3, <4>1, Zenon
    <3>5. y => Dropped(t) \cap Checks(t) = {}
      <4>1. ~DoubleDiscount => Dropped(doc) \cap Checks(doc) = {}
        BY Zenon DEF DoubleDiscount, Scan, Dropped, Checks, ParseAt
      <4> QED BY <3>4, <4>1
    <3>6. Open(t, p) = Drops(t, p) \/ (y /\ Open(t, p) = Drops(t, p) \cup Verifs(t, p))
      <4> HIDE DEF t, y
      <4> QED BY <1>1, <2>3, <2>4, <3>1, <3>5, NoneOwed
    <3>7. y /\ i \in Checks(t)
      BY <3>2, <3>6 DEF Verifs
    <3>8. t = doc /\ ~SupersededInWord /\ i \in OpenRows(doc) /\ structural
      BY <2>1, <3>3, <3>4, <3>7
    <3>9. doc[i].verification \/ ParseAt(doc, i).verification
      BY <3>7, <3>8 DEF Checks
    <3>10. i \in 0 .. Len(doc)
      BY <1>2, <3>8 DEF OpenRows
    <3>11. ~RouterAt(doc, i).superseded
      <4>1. p \in PhaseStarts(doc) /\ i \in LinesOf(doc, p) \cap OpenRows(doc)
        BY <2>2, <2>3, <3>8
      <4>2. parse_phases(doc)[p].status # "Superseded"
        <5>1. Shaped(doc) /\ Status(doc, p) # "Superseded"
          BY <1>1, <2>7, <3>8
        <5>2. parse_phases(doc)[p].status = Status(doc, p)
          BY <1>2, <4>1, <5>1, PhaseRecord
        <5> QED BY <5>1, <5>2
      <4> QED BY <3>8, <4>1, <4>2, Zenon DEF SupersededInWord, RouterAt
    <3>12. /\ ~LedgerAt(doc, i).superseded
           /\ doc[i].verification \/ LedgerAt(doc, i).verification
      <4>1. Agree(RouterAt(doc, i), AutotickAt(doc, i), LedgerAt(doc, i), ParseAt(doc, i),
                  CoverAt(doc, i))
        BY <1>2, <3>10, ScannersAgree
      <4> QED BY <3>9, <3>11, <4>1, Zenon DEF Agree
    <3>13. i \in enumerate_deferred_verification_rows(doc)
      BY <3>8, <3>12, Zenon DEF enumerate_deferred_verification_rows, Scan, MarkedRow, LedgerAt
    <3> QED BY <3>8, <3>13 DEF Deferred
  <2> QED BY <2>5, <2>6, <2>7
<1> QED BY <1>3, <1>4, <1>5, <1>6

\* A completed document owes nothing: every row still open is dropped, under a
\* Superseded status, or in RUNTIME_GATES.md.
THEOREM CompletedOwesNothing == Spec => NothingOwed
<1>1. ASSUME GateInv, [Next]_vars, pc' = "completed", HasTopStatus', ~SupersededTwin,
             ~(structural /\ (DoubleDiscount \/ SupersededInWord)), ~UNCHANGED vars
      PROVE  OpenRows(doc') = ledger' \cup Let_go(doc')
  <2>1. Complete
    BY <1>1 DEF Next, Write, Send, Refuse
  <2> QED BY <1>1, <2>1, NothingOwedStep
<1>2. GateInv /\ [Next]_vars =>
        [pc' = "completed" /\ HasTopStatus' /\ ~SupersededTwin
           /\ ~(structural /\ (DoubleDiscount \/ SupersededInWord)) =>
           OpenRows(doc') = ledger' \cup Let_go(doc')]_vars
  BY <1>1
<1> QED BY <1>2, GateAlways, PTL DEF Spec, NothingOwed, Let_go

-----------------------------------------------------------------------------
(* What is refused. *)

\* What the router's cover collects of a document, and of that what is left to
\* another host and what lacks the marker.
Collected(d, i) ==
  /\ Spaced(d[i])
  /\ ~CoverAt(d, i).superseded /\ ~CoverAt(d, i).descoped /\ ~d[i].descoped
  /\ (d[i].verification \/ CoverAt(d, i).verification) \/ CoverAt(d, i).shim

LEMMA CoverSets ==
  ASSUME NEW d
  PROVE  /\ collect_uncovered(d).rows = {i \in OpenRows(d) : Collected(d, i)}
         /\ collect_uncovered(d).host
              = {i \in OpenRows(d) : Collected(d, i) /\ (CoverAt(d, i).host \/ d[i].host)}
         /\ collect_uncovered(d).shim
              = {i \in OpenRows(d) : /\ Collected(d, i)
                                     /\ ~(d[i].verification \/ CoverAt(d, i).verification)}
<1>1. collect_uncovered(d).rows = {i \in OpenRows(d) : Collected(d, i)}
  BY Zenon DEF collect_uncovered, Scan, Collects, CanonicalRow, Collected, CoverAt
<1>2. collect_uncovered(d).host
        = {i \in OpenRows(d) : Collected(d, i) /\ (CoverAt(d, i).host \/ d[i].host)}
  BY Zenon DEF collect_uncovered, Scan, Collects, CanonicalRow, Collected, CoverAt
<1>3. collect_uncovered(d).shim
        = {i \in OpenRows(d) : /\ Collected(d, i)
                               /\ ~(d[i].verification \/ CoverAt(d, i).verification)}
  BY Zenon DEF collect_uncovered, Scan, Collects, CanonicalRow, Collected, CoverAt
<1> QED BY <1>1, <1>2, <1>3

\* The rows the router sent that are neither superseded nor dropped are checks,
\* which the cover collects when it takes the box for one.
LEMMA SentIsCollected ==
  ASSUME GateInv, pc = "sent", NEW i \in OpenRows(doc), ~RouterAt(doc, i).superseded,
         ~doc[i].descoped, ~RouterAt(doc, i).descoped, Spaced(doc[i])
  PROVE  Collected(doc, i)
<1>1. doc \in Seq(Line) /\ i \in 0 .. Len(doc)
  BY DEF GateInv, OpenRows
<1>2. Agree(RouterAt(doc, i), AutotickAt(doc, i), LedgerAt(doc, i), ParseAt(doc, i), CoverAt(doc, i))
  BY <1>1, ScannersAgree
<1>3. doc[i].verification \/ RouterAt(doc, i).verification \/ RouterAt(doc, i).shim
  BY SentRows, Zenon
<1> QED BY <1>2, <1>3, Zenon DEF Agree, Collected

\* A phase refuses: it has no row and an open status, or one of its rows is owed.
LEMMA WhyRefused ==
  ASSUME NEW d \in Seq(Line), Shaped(d), NEW exempt \in BOOLEAN,
         NEW p \in phase_completion_plan(d, exempt).refused
  PROVE  /\ p \in PhaseStarts(d) /\ Status(d, p) # "Superseded"
         /\ \/ /\ Status(d, p) \notin {"none", "Complete", "Superseded"}
               /\ LinesOf(d, p) \cap (OpenRows(d) \cup DoneRows(d)) = {}
            \/ \E i \in Open(d, p) : i \notin Dropped(d) /\ (exempt => i \notin Checks(d))
<1>1. /\ p \in PhaseStarts(d) /\ Status(d, p) # "Superseded"
      /\ \/ Owed(d, p, exempt) > 0
         \/ /\ Status(d, p) \notin {"none", "Complete"}
            /\ p \notin phase_completion_plan(d, exempt).flip
  BY PlanFacts
<1>2. CASE Owed(d, p, exempt) > 0
  BY <1>1, <1>2, SomeOwed
<1>3. CASE ~(Owed(d, p, exempt) > 0)
  <2> DEFINE D == DoneRows(d) \cap LinesOf(d, p)
  <2>1. Owed(d, p, exempt) = 0
    BY <1>1, <1>3, OwedCounts
  <2>2. ~(Cardinality(D) + Cardinality(Open(d, p)) > 0)
    BY <1>1, <1>3, <2>1, PlanFacts
  <2>3. /\ IsFiniteSet(D) /\ Cardinality(D) \in Nat
        /\ IsFiniteSet(Open(d, p)) /\ Cardinality(Open(d, p)) \in Nat
    BY <1>1, Counting, RowsAreFinite, FS_Intersection, FS_CardinalityType
  <2>4. Cardinality(D) = 0 /\ Cardinality(Open(d, p)) = 0
    <3> HIDE DEF D
    <3> QED BY <2>2, <2>3
  <2>5. D = {} /\ Open(d, p) = {}
    <3> HIDE DEF D
    <3> QED BY <2>3, <2>4, FS_EmptySet
  <2>6. LinesOf(d, p) \cap (OpenRows(d) \cup DoneRows(d)) = {}
    BY <2>5 DEF Open
  <2> QED BY <1>1, <1>3, <2>6
<1> QED BY <1>2, <1>3

\* An owed row under a structural skip: it lacks the marker, for the ledger has
\* every row that does not.
LEMMA OwedUnderSkip ==
  ASSUME GateInv, pc = "sent", structural, NEW i \in OpenRows(doc), Collected(doc, i),
         ~RouterAt(doc, i).superseded, Deferred # {} => i \notin Checks(doc)
  PROVE  collect_uncovered(doc).shim # {}
<1>1. doc \in Seq(Line) /\ i \in 0 .. Len(doc)
  BY DEF GateInv, OpenRows
<1>2. Agree(RouterAt(doc, i), AutotickAt(doc, i), LedgerAt(doc, i), ParseAt(doc, i), CoverAt(doc, i))
  BY <1>1, ScannersAgree
<1>3. CASE ~(doc[i].verification \/ CoverAt(doc, i).verification)
  BY <1>3, CoverSets
<1>4. CASE doc[i].verification \/ CoverAt(doc, i).verification
  <2>1. /\ ~LedgerAt(doc, i).superseded
        /\ doc[i].verification \/ LedgerAt(doc, i).verification
        /\ doc[i].verification \/ ParseAt(doc, i).verification
    BY <1>2, <1>4, Zenon DEF Agree
  <2>2. i \in enumerate_deferred_verification_rows(doc)
    BY <2>1, Zenon DEF enumerate_deferred_verification_rows, Scan, MarkedRow, LedgerAt
  <2>3. Deferred # {}
    BY <2>2 DEF Deferred
  <2>4. i \in Checks(doc)
    BY <2>1 DEF Checks
  <2> QED BY <2>3, <2>4
<1> QED BY <1>3, <1>4

\* An owed row that tests were to verify: another host has it, or the tick was
\* all or nothing and counted rows that the cover does not.
LEMMA OwedAfterTicks ==
  ASSUME GateInv, pc = "sent", ~structural, NEW i \in OpenRows(doc) \ Ticks, Collected(doc, i),
         ~RouterAt(doc, i).superseded
  PROVE  \/ i \in collect_uncovered(doc).host
         \/ /\ AfterTicks = doc
            /\ HostRow \/ DroppedCheck
<1> DEFINE rows == collect_uncovered(doc).rows
           shim == collect_uncovered(doc).shim
           host == collect_uncovered(doc).host
           canonical == rows \ shim
<1>1. /\ doc \in Seq(Line) /\ i \in 0 .. Len(doc) /\ passed \in Nat
      /\ ~uncovered_verification_rows_remain(doc, passed)
  BY DEF GateInv, OpenRows, Covered
<1>2. (IF Cardinality(canonical) <= passed THEN shim ELSE rows) \ host = {}
  BY <1>1, Zenon DEF uncovered_verification_rows_remain
<1>3. Agree(RouterAt(doc, i), AutotickAt(doc, i), LedgerAt(doc, i), ParseAt(doc, i), CoverAt(doc, i))
  BY <1>1, ScannersAgree
<1>4. /\ rows = {j \in OpenRows(doc) : Collected(doc, j)}
      /\ shim = {j \in OpenRows(doc) : /\ Collected(doc, j)
                                       /\ ~(doc[j].verification \/ CoverAt(doc, j).verification)}
  BY CoverSets
<1>5. i \in rows
  BY <1>4
<1>6. CASE i \notin host
  <2>1. Cardinality(canonical) <= passed /\ shim \ host = {}
    BY <1>2, <1>5, <1>6
  <2>2. i \notin shim
    BY <1>6, <2>1
  <2>3. doc[i].verification \/ CoverAt(doc, i).verification
    BY <1>4, <2>2
  <2>4. /\ ~AutotickAt(doc, i).superseded
        /\ doc[i].verification \/ AutotickAt(doc, i).verification
    BY <1>3, <2>3, Zenon DEF Agree
  <2>5. i \in Tickable(doc)
    <3>1. Spaced(doc[i])
      BY DEF Collected
    <3> QED BY <1>1, <2>4, <3>1, Tickables
  <2>6. Cardinality(Tickable(doc)) > passed
    BY <2>5 DEF Ticks
  <2>7. AfterTicks = doc
    BY <2>6 DEF AfterTicks, autotick_verification_rows
  <2>8. IsFiniteSet(canonical) /\ Cardinality(canonical) \in Nat
    <3>1. IsFiniteSet(OpenRows(doc)) /\ canonical \in SUBSET OpenRows(doc)
      BY <1>1, <1>4, RowsAreFinite
    <3> HIDE DEF canonical
    <3> QED BY <3>1, FS_Subset, FS_CardinalityType
  <2>9. ~(Tickable(doc) \subseteq canonical)
    <3> HIDE DEF canonical
    <3>1. SUFFICES ASSUME Tickable(doc) \in SUBSET canonical PROVE FALSE
      OBVIOUS
    <3>2. Cardinality(Tickable(doc)) <= Cardinality(canonical)
      BY <2>8, <3>1, FS_Subset
    <3>3. Cardinality(Tickable(doc)) \in Nat
      BY <1>1, Tickables
    <3> QED BY <1>1, <2>1, <2>6, <2>8, <3>2, <3>3
  <2>10. PICK j \in Tickable(doc) : j \notin rows \/ j \in shim
    BY <2>9
  <2>11. j \in shim => HostRow
    BY <2>1 DEF HostRow
  <2>12. j \notin rows => DroppedCheck
    BY DEF DroppedCheck
  <2> QED BY <2>7, <2>10, <2>11, <2>12
<1> QED BY <1>6

\* The gaps of a document, by what is read of it.
Gaps(d, s) ==
  \/ \E p \in PhaseStarts(d) : /\ LinesOf(d, p) \cap (OpenRows(d) \cup DoneRows(d)) = {}
                               /\ Status(d, p) \notin {"none", "Complete", "Superseded"}
  \/ collect_uncovered(d).host # {}
  \/ \E i \in Tickable(d) : i \notin collect_uncovered(d).rows
  \/ s /\ collect_uncovered(d).shim # {}
  \/ \E p \in PhaseStarts(d) : \E i \in LinesOf(d, p) \cap OpenRows(d) :
       RouterAt(d, i).superseded /\ Status(d, p) # "Superseded"
  \/ \E i \in OpenRows(d) :
       /\ ~Spaced(d[i])
       /\ d[i].verification \/ RouterAt(d, i).verification \/ RouterAt(d, i).shim

LEMMA RefusedByGap ==
  ASSUME GateInv, pc = "sent", Plan.refused # {}
  PROVE  Gaps(AfterTicks, structural)
<1> DEFINE t == AfterTicks
           y == Deferred # {}
<1>1. /\ pc = "sent" /\ Plan.refused # {} /\ Plan = phase_completion_plan(t, y) /\ y \in BOOLEAN
  BY DEF Plan
<1>2. /\ t \in Seq(Line) /\ Shaped(t) /\ Revalued(doc, t) /\ (structural => t = doc)
      /\ PhaseStarts(t) = PhaseStarts(doc)
  BY Decided
<1>3. /\ doc \in Seq(Line) /\ structural \in BOOLEAN
  BY DEF GateInv
<1>4. /\ \A j \in DOMAIN doc \ Ticks : t[j] = doc[j]
      /\ OpenRows(t) = OpenRows(doc) \ Ticks
      /\ \A j \in 1 .. Len(doc) : Alike(doc[j], t[j])
  BY <1>3, TickFacts
<1>5. Len(t) = Len(doc)
  BY <1>2 DEF Revalued
<1>6. \A j \in 0 .. Len(doc) : RouterAt(t, j) = RouterAt(doc, j) /\ CoverAt(t, j) = CoverAt(doc, j)
  <2> HIDE DEF t
  <2> QED BY <1>2, <1>3, <1>4, <1>5, TicksKeepScopes
<1>7. PICK p \in phase_completion_plan(t, y).refused : TRUE
  BY <1>1
<1>8. /\ p \in PhaseStarts(t) /\ Status(t, p) # "Superseded"
      /\ \/ /\ Status(t, p) \notin {"none", "Complete", "Superseded"}
            /\ LinesOf(t, p) \cap (OpenRows(t) \cup DoneRows(t)) = {}
         \/ \E i \in Open(t, p) : i \notin Dropped(t) /\ (y => i \notin Checks(t))
  <2> HIDE DEF t, y
  <2> QED BY <1>1, <1>2, WhyRefused
<1>9. CASE Status(t, p) \notin {"none", "Complete", "Superseded"}
           /\ LinesOf(t, p) \cap (OpenRows(t) \cup DoneRows(t)) = {}
  BY <1>8, <1>9 DEF Gaps
<1>10. ASSUME NEW i \in Open(t, p), i \notin Dropped(t), y => i \notin Checks(t)
       PROVE  Gaps(t, structural)
  <2>1. i \in OpenRows(t) /\ i \in LinesOf(t, p) /\ i \in OpenRows(doc) \ Ticks
    BY <1>4 DEF Open
  <2>2. i \in DOMAIN doc /\ i \in 0 .. Len(doc) /\ t[i] = doc[i]
    BY <1>3, <1>4, <2>1 DEF OpenRows
  <2>3. CASE RouterAt(t, i).superseded
    BY <1>8, <2>1, <2>3, Zenon DEF Gaps
  <2>4. CASE ~RouterAt(t, i).superseded /\ ~Spaced(t[i])
    <3>1. ~t[i].descoped /\ ~ParseAt(t, i).descoped
      BY <1>10, <2>1 DEF Dropped
    <3>2. Agree(RouterAt(t, i), AutotickAt(t, i), LedgerAt(t, i), ParseAt(t, i), CoverAt(t, i))
      <4> HIDE DEF t
      <4> QED BY <1>2, <1>5, <2>2, ScannersAgree
    <3>3. ~RouterAt(t, i).descoped
      BY <3>1, <3>2, Zenon DEF Agree
    <3>4. ~RouterAt(doc, i).superseded /\ ~doc[i].descoped /\ ~RouterAt(doc, i).descoped
      BY <1>6, <2>2, <2>4, <3>1, <3>3
    <3>5. doc[i].verification \/ RouterAt(doc, i).verification \/ RouterAt(doc, i).shim
      BY <1>1, <2>1, <3>4, SentRows, Zenon
    <3>6. t[i].verification \/ RouterAt(t, i).verification \/ RouterAt(t, i).shim
      BY <1>6, <2>2, <3>5
    <3> HIDE DEF t
    <3> QED BY <2>1, <2>4, <3>6, Zenon DEF Gaps
  <2>5. CASE ~RouterAt(t, i).superseded /\ Spaced(t[i])
    <3>1. ~t[i].descoped /\ ~ParseAt(t, i).descoped
      BY <1>10, <2>1 DEF Dropped
    <3>2. Agree(RouterAt(t, i), AutotickAt(t, i), LedgerAt(t, i), ParseAt(t, i), CoverAt(t, i))
      <4> HIDE DEF t
      <4> QED BY <1>2, <1>5, <2>2, ScannersAgree
    <3>3. ~RouterAt(t, i).descoped
      BY <3>1, <3>2, Zenon DEF Agree
    <3>4. ~RouterAt(doc, i).superseded /\ ~doc[i].descoped /\ ~RouterAt(doc, i).descoped
      BY <1>6, <2>2, <2>5, <3>1, <3>3
    <3>5. Collected(doc, i)
      BY <1>1, <2>1, <2>2, <2>5, <3>4, SentIsCollected
    <3>6. CASE structural
      <4>1. t = doc
        BY <1>2, <3>6
      <4>2. y => i \notin Checks(doc)
        BY <1>10, <4>1
      <4>3. collect_uncovered(doc).shim # {}
        BY <1>1, <2>1, <3>4, <3>5, <3>6, <4>2, OwedUnderSkip
      <4> HIDE DEF t
      <4> QED BY <3>6, <4>1, <4>3 DEF Gaps
    <3>7. CASE ~structural
      <4>1. \/ i \in collect_uncovered(doc).host
            \/ t = doc /\ (HostRow \/ DroppedCheck)
        BY <1>1, <2>1, <3>4, <3>5, <3>7, OwedAfterTicks
      <4>2. CASE i \in collect_uncovered(doc).host
        <5>1. CoverAt(t, i) = CoverAt(doc, i)
          BY <1>6, <2>2
        <5>2. CoverAt(doc, i).host \/ doc[i].host
          BY <4>2, CoverSets
        <5>3. Collected(t, i) /\ (CoverAt(t, i).host \/ t[i].host)
          BY <2>2, <3>5, <5>1, <5>2, Zenon DEF Collected
        <5>4. i \in collect_uncovered(t).host
          <6> HIDE DEF t
          <6> QED BY <2>1, <5>3, CoverSets
        <5> QED BY <5>4, Zenon DEF Gaps
      <4>3. CASE t = doc /\ (HostRow \/ DroppedCheck)
        <5> HIDE DEF t
        <5> QED BY <4>3 DEF Gaps, HostRow, DroppedCheck
      <4> QED BY <4>1, <4>2, <4>3
    <3> QED BY <3>6, <3>7
  <2> QED BY <2>3, <2>4, <2>5
<1> QED BY <1>8, <1>9, <1>10

\* The gate accepts what the router sends it, but for the documents named: else
\* the next probe would send the same document and the pipeline turn on the spot.
THEOREM SentIsAccepted == Spec => []RouterAgreesWithGate
<1>1. Init => RouterAgreesWithGate
  BY DEF Init, RouterAgreesWithGate
<1>2. GateInv /\ RouterAgreesWithGate /\ [Next]_vars => RouterAgreesWithGate'
  <2> SUFFICES ASSUME GateInv, RouterAgreesWithGate, [Next]_vars PROVE RouterAgreesWithGate'
    OBVIOUS
  <2>1. CASE Refuse
    <3>1. doc' = AfterTicks /\ structural' = structural
      BY <2>1 DEF Refuse
    <3>2. Gaps(doc', structural')
      BY <2>1, <3>1, RefusedByGap DEF Refuse
    <3>3. doc' \in Seq(Line) /\ Shaped(doc')
      BY <3>1, Decided
    <3>4. \A p \in PhaseStarts(doc') : parse_phases(doc')[p].status = Status(doc', p)
      BY <3>3, PhaseRecord
    <3>5. \/ EmptyOpenPhase' \/ HostRow' \/ DroppedCheck' \/ UnmarkedCheck' \/ SupersededInWord'
             \/ TightCheck'
      BY <3>2, <3>4, Zenon
         DEF Gaps, EmptyOpenPhase, HostRow, DroppedCheck, UnmarkedCheck, SupersededInWord,
             TightCheck, Scan, RouterAt
    <3> QED BY <3>5 DEF RouterAgreesWithGate
  <2>2. CASE UNCHANGED vars
    <3>1. doc' = doc /\ structural' = structural /\ pc' = pc
      BY <2>2 DEF vars
    <3>2. TightCheck' = TightCheck
      BY <3>1, Zenon DEF TightCheck, Scan
    <3>3. /\ EmptyOpenPhase' = EmptyOpenPhase /\ HostRow' = HostRow
          /\ DroppedCheck' = DroppedCheck /\ UnmarkedCheck' = UnmarkedCheck
          /\ SupersededInWord' = SupersededInWord
      BY <3>1 DEF EmptyOpenPhase, HostRow, DroppedCheck, UnmarkedCheck, SupersededInWord
    <3> QED BY <3>1, <3>2, <3>3 DEF RouterAgreesWithGate
  <2>3. ASSUME (\E l \in Lines : Write(l)) \/ Send \/ Complete PROVE pc' # "refused"
    BY <2>3 DEF Write, Send, Complete
  <2>4. pc' # "refused" => RouterAgreesWithGate'
    BY DEF RouterAgreesWithGate
  <2> QED BY <2>1, <2>2, <2>3, <2>4 DEF Next
<1> QED BY <1>1, <1>2, GateAlways, PTL DEF Spec

-----------------------------------------------------------------------------
(* What stays of a completed document, whatever is written to it later. *)

\* Nothing of d is owed: a phase is Superseded, or each open row of it is dropped
\* or, if there is a ledger, for verification.
Closed(d, listed) ==
  \A p \in PhaseStarts(d) :
    \/ Status(d, p) = "Superseded"
    \/ Open(d, p) \subseteq Dropped(d) \cup (IF listed THEN Checks(d) ELSE {})

\* No two phases have the same heading.
Distinct(d) == \A p, q \in PhaseStarts(d) : d[p] = d[q] => p = q

\* What the gate rewrites is the line it means: it finds a phase by its heading,
\* and takes the first status line for the document's own, which a Superseded
\* phase's is not.
OwnLines(d) ==
  /\ Distinct(d)
  /\ \A p \in PhaseStarts(d) : p + 1 \in TopStatus(d) => d[p + 1].value # "Superseded"

\* No row is dropped and for verification as well.
NoDouble(d) == Dropped(d) \cap Checks(d) = {}

\* What a phase or a document ends as.
Final == {"Complete", "Fixed"}

\* A flip of the lines S to v.
Flipped(d, S, v) ==
  [i \in DOMAIN d |-> IF i \in S THEN [d[i] EXCEPT !.value = v] ELSE d[i]]

\* e is d after a flip of status lines.
IsFlip(d, S, v, e) ==
  /\ S \in SUBSET DOMAIN d /\ \A i \in S : d[i].section = "status"
  /\ v \in Final /\ e = Flipped(d, S, v)

LEMMA StatusFlips ==
  ASSUME NEW d \in Seq(Line), NEW S, NEW v, NEW e, IsFlip(d, S, v, e)
  PROVE  /\ e \in Seq(Line) /\ Revalued(d, e)
         /\ \A i \in S : e[i].value = v
         /\ \A i \in DOMAIN d : i \notin S => e[i].value = d[i].value
         /\ \A j \in DOMAIN d : d[j].is = "row" => e[j] = d[j]
<1>0. /\ S \in SUBSET DOMAIN d /\ \A i \in S : d[i].section = "status"
      /\ v \in Final /\ e = Flipped(d, S, v)
  BY DEF IsFlip
<1>1. DOMAIN d = 1 .. Len(d) /\ Len(d) \in Nat /\ \A i \in DOMAIN d : d[i] \in Line
  OBVIOUS
<1>2. /\ DOMAIN e = DOMAIN d /\ e = [i \in DOMAIN d |-> e[i]]
      /\ \A i \in DOMAIN d : e[i] = IF i \in S THEN [d[i] EXCEPT !.value = v] ELSE d[i]
  BY <1>0, Zenon DEF Flipped
<1>3. ASSUME NEW i \in DOMAIN d
      PROVE  /\ e[i] \in Line /\ SameButValue(d[i], e[i])
             /\ e[i].value = IF i \in S THEN v ELSE d[i].value
  <2>1. CASE i \in S
    <3>1. e[i] = [d[i] EXCEPT !.value = v] /\ v \in Text
      BY <1>0, <1>2, <2>1 DEF Final, Text
    <3>2. e[i] \in Line /\ SameButValue(d[i], e[i]) /\ e[i].value = v
      BY <1>0, <1>1, <2>1, <3>1, OtherValue
    <3> QED BY <2>1, <3>2
  <2>2. CASE i \notin S
    BY <1>2, <1>1, <2>2 DEF SameButValue
  <2> QED BY <2>1, <2>2
<1>4. e \in Seq(Line) /\ Len(e) = Len(d)
  <2>1. DOMAIN e = 1 .. Len(d) /\ e = [i \in 1 .. Len(d) |-> e[i]]
    BY <1>2, <1>1
  <2>2. e \in [1 .. Len(d) -> Line]
    BY <1>1, <1>3, <2>1
  <2> QED BY <1>1, <2>2
<1>5. Revalued(d, e)
  BY <1>1, <1>3, <1>4 DEF Revalued
<1>6. ASSUME NEW j \in DOMAIN d, d[j].is = "row" PROVE e[j] = d[j]
  <2>1. j \notin S
    BY <1>0, <1>1, <1>6 DEF Line
  <2> QED BY <1>2, <2>1, Zenon
<1> QED BY <1>0, <1>3, <1>4, <1>5, <1>6

\* It moves no phase and no row; only the statuses below the lines change.
LEMMA FlipsKeep ==
  ASSUME NEW d \in Seq(Line), Shaped(d), NEW S, NEW v, NEW e, IsFlip(d, S, v, e)
  PROVE  /\ e \in Seq(Line) /\ Shaped(e) /\ Len(e) = Len(d)
         /\ PhaseStarts(e) = PhaseStarts(d) /\ Dropped(e) = Dropped(d) /\ Checks(e) = Checks(d)
         /\ \A p : Open(e, p) = Open(d, p)
         /\ \A p \in PhaseStarts(d) :
              Status(e, p) = IF StatusBelow(d, p) /\ p + 1 \in S THEN v ELSE Status(d, p)
         /\ OwnLines(d) => OwnLines(e)
<1>1. /\ e \in Seq(Line) /\ Revalued(d, e)
      /\ \A i \in S : e[i].value = v
      /\ \A i \in DOMAIN d : i \notin S => e[i].value = d[i].value
      /\ \A j \in DOMAIN d : d[j].is = "row" => e[j] = d[j]
  BY StatusFlips
<1>2. /\ PhaseStarts(e) = PhaseStarts(d) /\ \A p : LinesOf(e, p) = LinesOf(d, p)
      /\ \A p : StatusBelow(e, p) <=> StatusBelow(d, p)
      /\ TopStatus(e) = TopStatus(d) /\ Shaped(e)
  BY <1>1, ValuesKeepPhases
<1>3. OpenRows(e) = OpenRows(d) /\ Dropped(e) = Dropped(d) /\ Checks(e) = Checks(d)
  BY <1>1, ValuesKeepRows
<1>4. \A p : Open(e, p) = Open(d, p)
  BY <1>2, <1>3 DEF Open
<1>5. \A p \in PhaseStarts(d) :
        Status(e, p) = IF StatusBelow(d, p) /\ p + 1 \in S THEN v ELSE Status(d, p)
  BY <1>1, <1>2 DEF Status, StatusBelow
<1>6. ASSUME OwnLines(d) PROVE OwnLines(e)
  <2>1. ASSUME NEW p \in PhaseStarts(e), p + 1 \in TopStatus(e) PROVE e[p + 1].value # "Superseded"
    <3>1. d[p + 1].value # "Superseded" /\ p + 1 \in DOMAIN d
      BY <1>2, <1>6, <2>1 DEF OwnLines, TopStatus
    <3>2. v # "Superseded" /\ S \subseteq DOMAIN d
      BY DEF IsFlip, Final
    <3> QED BY <1>1, <3>1, <3>2
  <2>2. \A p \in PhaseStarts(d) : e[p] = d[p]
    <3>1. \A p \in PhaseStarts(d) : p \in DOMAIN d /\ p \notin S
      <4>1. \A p \in PhaseStarts(d) : p \in DOMAIN d /\ d[p].section # "status"
        BY DEF PhaseStarts, Line
      <4> QED BY <4>1 DEF IsFlip
    <3> QED BY <3>1 DEF IsFlip, Flipped
  <2>3. Distinct(e)
    BY <1>2, <1>6, <2>2 DEF OwnLines, Distinct
  <2> QED BY <2>1, <2>3 DEF OwnLines
<1> QED BY <1>1, <1>2, <1>3, <1>4, <1>5, <1>6 DEF Revalued

\* Both of the gate's are such flips.
LEMMA GateFlips ==
  ASSUME NEW d \in Seq(Line), Shaped(d), Distinct(d)
  PROVE  /\ \A v \in Final : IsFlip(d, TopStatus(d), v, FlipTop(d, v))
         /\ \A flip \in SUBSET PhaseStarts(d) :
              IsFlip(d, {p + 1 : p \in {q \in flip : StatusBelow(d, q)}}, "Complete",
                     FlipPhases(d, flip))
<1>1. ASSUME NEW v \in Final PROVE IsFlip(d, TopStatus(d), v, FlipTop(d, v))
  <2>1. TopStatus(d) \in SUBSET DOMAIN d /\ \A i \in TopStatus(d) : d[i].section = "status"
    BY DEF TopStatus, Names
  <2>2. FlipTop(d, v) = Flipped(d, TopStatus(d), v)
    BY Zenon DEF FlipTop, Flipped
  <2> QED BY <2>1, <2>2 DEF IsFlip
<1>2. ASSUME NEW flip \in SUBSET PhaseStarts(d)
      PROVE  IsFlip(d, {p + 1 : p \in {q \in flip : StatusBelow(d, q)}}, "Complete",
                    FlipPhases(d, flip))
  <2> DEFINE lines == UNION {FirstOf(d, p, "status") : p \in flip}
             S == {p + 1 : p \in {q \in flip : StatusBelow(d, q)}}
  <2>0. Namesakes(d, flip) = flip
    BY DEF Namesakes, Distinct
  <2>1. \A p \in flip : FirstOf(d, p, "status") = IF StatusBelow(d, p) THEN {p + 1} ELSE {}
    BY StatusLine1
  <2>2. lines = S
    BY <2>1
  <2>3. FlipPhases(d, flip) = Flipped(d, lines, "Complete")
    BY <2>0, Zenon DEF FlipPhases, Flipped
  <2>4. S \in SUBSET DOMAIN d /\ \A p \in flip : StatusBelow(d, p) => d[p + 1].section = "status"
    BY DEF StatusBelow
  <2>5. "Complete" \in Final /\ \A i \in S : d[i].section = "status"
    BY <2>4 DEF Final
  <2> HIDE DEF lines
  <2> QED BY <2>2, <2>3, <2>4, <2>5 DEF IsFlip
<1> QED BY <1>1, <1>2

\* What the gate does not refuse it closes.
LEMMA GateCloses ==
  ASSUME NEW d \in Seq(Line), Shaped(d), NEW y \in BOOLEAN, y => NoDouble(d), OwnLines(d),
         phase_completion_plan(d, y).refused = {}
  PROVE  LET e == FlipPhases(d, phase_completion_plan(d, y).flip)
         IN  /\ e \in Seq(Line) /\ Shaped(e) /\ Len(e) = Len(d) /\ Closed(e, y)
             /\ OwnLines(e)
             /\ NoDouble(d) => NoDouble(e)
<1> DEFINE flip == phase_completion_plan(d, y).flip
           S == {p + 1 : p \in {q \in flip : StatusBelow(d, q)}}
           e == FlipPhases(d, flip)
<1>1. \A p : p \in flip => p \in PhaseStarts(d) /\ Status(d, p) \notin {"none", "Complete", "Superseded"}
  BY PlanFacts
<1>2. \A p \in PhaseStarts(d) : Status(d, p) = "Superseded" \/ ~(Owed(d, p, y) > 0)
  BY PlanFacts
<1> HIDE DEF flip
<1>3. flip \in SUBSET PhaseStarts(d)
  BY <1>1
<1>4. IsFlip(d, S, "Complete", e)
  BY <1>3, GateFlips DEF OwnLines
<1>5. \A p \in PhaseStarts(d) : p + 1 \in S => p \in flip
  BY <1>3 DEF PhaseStarts
<1> HIDE DEF S, e
<1>6. /\ e \in Seq(Line) /\ Shaped(e) /\ Len(e) = Len(d)
      /\ PhaseStarts(e) = PhaseStarts(d) /\ Dropped(e) = Dropped(d) /\ Checks(e) = Checks(d)
      /\ \A p : Open(e, p) = Open(d, p)
      /\ \A p \in PhaseStarts(d) :
           Status(e, p) = IF StatusBelow(d, p) /\ p + 1 \in S THEN "Complete" ELSE Status(d, p)
      /\ OwnLines(e)
  BY <1>4, FlipsKeep
<1>7. ASSUME NEW p \in PhaseStarts(e), Status(e, p) # "Superseded"
      PROVE  Open(e, p) \subseteq Dropped(e) \cup (IF y THEN Checks(e) ELSE {})
  <2>1. p \in PhaseStarts(d) /\ Status(d, p) # "Superseded"
    <3>1. CASE p + 1 \in S
      BY <1>1, <1>5, <1>6, <3>1
    <3>2. CASE p + 1 \notin S
      BY <1>6, <1>7, <3>2
    <3> QED BY <1>6, <3>1, <3>2
  <2>2. ~(Owed(d, p, y) > 0)
    BY <1>2, <2>1
  <2>3. Open(d, p) = Drops(d, p) \/ (y /\ Open(d, p) = Drops(d, p) \cup Verifs(d, p))
    BY <2>1, <2>2, NoneOwed DEF NoDouble
  <2> QED BY <1>6, <2>3 DEF Drops, Verifs
<1> QED BY <1>6, <1>7 DEF Closed, NoDouble, e, flip

\* And the flip of the first status line leaves it so.
LEMMA FlipTopKeeps ==
  ASSUME NEW d \in Seq(Line), Shaped(d), OwnLines(d), NEW v \in Final
  PROVE  LET e == FlipTop(d, v)
         IN  /\ e \in Seq(Line) /\ Shaped(e) /\ OwnLines(e) /\ Len(e) = Len(d)
             /\ \A y : Closed(d, y) => Closed(e, y)
             /\ NoDouble(d) => NoDouble(e)
<1> DEFINE e == FlipTop(d, v)
           S == TopStatus(d)
<1>1. IsFlip(d, S, v, e)
  BY GateFlips DEF OwnLines
<1> HIDE DEF e, S
<1>2. /\ e \in Seq(Line) /\ Shaped(e) /\ Len(e) = Len(d)
      /\ PhaseStarts(e) = PhaseStarts(d) /\ Dropped(e) = Dropped(d) /\ Checks(e) = Checks(d)
      /\ \A p : Open(e, p) = Open(d, p)
      /\ \A p \in PhaseStarts(d) :
           Status(e, p) = IF StatusBelow(d, p) /\ p + 1 \in S THEN v ELSE Status(d, p)
      /\ OwnLines(e)
  BY <1>1, FlipsKeep
<1>3. ASSUME NEW y, Closed(d, y) PROVE Closed(e, y)
  <2>1. ASSUME NEW p \in PhaseStarts(e), Status(d, p) = "Superseded" PROVE Status(e, p) = "Superseded"
    <3>1. p \in PhaseStarts(d) /\ StatusBelow(d, p) /\ d[p + 1].value = "Superseded"
      BY <1>2, <2>1 DEF Status
    <3>2. p + 1 \notin S
      BY <3>1 DEF OwnLines, S
    <3> QED BY <1>2, <2>1, <3>2
  <2> QED BY <1>2, <1>3, <2>1 DEF Closed
<1> QED BY <1>2, <1>3 DEF NoDouble, e

\* Work on rows: ticked, dropped or marked, never reopened, restored or unmarked;
\* a box that is left open is left as it is.
Worked(x, y) ==
  \/ x = y
  \/ /\ x.is = "row" /\ y.is = "row" /\ x.section = y.section
     /\ OpenRow(y) => OpenRow(x) /\ y.value = x.value
     /\ (x.descoped => y.descoped) /\ (x.verification => y.verification)

\* Work on rows leaves a closed document closed.
LEMMA WorkKeeps ==
  ASSUME NEW d \in Seq(Line), NEW e \in Seq(Line), Len(e) = Len(d),
         \A j \in 1 .. Len(d) : Worked(d[j], e[j])
  PROVE  /\ Shaped(d) => Shaped(e)
         /\ OwnLines(d) => OwnLines(e)
         /\ \A y : Closed(d, y) => Closed(e, y)
         /\ NoDouble(d) /\ (\A j \in OpenRows(e) : e[j] = d[j]
                             \/ (j \notin Checks(d) /\ (e[j].verification <=> d[j].verification)))
              => NoDouble(e)
<1>1. DOMAIN e = DOMAIN d /\ DOMAIN d = 1 .. Len(d)
  OBVIOUS
<1>2. \A j \in DOMAIN d : e[j].is = d[j].is /\ e[j].section = d[j].section
  BY <1>1 DEF Worked
<1>3. PhaseStarts(e) = PhaseStarts(d)
  BY <1>1, <1>2 DEF PhaseStarts
<1>4. \A p : LinesOf(e, p) = LinesOf(d, p)
  BY <1>1, <1>3 DEF LinesOf
<1>5. \A p : StatusBelow(e, p) <=> StatusBelow(d, p)
  BY <1>1, <1>2 DEF StatusBelow
<1>6. Shaped(d) => Shaped(e)
  BY <1>1, <1>2, <1>3 DEF Shaped
<1>7. TopStatus(e) = TopStatus(d)
  <2>1. {i \in DOMAIN e : e[i].is = "bold" /\ Names(e[i], "status")}
          = {i \in DOMAIN d : d[i].is = "bold" /\ Names(d[i], "status")}
    BY <1>1, <1>2 DEF Names
  <2> QED BY <2>1, Zenon DEF TopStatus
<1>8. \A j \in DOMAIN d : d[j].section = "status" => e[j] = d[j]
  <2>1. \A j \in DOMAIN d : d[j] \in Line
    OBVIOUS
  <2>2. \A j \in DOMAIN d : d[j].section = "status" => d[j].is # "row"
    BY <2>1 DEF Line
  <2> QED BY <1>1, <2>2 DEF Worked
<1>9. \A p : Status(e, p) = Status(d, p)
  BY <1>5, <1>8 DEF Status, StatusBelow
<1>10. OwnLines(d) => OwnLines(e)
  <2>1. \A i \in TopStatus(d) : i \in DOMAIN d /\ d[i].section = "status"
    BY DEF TopStatus, Names
  <2>2. \A i \in TopStatus(d) : e[i] = d[i]
    BY <1>8, <2>1
  <2>3. Distinct(d) => Distinct(e)
    <3>1. \A p \in PhaseStarts(d) : p \in DOMAIN d /\ d[p].is # "row"
      BY DEF PhaseStarts
    <3>2. \A p \in PhaseStarts(d) : e[p] = d[p]
      BY <1>1, <3>1 DEF Worked
    <3> QED BY <1>3, <3>2 DEF Distinct
  <2> QED BY <1>3, <1>7, <2>2, <2>3 DEF OwnLines
<1>11. \A j \in DOMAIN d : ParseAt(e, j) = ParseAt(d, j)
  <2>1. \A j \in 1 .. Len(d) : Alike(d[j], e[j])
    BY DEF Worked, Alike
  <2>2. \A j \in DOMAIN d : j \in 0 .. Len(d)
    BY <1>1
  <2> QED BY <2>1, <2>2, TicksKeepScopes
<1>12. /\ OpenRows(e) \subseteq OpenRows(d)
       /\ \A j \in OpenRows(e) : /\ j \in DOMAIN d /\ (d[j].descoped => e[j].descoped)
                                 /\ (d[j].verification => e[j].verification)
  BY <1>1 DEF Worked, OpenRows
<1>13. /\ Dropped(d) \cap OpenRows(e) \subseteq Dropped(e)
       /\ Checks(d) \cap OpenRows(e) \subseteq Checks(e)
  BY <1>11, <1>12 DEF Dropped, Checks
<1>14. ASSUME NEW y, Closed(d, y) PROVE Closed(e, y)
  <2>1. \A p : Open(e, p) \subseteq Open(d, p) /\ Open(e, p) \subseteq OpenRows(e)
    BY <1>4, <1>12 DEF Open
  <2> QED BY <1>3, <1>9, <1>13, <1>14, <2>1 DEF Closed
<1>15. ASSUME NoDouble(d),
              \A j \in OpenRows(e) : e[j] = d[j]
                \/ (j \notin Checks(d) /\ (e[j].verification <=> d[j].verification))
       PROVE  NoDouble(e)
  <2>1. SUFFICES ASSUME NEW j \in Dropped(e), j \in Checks(e) PROVE FALSE
    BY DEF NoDouble
  <2>2. j \in OpenRows(e) /\ j \in OpenRows(d) /\ j \in DOMAIN d
    BY <1>12 DEF Dropped
  <2>3. e[j].verification \/ ParseAt(d, j).verification
    BY <1>11, <2>1, <2>2 DEF Checks
  <2>4. CASE e[j] = d[j]
    <3>1. j \in Dropped(d) /\ j \in Checks(d)
      BY <1>11, <2>1, <2>2, <2>4 DEF Dropped, Checks
    <3> QED BY <1>15, <3>1 DEF NoDouble
  <2>5. CASE j \notin Checks(d) /\ (e[j].verification <=> d[j].verification)
    BY <2>2, <2>3, <2>5 DEF Checks
  <2> QED BY <1>15, <2>2, <2>4, <2>5
<1> QED BY <1>6, <1>10, <1>14, <1>15

\* The open rows of a closed document are let go, or for the ledger.
LEMMA ClosedRows ==
  ASSUME NEW d \in Seq(Line), Shaped(d), NEW y, Closed(d, y), NEW i \in OpenRows(d)
  PROVE  i \in Let_go(d) \/ (y /\ i \in enumerate_deferred_verification_rows(d))
<1>1. i \in DOMAIN d /\ d[i].is = "row" /\ i \in 0 .. Len(d)
  BY DEF OpenRows, OpenRow
<1>2. PICK p \in PhaseStarts(d) : i \in LinesOf(d, p)
  BY <1>1, RowsHavePhases
<1>3. Agree(RouterAt(d, i), AutotickAt(d, i), LedgerAt(d, i), ParseAt(d, i), CoverAt(d, i))
  BY <1>1, ScannersAgree
<1>4. CASE RouterAt(d, i).superseded
  BY <1>4, Zenon DEF Let_go, Scan, RouterAt
<1>5. CASE i \in Dropped(d)
  <2>1. d[i].descoped \/ RouterAt(d, i).descoped
    BY <1>3, <1>5, Zenon DEF Agree, Dropped
  <2> QED BY <2>1, Zenon DEF Let_go, Scan, RouterAt
<1>6. CASE ~RouterAt(d, i).superseded /\ i \notin Dropped(d)
  <2>1. Status(d, p) # "Superseded"
    BY <1>2, <1>6, SupersededScope
  <2>2. y /\ i \in Checks(d)
    BY <1>2, <1>6, <2>1 DEF Closed, Open
  <2>3. d[i].verification \/ ParseAt(d, i).verification
    BY <2>2 DEF Checks
  <2>4. ~LedgerAt(d, i).superseded /\ (d[i].verification \/ LedgerAt(d, i).verification)
    BY <1>3, <1>6, <2>3, Zenon DEF Agree
  <2>5. i \in enumerate_deferred_verification_rows(d)
    BY <2>4, Zenon DEF enumerate_deferred_verification_rows, Scan, MarkedRow, LedgerAt
  <2> QED BY <2>2, <2>5
<1> QED BY <1>4, <1>5, <1>6

-----------------------------------------------------------------------------
(* What stays of a document without gaps, whatever is written to it. *)

\* No gap but those of a skip or of the results: a phase without rows has a
\* terminal status, no row is for another host, what is tickable is collected,
\* what the scanners of lines find superseded is in a Superseded phase, every
\* open box is one to the gate, and headings differ.
NoGap(d) ==
  /\ \A p \in PhaseStarts(d) : LinesOf(d, p) \cap (OpenRows(d) \cup DoneRows(d)) = {} =>
                                 Status(d, p) \in {"none", "Complete", "Superseded"}
  /\ collect_uncovered(d).host = {}
  /\ Tickable(d) \subseteq collect_uncovered(d).rows
  /\ \A p \in PhaseStarts(d) : \A i \in LinesOf(d, p) \cap OpenRows(d) :
       RouterAt(d, i).superseded => Status(d, p) = "Superseded"
  /\ \A i \in OpenRows(d) : Spaced(d[i])
  /\ Distinct(d)

\* Then the gate's only reason is a row that no /mcp-test could mark.
LEMMA OnlyUnmarked ==
  ASSUME NEW d, NEW s, NoGap(d), Gaps(d, s)
  PROVE  s /\ collect_uncovered(d).shim # {}
BY DEF NoGap, Gaps

\* Work that drops no tickable row and marks collected ones only opens no gap.
LEMMA WorkKeepsNoGap ==
  ASSUME NEW d \in Seq(Line), NEW e \in Seq(Line), Len(e) = Len(d), NoGap(d),
         \A j \in 1 .. Len(d) : Worked(d[j], e[j]),
         OpenRows(d) \cup DoneRows(d) \subseteq OpenRows(e) \cup DoneRows(e),
         \A j \in OpenRows(e) :
           \/ e[j] = d[j]
           \/ /\ Collected(d, j) /\ (e[j].host <=> d[j].host) /\ (e[j].descoped <=> d[j].descoped)
              /\ d[j].verification => e[j].verification
           \/ j \notin Tickable(d) /\ e[j].descoped /\ (e[j].verification <=> d[j].verification)
  PROVE  NoGap(e)
<1>1. DOMAIN e = DOMAIN d /\ DOMAIN d = 1 .. Len(d) /\ Len(d) \in Nat
  OBVIOUS
<1>2. \A j \in DOMAIN d : e[j].is = d[j].is /\ e[j].section = d[j].section
  BY <1>1 DEF Worked
<1>3. PhaseStarts(e) = PhaseStarts(d)
  BY <1>1, <1>2 DEF PhaseStarts
<1>4. \A p : LinesOf(e, p) = LinesOf(d, p)
  BY <1>1, <1>3 DEF LinesOf
<1>5. \A p : Status(e, p) = Status(d, p)
  <2>1. \A j \in DOMAIN d : d[j].section = "status" => d[j].is # "row"
    BY <1>1 DEF Line
  <2>2. \A j \in DOMAIN d : d[j].section = "status" => e[j] = d[j]
    BY <1>1, <2>1 DEF Worked
  <2> QED BY <1>1, <1>2, <2>2 DEF Status, StatusBelow
<1>6. \A j \in DOMAIN d : /\ RouterAt(e, j) = RouterAt(d, j) /\ CoverAt(e, j) = CoverAt(d, j)
                          /\ AutotickAt(e, j) = AutotickAt(d, j)
  <2>1. \A j \in 1 .. Len(d) : Alike(d[j], e[j])
    BY DEF Worked, Alike
  <2>2. \A j \in DOMAIN d : j \in 0 .. Len(d)
    BY <1>1
  <2> QED BY <2>1, <2>2, TicksKeepScopes
<1>7. OpenRows(e) \subseteq OpenRows(d) /\ OpenRows(d) \subseteq DOMAIN d
  BY <1>1 DEF Worked, OpenRows
<1>8. \A j \in OpenRows(e) : Spaced(e[j]) /\ Spaced(d[j])
  <2>1. \A j \in OpenRows(e) : j \in OpenRows(d) /\ e[j].value = d[j].value
    BY <1>1, <1>7 DEF Worked, OpenRows
  <2> QED BY <2>1 DEF NoGap, Spaced
<1>9. Distinct(e)
  <2>1. \A p \in PhaseStarts(d) : p \in DOMAIN d /\ d[p].is # "row"
    BY DEF PhaseStarts
  <2>2. \A p \in PhaseStarts(d) : e[p] = d[p]
    BY <1>1, <2>1 DEF Worked
  <2> QED BY <1>3, <2>2 DEF NoGap, Distinct
<1>10. ASSUME NEW j \in OpenRows(e), Collected(e, j) PROVE Collected(d, j) /\ (e[j].host <=> d[j].host)
  <2>1. ~e[j].descoped /\ CoverAt(e, j) = CoverAt(d, j)
    BY <1>6, <1>7, <1>10 DEF Collected
  <2>2. CASE e[j] = d[j]
    BY <1>10, <2>1, <2>2, Zenon DEF Collected
  <2>3. CASE e[j] # d[j]
    BY <2>1, <2>3
  <2> QED BY <2>2, <2>3
<1>11. ASSUME NEW j \in OpenRows(e), Collected(d, j), ~e[j].descoped \/ e[j] = d[j]
      PROVE  Collected(e, j)
  <2>1. CoverAt(e, j) = CoverAt(d, j) /\ ~d[j].descoped
    BY <1>6, <1>7, <1>11 DEF Collected
  <2>2. CASE e[j] = d[j]
    BY <1>11, <2>1, <2>2, Zenon DEF Collected
  <2>3. CASE e[j] # d[j]
    <3>1. ~e[j].descoped /\ (d[j].verification => e[j].verification)
      BY <1>11, <2>3
    <3> QED BY <1>11, <1>8, <2>1, <3>1, Zenon DEF Collected
  <2> QED BY <2>2, <2>3
<1>12. collect_uncovered(e).host = {}
  <2>1. SUFFICES ASSUME NEW j \in collect_uncovered(e).host PROVE FALSE
    OBVIOUS
  <2>2. j \in OpenRows(e) /\ Collected(e, j) /\ (CoverAt(e, j).host \/ e[j].host)
    BY CoverSets
  <2>3. j \in OpenRows(d) /\ Collected(d, j) /\ (CoverAt(d, j).host \/ d[j].host)
    BY <1>6, <1>7, <1>10, <2>2
  <2>4. j \in collect_uncovered(d).host
    BY <2>3, CoverSets
  <2> QED BY <2>4 DEF NoGap
<1>13. Tickable(e) \subseteq collect_uncovered(e).rows
  <2>1. SUFFICES ASSUME NEW j \in Tickable(e) PROVE j \in collect_uncovered(e).rows
    OBVIOUS
  <2>2. /\ j \in OpenRows(e) /\ j \in OpenRows(d) /\ ~AutotickAt(d, j).superseded
        /\ e[j].verification \/ AutotickAt(d, j).verification
    BY <1>6, <1>7, Tickables
  <2>3. (e[j].verification <=> d[j].verification) => j \in Tickable(d)
    BY <1>8, <2>2, Tickables
  <2>4. CASE j \in Tickable(d)
    <3>1. Collected(d, j)
      BY <2>4, CoverSets DEF NoGap
    <3>2. ~e[j].descoped \/ e[j] = d[j]
      BY <2>2, <2>4, <3>1 DEF Collected
    <3>3. Collected(e, j)
      BY <1>11, <2>2, <3>1, <3>2
    <3> QED BY <2>2, <3>3, CoverSets
  <2>5. CASE j \notin Tickable(d)
    <3>1. Collected(d, j) /\ (e[j].descoped <=> d[j].descoped)
      BY <2>2, <2>3, <2>5
    <3>2. Collected(e, j)
      BY <1>11, <2>2, <3>1 DEF Collected
    <3> QED BY <2>2, <3>2, CoverSets
  <2> QED BY <2>4, <2>5
<1>14. ASSUME NEW p \in PhaseStarts(e),
              LinesOf(e, p) \cap (OpenRows(e) \cup DoneRows(e)) = {}
       PROVE  Status(e, p) \in {"none", "Complete", "Superseded"}
  <2>1. LinesOf(d, p) \cap (OpenRows(d) \cup DoneRows(d)) = {}
    BY <1>4, <1>14
  <2> QED BY <1>3, <1>5, <2>1 DEF NoGap
<1>15. ASSUME NEW p \in PhaseStarts(e), NEW i \in LinesOf(e, p) \cap OpenRows(e),
              RouterAt(e, i).superseded
       PROVE  Status(e, p) = "Superseded"
  <2>1. p \in PhaseStarts(d) /\ i \in LinesOf(d, p) \cap OpenRows(d) /\ RouterAt(d, i).superseded
    BY <1>3, <1>4, <1>6, <1>7, <1>15
  <2> QED BY <1>5, <2>1 DEF NoGap
<1> QED BY <1>12, <1>13, <1>14, <1>15, <1>8, <1>9 DEF NoGap

\* Below a phase's header the cover has no section yet.
LEMMA HeaderScope ==
  ASSUME NEW d \in Seq(Line), NEW p \in PhaseStarts(d)
  PROVE  ~CoverAt(d, p).descoped /\ ~CoverAt(d, p).host
<1>1. p \in 1 .. Len(d) /\ p - 1 \in 0 .. Len(d) /\ d[p] \in Line /\ d[p].is \in {"phase", "named"}
  BY DEF PhaseStarts
<1>2. CoverAt(d, p) = EnterCover(CoverAt(d, p - 1), d[p]) /\ CoverAt(d, p - 1) \in Scope
  BY <1>1, CoverScan
<1>3. ~d[p].descoped /\ ~d[p].host
  BY <1>1 DEF Line
<1>4. CASE d[p].is = "phase"
  <2>1. EnterCover(CoverAt(d, p - 1), d[p]) = NoScope
    <3>1. ~Supersedes(d[p]) /\ ~PlainBold(d[p]) /\ d[p].is \notin {"named", "heading"}
      BY <1>4 DEF PlainBold, Supersedes
    <3> QED BY <1>4, <3>1 DEF EnterCover
  <2> QED BY <1>2, <2>1 DEF NoScope
<1>5. CASE d[p].is = "named"
  <2>1. ~Supersedes(d[p]) /\ ~PlainBold(d[p])
    BY <1>5 DEF PlainBold, Supersedes
  <2> QED BY <1>2, <1>3, <1>5, <2>1 DEF EnterCover, Scope
<1> QED BY <1>1, <1>4, <1>5

\* The scopes of a row in two documents that differ in flipped statuses only.
Near(r, a, c, s, b, k) ==
  /\ s.superseded => r.superseded
  /\ b.verification <=> a.verification
  /\ (k.verification <=> c.verification) /\ (k.shim <=> c.shim)
  /\ (k.descoped <=> c.descoped) /\ (k.host <=> c.host)

LEMMA NearStep ==
  ASSUME NEW r \in Scope, NEW a \in Scope, NEW c \in Scope,
         NEW s \in Scope, NEW b \in Scope, NEW k \in Scope, Near(r, a, c, s, b, k),
         NEW x \in Line, NEW y \in Line,
         \/ y = x
         \/ /\ SameButValue(x, y) /\ x.section = "status" /\ y.value = "Complete"
            /\ ~c.descoped /\ ~c.host
  PROVE  Near(EnterRouter(r, x), EnterAutotick(a, x), EnterCover(c, x),
              EnterRouter(s, y), EnterAutotick(b, y), EnterCover(k, y))
<1>1. CASE y = x
  <2> USE <1>1 DEF Scope, Near, NoScope
  <2>1. EnterRouter(s, y).superseded => EnterRouter(r, x).superseded
    BY DEF EnterRouter
  <2>2. EnterAutotick(b, y).verification <=> EnterAutotick(a, x).verification
    BY DEF EnterAutotick
  <2>3. /\ EnterCover(k, y).verification <=> EnterCover(c, x).verification
        /\ EnterCover(k, y).shim <=> EnterCover(c, x).shim
    BY DEF EnterCover
  <2>4. /\ EnterCover(k, y).descoped <=> EnterCover(c, x).descoped
        /\ EnterCover(k, y).host <=> EnterCover(c, x).host
    BY DEF EnterCover
  <2> QED BY <2>1, <2>2, <2>3, <2>4
<1>2. CASE /\ SameButValue(x, y) /\ x.section = "status" /\ y.value = "Complete"
           /\ ~c.descoped /\ ~c.host
  <2>1. /\ x.is = "bold" /\ y.is = "bold" /\ y.section = "status"
        /\ ~x.verification /\ ~x.descoped /\ ~x.host /\ ~y.verification /\ ~y.descoped /\ ~y.host
    BY <1>2 DEF SameButValue, Line
  <2>2. PlainBold(y) /\ ~Supersedes(y) /\ ~Titled(x) /\ ~Titled(y) /\ (Supersedes(x) \/ PlainBold(x))
    <3>1. ~Supersedes(y)
      BY <1>2, Zenon DEF Supersedes
    <3>2. ~Titled(x) /\ ~Titled(y)
      BY <1>2, <2>1 DEF Titled
    <3> QED BY <2>1, <3>1, <3>2 DEF PlainBold
  <2> USE DEF Scope, Near
  <2>3. EnterRouter(s, y).superseded <=> s.superseded
    BY <2>1, <2>2 DEF EnterRouter
  <2>4. r.superseded => EnterRouter(r, x).superseded
    BY <2>1, <2>2 DEF EnterRouter
  <2>5. /\ EnterAutotick(b, y).verification <=> b.verification
        /\ EnterAutotick(a, x).verification <=> a.verification
    BY <2>1, <2>2 DEF EnterAutotick
  <2>6. /\ EnterCover(k, y).verification <=> k.verification
        /\ EnterCover(k, y).shim <=> k.shim
        /\ ~EnterCover(k, y).descoped /\ ~EnterCover(k, y).host
    BY <2>1, <2>2 DEF EnterCover
  <2>7. /\ EnterCover(c, x).verification <=> c.verification
        /\ EnterCover(c, x).shim <=> c.shim
        /\ ~EnterCover(c, x).descoped /\ ~EnterCover(c, x).host
    BY <1>2, <2>1, <2>2 DEF EnterCover
  <2> QED BY <2>3, <2>4, <2>5, <2>6, <2>7
<1> QED BY <1>1, <1>2

\* A flip of statuses below headers supersedes nothing and opens no section.
LEMMA FlipScopes ==
  ASSUME NEW d \in Seq(Line), NEW S, NEW e, IsFlip(d, S, "Complete", e),
         \A i \in S : i - 1 \in PhaseStarts(d), NEW i \in 0 .. Len(d)
  PROVE  Near(RouterAt(d, i), AutotickAt(d, i), CoverAt(d, i),
              RouterAt(e, i), AutotickAt(e, i), CoverAt(e, i))
<1> DEFINE Ok(j) == Near(RouterAt(d, j), AutotickAt(d, j), CoverAt(d, j),
                         RouterAt(e, j), AutotickAt(e, j), CoverAt(e, j))
           T == {j \in 0 .. Len(d) : Ok(j)}
<1>1. e \in Seq(Line) /\ Len(e) = Len(d)
  BY StatusFlips DEF Revalued
<1>2. Ok(0)
  BY <1>1, RouterScan, AutotickScan, CoverScan DEF Near
<1>3. ASSUME NEW j \in 0 .. Len(d) - 1, Ok(j) PROVE Ok(j + 1)
  <2>1. /\ j + 1 \in 1 .. Len(d) /\ (j + 1) - 1 = j /\ j \in 0 .. Len(d)
        /\ d[j + 1] \in Line /\ e[j + 1] \in Line /\ j + 1 \in DOMAIN d
    BY <1>1
  <2>2. /\ RouterAt(d, j + 1) = EnterRouter(RouterAt(d, j), d[j + 1])
        /\ AutotickAt(d, j + 1) = EnterAutotick(AutotickAt(d, j), d[j + 1])
        /\ CoverAt(d, j + 1) = EnterCover(CoverAt(d, j), d[j + 1])
        /\ RouterAt(d, j) \in Scope /\ AutotickAt(d, j) \in Scope /\ CoverAt(d, j) \in Scope
    BY <2>1, RouterScan, AutotickScan, CoverScan
  <2>3. /\ RouterAt(e, j + 1) = EnterRouter(RouterAt(e, j), e[j + 1])
        /\ AutotickAt(e, j + 1) = EnterAutotick(AutotickAt(e, j), e[j + 1])
        /\ CoverAt(e, j + 1) = EnterCover(CoverAt(e, j), e[j + 1])
        /\ RouterAt(e, j) \in Scope /\ AutotickAt(e, j) \in Scope /\ CoverAt(e, j) \in Scope
    BY <1>1, <2>1, RouterScan, AutotickScan, CoverScan
  <2>4. \/ e[j + 1] = d[j + 1]
        \/ /\ SameButValue(d[j + 1], e[j + 1]) /\ d[j + 1].section = "status"
           /\ e[j + 1].value = "Complete" /\ ~CoverAt(d, j).descoped /\ ~CoverAt(d, j).host
    <3>1. CASE j + 1 \in S
      <4>1. SameButValue(d[j + 1], e[j + 1]) /\ e[j + 1].value = "Complete"
        BY <2>1, <3>1, StatusFlips DEF Revalued
      <4>2. d[j + 1].section = "status" /\ j \in PhaseStarts(d)
        BY <2>1, <3>1 DEF IsFlip
      <4> QED BY <4>1, <4>2, HeaderScope
    <3>2. CASE j + 1 \notin S
      BY <2>1, <3>2 DEF IsFlip, Flipped
    <3> QED BY <3>1, <3>2
  <2>5. Near(RouterAt(d, j), AutotickAt(d, j), CoverAt(d, j),
             RouterAt(e, j), AutotickAt(e, j), CoverAt(e, j))
    BY <1>3
  <2>6. Near(EnterRouter(RouterAt(d, j), d[j + 1]), EnterAutotick(AutotickAt(d, j), d[j + 1]),
             EnterCover(CoverAt(d, j), d[j + 1]), EnterRouter(RouterAt(e, j), e[j + 1]),
             EnterAutotick(AutotickAt(e, j), e[j + 1]), EnterCover(CoverAt(e, j), e[j + 1]))
    <3> DEFINE r == RouterAt(d, j)
               a == AutotickAt(d, j)
               c == CoverAt(d, j)
               s == RouterAt(e, j)
               b == AutotickAt(e, j)
               k == CoverAt(e, j)
               x == d[j + 1]
               y == e[j + 1]
    <3>1. /\ r \in Scope /\ a \in Scope /\ c \in Scope
          /\ s \in Scope /\ b \in Scope /\ k \in Scope
          /\ x \in Line /\ y \in Line /\ Near(r, a, c, s, b, k)
      BY <2>1, <2>2, <2>3, <2>5
    <3>2. y = x \/ (/\ SameButValue(x, y) /\ x.section = "status" /\ y.value = "Complete"
                    /\ ~c.descoped /\ ~c.host)
      BY <2>4
    <3> HIDE DEF r, a, c, s, b, k, x, y
    <3>3. Near(EnterRouter(r, x), EnterAutotick(a, x), EnterCover(c, x),
               EnterRouter(s, y), EnterAutotick(b, y), EnterCover(k, y))
      BY <3>1, <3>2, NearStep
    <3> QED BY <3>3 DEF r, a, c, s, b, k, x, y
  <2> QED BY <2>2, <2>3, <2>6
<1> HIDE DEF Ok
<1>4. 0 \in T /\ \A j \in 0 .. Len(d) - 1 : j \in T => j + 1 \in T
  BY <1>2, <1>3
<1>5. Len(d) \in Nat /\ 0 \in Nat
  OBVIOUS
<1>6. i \in T
  <2> HIDE DEF T
  <2> QED BY <1>4, <1>5, Interval
<1> QED BY <1>6 DEF Ok

\* A flip of phases that are not Superseded opens no gap.
LEMMA FlipsKeepNoGap ==
  ASSUME NEW d \in Seq(Line), Shaped(d), NoGap(d), NEW flip \in SUBSET PhaseStarts(d),
         \A p \in flip : Status(d, p) # "Superseded"
  PROVE  LET e == FlipPhases(d, flip) IN e \in Seq(Line) /\ Shaped(e) /\ NoGap(e)
<1> DEFINE S == {p + 1 : p \in {q \in flip : StatusBelow(d, q)}}
           e == FlipPhases(d, flip)
<1>1. IsFlip(d, S, "Complete", e)
  BY GateFlips DEF NoGap
<1>2. \A p \in PhaseStarts(d) : p + 1 \in S => p \in flip
  BY DEF PhaseStarts
<1>3. \A i \in S : i - 1 \in PhaseStarts(d)
  BY DEF PhaseStarts
<1> HIDE DEF S, e
<1>4. /\ e \in Seq(Line) /\ Shaped(e) /\ Len(e) = Len(d) /\ PhaseStarts(e) = PhaseStarts(d)
      /\ \A p \in PhaseStarts(d) :
           Status(e, p) = IF StatusBelow(d, p) /\ p + 1 \in S THEN "Complete" ELSE Status(d, p)
  BY <1>1, FlipsKeep
<1>5. /\ Revalued(d, e) /\ \A j \in DOMAIN d : d[j].is = "row" => e[j] = d[j]
  BY <1>1, StatusFlips
<1>6. OpenRows(e) = OpenRows(d) /\ DoneRows(e) = DoneRows(d)
  BY <1>5, ValuesKeepRows
<1>7. \A p : LinesOf(e, p) = LinesOf(d, p)
  BY <1>5, ValuesKeepPhases
<1>8. \A i \in OpenRows(d) : i \in DOMAIN d /\ i \in 0 .. Len(d) /\ d[i].is = "row" /\ e[i] = d[i]
  BY <1>5 DEF OpenRows, OpenRow
<1>9. \A i \in OpenRows(d) : Near(RouterAt(d, i), AutotickAt(d, i), CoverAt(d, i),
                                  RouterAt(e, i), AutotickAt(e, i), CoverAt(e, i))
  BY <1>1, <1>3, <1>8, FlipScopes
<1>10. \A i \in OpenRows(d) :
         /\ Agree(RouterAt(d, i), AutotickAt(d, i), LedgerAt(d, i), ParseAt(d, i), CoverAt(d, i))
         /\ Agree(RouterAt(e, i), AutotickAt(e, i), LedgerAt(e, i), ParseAt(e, i), CoverAt(e, i))
  BY <1>4, <1>8, ScannersAgree
<1>11. ASSUME NEW p \in PhaseStarts(d), Status(d, p) = "Superseded" PROVE Status(e, p) = "Superseded"
  BY <1>2, <1>4, <1>11
<1>12. ASSUME NEW i \in OpenRows(d) PROVE RouterAt(e, i).superseded <=> RouterAt(d, i).superseded
  <2>1. RouterAt(e, i).superseded => RouterAt(d, i).superseded
    BY <1>9 DEF Near
  <2>2. ASSUME RouterAt(d, i).superseded PROVE RouterAt(e, i).superseded
    <3>1. PICK p \in PhaseStarts(d) : i \in LinesOf(d, p)
      BY <1>8, RowsHavePhases
    <3>2. Status(d, p) = "Superseded"
      BY <2>2, <3>1 DEF NoGap
    <3>3. p \in PhaseStarts(e) /\ Status(e, p) = "Superseded" /\ i \in LinesOf(e, p)
      BY <1>4, <1>7, <1>11, <3>1, <3>2
    <3> QED BY <1>4, <3>3, SupersededScope
  <2> QED BY <2>1, <2>2
<1>13. ASSUME NEW i \in OpenRows(d)
       PROVE  /\ AutotickAt(e, i).superseded <=> AutotickAt(d, i).superseded
              /\ CoverAt(e, i).superseded <=> CoverAt(d, i).superseded
  BY <1>10, <1>12, Zenon DEF Agree
<1>14. ASSUME NEW i \in OpenRows(d)
       PROVE  /\ Collected(e, i) <=> Collected(d, i)
              /\ CoverAt(e, i).host <=> CoverAt(d, i).host
              /\ AutotickAt(e, i).verification <=> AutotickAt(d, i).verification
  BY <1>8, <1>9, <1>13, Zenon DEF Near, Collected
<1>15. collect_uncovered(e).host = collect_uncovered(d).host
  <2>1. collect_uncovered(e).host
          = {i \in OpenRows(d) : Collected(e, i) /\ (CoverAt(e, i).host \/ e[i].host)}
    BY <1>6, CoverSets
  <2> QED BY <1>8, <1>14, <2>1, CoverSets
<1>16. collect_uncovered(e).rows = collect_uncovered(d).rows
  BY <1>6, <1>14, CoverSets
<1>17. Tickable(e) = Tickable(d)
  <2>1. Tickable(e) = {i \in OpenRows(d) : /\ Spaced(e[i]) /\ ~AutotickAt(e, i).superseded
                                           /\ e[i].verification \/ AutotickAt(e, i).verification}
    BY <1>4, <1>6, Tickables
  <2> QED BY <1>8, <1>13, <1>14, <2>1, Tickables
<1>18. ASSUME NEW p \in PhaseStarts(e),
              LinesOf(e, p) \cap (OpenRows(e) \cup DoneRows(e)) = {}
       PROVE  Status(e, p) \in {"none", "Complete", "Superseded"}
  BY <1>4, <1>6, <1>7, <1>18 DEF NoGap
<1>19. ASSUME NEW p \in PhaseStarts(e), NEW i \in LinesOf(e, p) \cap OpenRows(e),
              RouterAt(e, i).superseded
       PROVE  Status(e, p) = "Superseded"
  <2>1. p \in PhaseStarts(d) /\ i \in LinesOf(d, p) \cap OpenRows(d) /\ RouterAt(d, i).superseded
    BY <1>4, <1>6, <1>7, <1>12, <1>19
  <2> QED BY <1>11, <2>1 DEF NoGap
<1>20. \A i \in OpenRows(e) : Spaced(e[i])
  BY <1>6, <1>8 DEF NoGap
<1>21. Distinct(e)
  <2>1. \A p \in PhaseStarts(d) : p \in DOMAIN d /\ p \notin S
    <3>1. \A p \in PhaseStarts(d) : p \in DOMAIN d /\ d[p].section # "status"
      BY DEF PhaseStarts, Line
    <3> QED BY <1>1, <3>1 DEF IsFlip
  <2>2. \A p \in PhaseStarts(d) : e[p] = d[p]
    BY <1>1, <2>1 DEF IsFlip, Flipped
  <2> QED BY <1>4, <2>2 DEF NoGap, Distinct
<1>22. NoGap(e)
  BY <1>15, <1>16, <1>17, <1>18, <1>19, <1>20, <1>21 DEF NoGap
<1> QED BY <1>4, <1>22 DEF e

\* Nothing is open but what is for verification, dropped or superseded.
ChecksLeft(d) == Unchecked(d) > 0 => remaining_unchecked_are_verification_only(d)

LEMMA ChecksAreExempt ==
  ASSUME NEW d \in Seq(Line)
  PROVE  ChecksLeft(d) <=> \A i \in OpenRows(d) : ExemptForRouter(RouterAt(d, i), d[i])
<1>1. Scan(EnterRouter, ExemptForRouter, d) = {i \in OpenRows(d) : ExemptForRouter(RouterAt(d, i), d[i])}
  BY Zenon DEF Scan, RouterAt
<1>2. IsFiniteSet(OpenRows(d)) /\ Cardinality(OpenRows(d)) \in Nat
  BY RowsAreFinite
<1>3. Unchecked(d) > 0 <=> OpenRows(d) # {}
  BY <1>2, FS_EmptySet DEF Unchecked
<1> QED BY <1>1, <1>3 DEF ChecksLeft, remaining_unchecked_are_verification_only

\* Without rows for another host: the tests cover every row when there is no
\* unmarked one and the marked ones are not more than the tests that passed.
LEMMA CoveredRows ==
  ASSUME NEW d \in Seq(Line), NoGap(d), NEW n \in Nat
  PROVE  ~uncovered_verification_rows_remain(d, n) <=>
           /\ collect_uncovered(d).shim = {}
           /\ Cardinality(collect_uncovered(d).rows) <= n
<1> DEFINE rows == collect_uncovered(d).rows
           shim == collect_uncovered(d).shim
           canonical == rows \ shim
<1>1. ~uncovered_verification_rows_remain(d, n) <=>
        (IF Cardinality(canonical) <= n THEN shim ELSE rows) = {}
  BY Zenon DEF uncovered_verification_rows_remain, NoGap
<1>2. /\ shim \subseteq rows /\ rows \subseteq OpenRows(d)
      /\ IsFiniteSet(rows) /\ Cardinality(rows) \in Nat
  BY CoverSets, RowsAreFinite, FS_Subset, FS_CardinalityType
<1> HIDE DEF rows, shim
<1>3. CASE shim = {}
  <2>1. canonical = rows
    BY <1>3
  <2>2. rows = {} => Cardinality(rows) <= n
    BY FS_EmptySet
  <2> QED BY <1>1, <1>3, <2>1, <2>2 DEF rows, shim
<1>4. CASE shim # {}
  BY <1>1, <1>2, <1>4 DEF rows, shim
<1> QED BY <1>3, <1>4

\* What the gate ticks: all that is tickable, or nothing as it is too much.
LEMMA TickRows ==
  ASSUME NEW d \in Seq(Line), NEW n \in Nat, NEW e, e = autotick_verification_rows(d, n)
  PROVE  /\ e \in Seq(Line) /\ Len(e) = Len(d)
         /\ \A j \in 1 .. Len(d) : Worked(d[j], e[j])
         /\ OpenRows(e) \subseteq OpenRows(d) /\ \A j \in OpenRows(e) : e[j] = d[j]
         /\ OpenRows(d) \cup DoneRows(d) \subseteq OpenRows(e) \cup DoneRows(e)
         /\ Tickable(e) = {} \/ (e = d /\ Cardinality(Tickable(d)) > n)
<1> DEFINE S == Tickable(d)
<1>1. /\ DOMAIN d = 1 .. Len(d) /\ Len(d) \in Nat /\ \A j \in DOMAIN d : d[j] \in Line
      /\ S \subseteq OpenRows(d) /\ OpenRows(d) \subseteq DOMAIN d
  BY Tickables DEF OpenRows
<1>2. CASE Cardinality(S) > n
  <2>1. e = d
    BY <1>2 DEF autotick_verification_rows
  <2> QED BY <1>2, <2>1 DEF Worked
<1>3. CASE ~(Cardinality(S) > n)
  <2> HIDE DEF S
  <2>1. e = [i \in DOMAIN d |-> IF i \in S THEN Audited(d[i]) ELSE d[i]]
    BY <1>3 DEF autotick_verification_rows, S
  <2>2. DOMAIN e = DOMAIN d /\ \A i \in DOMAIN d : e[i] = IF i \in S THEN Audited(d[i]) ELSE d[i]
    BY <2>1
  <2>3. ASSUME NEW i \in S
        PROVE  /\ e[i] \in Line /\ SameButValue(d[i], e[i]) /\ d[i].is = "row" /\ OpenRow(d[i])
               /\ e[i].is = "row" /\ DoneRow(e[i]) /\ ~OpenRow(e[i])
    <3>1. d[i] \in Line /\ d[i].is = "row" /\ OpenRow(d[i])
      BY <1>1 DEF OpenRows, OpenRow
    <3>2. e[i] = [d[i] EXCEPT !.value = "audited"] /\ "audited" \in Text
      BY <1>1, <2>2 DEF Audited, Text
    <3>3. e[i] \in Line /\ SameButValue(d[i], e[i]) /\ e[i].value = "audited"
      BY <3>1, <3>2, OtherValue
    <3> QED BY <3>1, <3>3 DEF SameButValue, DoneRow, OpenRow
  <2>4. e \in Seq(Line) /\ Len(e) = Len(d)
    <3>1. \A i \in 1 .. Len(d) : e[i] \in Line
      BY <1>1, <2>2, <2>3
    <3>2. e = [i \in 1 .. Len(d) |-> e[i]]
      BY <1>1, <2>1
    <3>3. e \in [1 .. Len(d) -> Line]
      BY <3>1, <3>2
    <3> QED BY <1>1, <3>3
  <2>5. ASSUME NEW j \in 1 .. Len(d) PROVE Worked(d[j], e[j])
    <3>1. CASE j \in S
      BY <2>3, <3>1 DEF Worked, SameButValue
    <3>2. CASE j \notin S
      BY <1>1, <2>2, <3>2 DEF Worked
    <3> QED BY <3>1, <3>2
  <2>6. OpenRows(e) = OpenRows(d) \ S
    BY <1>1, <2>2, <2>3 DEF OpenRows
  <2>7. \A j \in OpenRows(e) : e[j] = d[j]
    BY <1>1, <2>2, <2>6
  <2>8. OpenRows(d) \cup DoneRows(d) \subseteq OpenRows(e) \cup DoneRows(e)
    <3>1. S \subseteq DoneRows(e)
      BY <1>1, <2>2, <2>3 DEF DoneRows
    <3>2. DoneRows(d) \subseteq DoneRows(e)
      <4>1. \A j \in DoneRows(d) : j \in DOMAIN d /\ j \notin S
        BY <2>3 DEF DoneRows, OpenRow, DoneRow
      <4> QED BY <2>2, <4>1 DEF DoneRows
    <3> QED BY <2>6, <3>1, <3>2
  <2>9. Tickable(e) = {}
    <3>1. SUFFICES ASSUME NEW j \in Tickable(e) PROVE FALSE
      OBVIOUS
    <3>2. /\ j \in OpenRows(e) /\ ~AutotickAt(e, j).superseded
          /\ Spaced(e[j]) /\ (e[j].verification \/ AutotickAt(e, j).verification)
      BY <2>4, Tickables
    <3>3. j \in OpenRows(d) /\ j \notin S /\ e[j] = d[j] /\ j \in 0 .. Len(d)
      BY <1>1, <2>6, <2>7, <3>2
    <3>4. AutotickAt(e, j) = AutotickAt(d, j)
      <4>1. \A i \in 1 .. Len(d) : Alike(d[i], e[i])
        BY <2>5 DEF Worked, Alike
      <4> QED BY <2>4, <3>3, <4>1, TicksKeepScopes
    <3>5. j \in Tickable(d)
      BY <3>2, <3>3, <3>4, Tickables
    <3> QED BY <3>3, <3>5 DEF S
  <2> QED BY <2>4, <2>5, <2>6, <2>7, <2>8, <2>9
<1> QED BY <1>2, <1>3

\* What the router sent it would still send after the ticks.
LEMMA TicksKeepSent ==
  ASSUME NEW d \in Seq(Line), NoGap(d), NEW n \in Nat,
         NEW e, e = autotick_verification_rows(d, n)
  PROVE  /\ e \in Seq(Line) /\ NoGap(e) /\ (Shaped(d) => Shaped(e))
         /\ ChecksLeft(d) => ChecksLeft(e)
         /\ ~uncovered_verification_rows_remain(d, n) => ~uncovered_verification_rows_remain(e, n)
         /\ Tickable(e) = {} \/ Cardinality(Tickable(e)) > n
<1>1. /\ e \in Seq(Line) /\ Len(e) = Len(d)
      /\ \A j \in 1 .. Len(d) : Worked(d[j], e[j])
      /\ OpenRows(e) \subseteq OpenRows(d) /\ \A j \in OpenRows(e) : e[j] = d[j]
      /\ OpenRows(d) \cup DoneRows(d) \subseteq OpenRows(e) \cup DoneRows(e)
      /\ Tickable(e) = {} \/ (e = d /\ Cardinality(Tickable(d)) > n)
  BY TickRows
<1>2. NoGap(e)
  BY <1>1, WorkKeepsNoGap
<1>3. Shaped(d) => Shaped(e)
  BY <1>1, WorkKeeps
<1>4. \A j \in OpenRows(e) : RouterAt(e, j) = RouterAt(d, j) /\ CoverAt(e, j) = CoverAt(d, j)
  <2>1. \A j \in 1 .. Len(d) : Alike(d[j], e[j])
    BY <1>1 DEF Worked, Alike
  <2>2. \A j \in OpenRows(e) : j \in 0 .. Len(d)
    BY <1>1 DEF OpenRows
  <2> QED BY <1>1, <2>1, <2>2, TicksKeepScopes
<1>5. ChecksLeft(d) => ChecksLeft(e)
  BY <1>1, <1>4, ChecksAreExempt
<1>6. ASSUME ~uncovered_verification_rows_remain(d, n)
      PROVE  ~uncovered_verification_rows_remain(e, n)
  <2>1. collect_uncovered(d).shim = {} /\ Cardinality(collect_uncovered(d).rows) <= n
    BY <1>6, CoveredRows
  <2>2. \A j \in OpenRows(e) : Collected(e, j) <=> Collected(d, j)
    BY <1>1, <1>4, Zenon DEF Collected
  <2>3. collect_uncovered(e).rows \subseteq collect_uncovered(d).rows
    BY <1>1, <2>2, CoverSets
  <2>4. collect_uncovered(e).shim \subseteq collect_uncovered(d).shim
    BY <1>1, <1>4, <2>2, CoverSets
  <2>5. IsFiniteSet(collect_uncovered(d).rows)
    <3>1. collect_uncovered(d).rows \subseteq OpenRows(d) /\ IsFiniteSet(OpenRows(d))
      BY CoverSets, RowsAreFinite
    <3> QED BY <3>1, FS_Subset
  <2>6. Cardinality(collect_uncovered(e).rows) <= Cardinality(collect_uncovered(d).rows)
    BY <2>3, <2>5, FS_Subset
  <2>7. /\ Cardinality(collect_uncovered(e).rows) \in Nat
        /\ Cardinality(collect_uncovered(d).rows) \in Nat
    BY <2>3, <2>5, FS_Subset, FS_CardinalityType
  <2>8. Cardinality(collect_uncovered(e).rows) <= n
    BY <2>1, <2>6, <2>7
  <2> QED BY <1>1, <1>2, <2>1, <2>4, <2>8, CoveredRows
<1> QED BY <1>1, <1>2, <1>3, <1>5, <1>6
=============================================================================
