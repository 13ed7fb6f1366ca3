--------------------------- MODULE DefaultsProofs ---------------------------
(***************************************************************************)
(* How many defaults a user can have, for any number of rows and requests. *)
(* Every clear turns all defaults into one request that may set one, and   *)
(* every set turns such a request into a default: the sum never exceeds    *)
(* the number of requests.                                                 *)
(***************************************************************************)
EXTENDS Defaults, FiniteSetTheorems, TLAPS

\* No step leaves the types.
LEMMA TypeStep == TypeOK /\ [Next]_vars => TypeOK'
<1> SUFFICES ASSUME TypeOK, [Next]_vars PROVE TypeOK'
  OBVIOUS
<1> USE DEF TypeOK, Tables
<1>1. ASSUME NEW t \in Tables, NEW i \in Rows,
             CreatePlain(t, i) \/ Unset(t, i) \/ Remove(t, i)
      PROVE  TypeOK'
  BY <1>1 DEF CreatePlain, Unset, Remove
<1>2. ASSUME NEW r \in Requests, NEW op \in {"create", "update"}, NEW t \in Tables,
             NEW i \in Rows, Ask(r, op, t, i)
      PROVE  TypeOK'
  <2>1. Exists(t, i) \in BOOLEAN
    BY DEF Exists
  <2> QED
    BY <1>2, <2>1 DEF Ask
<1>3. ASSUME NEW r \in Requests, Clear(r) PROVE TypeOK'
  <2>1. flag' \in [Tables -> [Rows -> {"none", "plain", "default", "gone"}]]
    <3> DEFINE t == req[r].table
               g == [i \in Rows |-> IF flag[t][i] = "default" THEN "plain" ELSE flag[t][i]]
    <3>1. flag' = [flag EXCEPT ![t] = g]
      BY <1>3 DEF Clear
    <3>2. t \in Tables => g \in [Rows -> {"none", "plain", "default", "gone"}]
      OBVIOUS
    <3> HIDE DEF t, g
    <3> QED
      BY <3>1, <3>2
  <2>2. req' = [req EXCEPT ![r].pc = "set"] /\ UNCHANGED lost
    BY <1>3 DEF Clear
  <2> QED
    BY <2>1, <2>2
<1>4. ASSUME NEW r \in Requests, Set(r) \/ SetRefused(r) \/ Drop(r) PROVE TypeOK'
  <2>1. flag' \in [Tables -> [Rows -> {"none", "plain", "default", "gone"}]]
    BY <1>4 DEF Set, SetRefused, Drop
  <2>2. req' = [req EXCEPT ![r] = Idle]
    BY <1>4 DEF Set, SetRefused, Drop, Finish
  <2>3. lost' \in 0 .. MaxLost
    BY <1>4, LimitAssumption DEF Set, SetRefused, Drop
  <2> QED
    BY <2>1, <2>2, <2>3 DEF Idle
<1>5. CASE UNCHANGED vars
  BY <1>5 DEF vars
<1> QED
  BY <1>1, <1>2, <1>3, <1>4, <1>5 DEF Next

\* The defaults of a table and the requests that are about to set one.
LEMMA Finite ==
  ASSUME NEW t
  PROVE  /\ IsFiniteSet(Default(t)) /\ Cardinality(Default(t)) \in Nat
         /\ IsFiniteSet(Setting(t)) /\ Cardinality(Setting(t)) \in Nat
         /\ Cardinality(Requests) \in Nat
<1>1. Default(t) \in SUBSET Rows /\ Setting(t) \in SUBSET Requests
  BY DEF Default, Setting
<1>2. IsFiniteSet(Default(t)) /\ IsFiniteSet(Setting(t))
  BY <1>1, FiniteAssumption, FS_Subset
<1> QED
  BY <1>2, FiniteAssumption, FS_CardinalityType

\* Fewer defaults, and fewer requests about to set one.
LEMMA Fewer ==
  ASSUME NEW t, Cardinality(Default(t)) + Cardinality(Setting(t)) <= Cardinality(Requests),
         Default(t)' \subseteq Default(t), Setting(t)' \subseteq Setting(t)
  PROVE  Cardinality(Default(t)') + Cardinality(Setting(t)') <= Cardinality(Requests)
<1>1. /\ IsFiniteSet(Default(t)') /\ Cardinality(Default(t)') <= Cardinality(Default(t))
      /\ IsFiniteSet(Setting(t)') /\ Cardinality(Setting(t)') <= Cardinality(Setting(t))
  BY Finite, FS_Subset
<1>2. Cardinality(Default(t)') \in Nat /\ Cardinality(Setting(t)') \in Nat
  BY <1>1, FS_CardinalityType
<1> QED
  BY <1>1, <1>2, Finite

\* No default is left, and the requests about to set one are requests.
LEMMA ClearBounded ==
  ASSUME NEW r \in Requests, NEW t \in Tables, Clear(r), TypeOK, req[r].table = t
  PROVE  Cardinality(Default(t)') + Cardinality(Setting(t)') <= Cardinality(Requests)
<1>1. Default(t)' = {}
  BY DEF Clear, Default, TypeOK
<1>2. Setting(t)' \in SUBSET Requests
  BY DEF Setting
<1>3. IsFiniteSet(Setting(t)') /\ Cardinality(Setting(t)') <= Cardinality(Requests)
  BY <1>2, FS_Subset, FiniteAssumption
<1>4. Cardinality(Default(t)') = 0 /\ Cardinality(Setting(t)') \in Nat
  BY <1>1, <1>3, FS_EmptySet, FS_CardinalityType
<1> QED
  BY <1>3, <1>4, Finite

\* One default more at most, and one request less that is about to set one.
LEMMA SetBounded ==
  ASSUME NEW r \in Requests, NEW t \in Tables, Set(r), TypeOK, req[r].table = t,
         Cardinality(Default(t)) + Cardinality(Setting(t)) <= Cardinality(Requests)
  PROVE  Cardinality(Default(t)') + Cardinality(Setting(t)') <= Cardinality(Requests)
<1> DEFINE more == Default(t) \union {req[r].row}
           fewer == Setting(t) \ {r}
<1>1. Default(t)' \in SUBSET more
  BY DEF Set, Default, TypeOK
<1>2. Setting(t)' \in SUBSET fewer /\ r \in Setting(t)
  BY DEF Set, Setting, Finish, Idle, TypeOK
<1>3. /\ IsFiniteSet(more) /\ Cardinality(more) <= Cardinality(Default(t)) + 1
      /\ IsFiniteSet(fewer) /\ Cardinality(fewer) = Cardinality(Setting(t)) - 1
  <2>1. IsFiniteSet(more) /\ Cardinality(more) <= Cardinality(Default(t)) + 1
    <3>1. IsFiniteSet(Default(t)) /\ Cardinality(Default(t)) \in Nat
      BY Finite
    <3>2. /\ IsFiniteSet(more)
          /\ Cardinality(more) = IF req[r].row \in Default(t) THEN Cardinality(Default(t))
                                 ELSE Cardinality(Default(t)) + 1
      BY <3>1, FS_AddElement
    <3> QED
      BY <3>1, <3>2
  <2>2. IsFiniteSet(fewer) /\ Cardinality(fewer) = Cardinality(Setting(t)) - 1
    BY <1>2, Finite, FS_RemoveElement
  <2> QED
    BY <2>1, <2>2
<1> HIDE DEF more, fewer
<1>4. /\ IsFiniteSet(Default(t)') /\ Cardinality(Default(t)') <= Cardinality(more)
      /\ IsFiniteSet(Setting(t)') /\ Cardinality(Setting(t)') <= Cardinality(fewer)
  BY <1>1, <1>2, <1>3, FS_Subset
<1>5. /\ Cardinality(Default(t)') \in Nat /\ Cardinality(Setting(t)') \in Nat
      /\ Cardinality(more) \in Nat /\ Cardinality(fewer) \in Nat
  BY <1>3, <1>4, FS_CardinalityType
<1> QED
  BY <1>3, <1>4, <1>5, Finite

\* No step exceeds the bound: only a clear and a set add to either side of the sum.
LEMMA BoundStep == TypeOK /\ DefaultsBounded /\ [Next]_vars => DefaultsBounded'
<1> SUFFICES ASSUME TypeOK, DefaultsBounded, [Next]_vars, NEW t \in Tables
             PROVE  Cardinality(Default(t)') + Cardinality(Setting(t)') <= Cardinality(Requests)
  BY DEF DefaultsBounded
<1>0. Cardinality(Default(t)) + Cardinality(Setting(t)) <= Cardinality(Requests)
  BY DEF DefaultsBounded
<1>1. ASSUME NEW u \in Tables, NEW i \in Rows,
             CreatePlain(u, i) \/ Unset(u, i) \/ Remove(u, i)
      PROVE  Default(t)' \subseteq Default(t) /\ Setting(t)' \subseteq Setting(t)
  BY <1>1 DEF CreatePlain, Unset, Remove, Default, Setting, TypeOK
<1>2. ASSUME NEW r \in Requests, NEW op \in {"create", "update"}, NEW u \in Tables,
             NEW i \in Rows, Ask(r, op, u, i)
      PROVE  Default(t)' \subseteq Default(t) /\ Setting(t)' \subseteq Setting(t)
  BY <1>2 DEF Ask, Default, Setting, TypeOK
<1>3. ASSUME NEW r \in Requests, SetRefused(r) \/ Drop(r)
      PROVE  Default(t)' \subseteq Default(t) /\ Setting(t)' \subseteq Setting(t)
  BY <1>3 DEF SetRefused, Drop, Finish, Idle, Default, Setting, TypeOK
<1>4. ASSUME NEW r \in Requests, Clear(r) \/ Set(r), req[r].table # t
      PROVE  Default(t)' \subseteq Default(t) /\ Setting(t)' \subseteq Setting(t)
  BY <1>4 DEF Clear, Set, Finish, Idle, Default, Setting, TypeOK
<1>5. CASE UNCHANGED vars
  BY <1>0, <1>5 DEF vars, Default, Setting
<1>6. ASSUME NEW r \in Requests, Clear(r) \/ Set(r), req[r].table = t
      PROVE  Cardinality(Default(t)') + Cardinality(Setting(t)') <= Cardinality(Requests)
  BY <1>0, <1>6, ClearBounded, SetBounded
<1>7. CASE Default(t)' \subseteq Default(t) /\ Setting(t)' \subseteq Setting(t)
  BY <1>0, <1>7, Fewer
<1> QED
  BY <1>1, <1>2, <1>3, <1>4, <1>5, <1>6, <1>7 DEF Next

\* Nobody has a default in the beginning.
LEMMA InitBounded == Init => TypeOK /\ DefaultsBounded
<1> SUFFICES ASSUME Init PROVE TypeOK /\ DefaultsBounded
  OBVIOUS
<1>1. TypeOK
  BY LimitAssumption DEF Init, TypeOK, Idle, Tables
<1>2. ASSUME NEW t \in Tables
      PROVE  Cardinality(Default(t)) + Cardinality(Setting(t)) <= Cardinality(Requests)
  <2>1. Default(t) = {} /\ Setting(t) = {}
    BY DEF Init, Default, Setting, Idle
  <2> QED
    BY <2>1, FS_EmptySet, Finite
<1> QED
  BY <1>1, <1>2 DEF DefaultsBounded

\* Both flags are in one of their states, and a request that makes a row the
\* default knows its table and its row (TypeOK).
THEOREM TypeCorrect == Spec => []TypeOK
<1>1. Init => TypeOK
  BY InitBounded
<1> QED
  BY <1>1, TypeStep, PTL DEF Spec

\* However calls that make an account or an address the default interleave, a
\* user has no more defaults than calls were in flight together (DefaultsBounded).
THEOREM AtMostOnePerRequest == Spec => []DefaultsBounded
<1>1. TypeOK /\ DefaultsBounded /\ [Next]_vars => (TypeOK /\ DefaultsBounded)'
  BY TypeStep, BoundStep
<1> QED
  BY <1>1, InitBounded, PTL DEF Spec

\* A request on its way knows its row, and found the payment account it updates.
CallsFit == \A r \in Requests :
    req[r] # Idle =>
        /\ req[r].row \in Rows /\ req[r].table \in Tables
        /\ req[r].op = "update" /\ req[r].table = "accounts" => req[r].found

LEMMA FitStep == TypeOK /\ CallsFit /\ [Next]_vars => CallsFit'
<1> SUFFICES ASSUME TypeOK, CallsFit, [Next]_vars PROVE CallsFit'
  OBVIOUS
<1> USE DEF TypeOK, CallsFit
<1>1. ASSUME NEW t \in Tables, NEW i \in Rows,
             CreatePlain(t, i) \/ Unset(t, i) \/ Remove(t, i)
      PROVE  CallsFit'
  BY <1>1 DEF CreatePlain, Unset, Remove
<1>2. ASSUME NEW r \in Requests, NEW op \in {"create", "update"}, NEW t \in Tables,
             NEW i \in Rows, Ask(r, op, t, i)
      PROVE  CallsFit'
  BY <1>2 DEF Ask, Asked
<1>3. ASSUME NEW r \in Requests, Clear(r) PROVE CallsFit'
  <2>1. req' = [req EXCEPT ![r].pc = "set"] /\ req[r] # Idle
    BY <1>3 DEF Clear, Idle
  <2>2. ASSUME NEW q \in Requests
        PROVE  /\ req'[q].row = req[q].row /\ req'[q].table = req[q].table
               /\ req'[q].op = req[q].op /\ req'[q].found = req[q].found
    BY <2>1
  <2>3. \A q \in Requests : q # r => req'[q] = req[q]
    BY <2>1
  <2> QED
    BY <2>1, <2>2, <2>3
<1>4. ASSUME NEW r \in Requests, Set(r) \/ SetRefused(r) \/ Drop(r) PROVE CallsFit'
  <2>1. req' = [req EXCEPT ![r] = Idle]
    BY <1>4 DEF Set, SetRefused, Drop, Finish
  <2> QED
    BY <2>1
<1>5. CASE UNCHANGED vars
  BY <1>5 DEF vars
<1> QED
  BY <1>1, <1>2, <1>3, <1>4, <1>5 DEF Next

\* A default that is covered is uncovered in one of the ways that DefaultsSurvive names.
LEMMA SurviveStep ==
  ASSUME TypeOK, CallsFit, Next, NEW t \in Tables, Covered(t), ~Covered(t)'
  PROVE  \/ req' = req
         \/ lost' > lost
         \/ \E r \in Setting(t) :
               /\ req'[r] = Idle
               /\ t = "addresses" \/ (req[r].found /\ ~Exists(t, req[r].row))
<1>0. Default(t)' = {} /\ Setting(t)' = {} /\ (Default(t) # {} \/ Setting(t) # {})
  BY DEF Covered
<1>1. ASSUME NEW u \in Tables, NEW i \in Rows,
             CreatePlain(u, i) \/ Unset(u, i) \/ Remove(u, i)
      PROVE  req' = req
  BY <1>1 DEF CreatePlain, Unset, Remove
<1>2. ASSUME NEW r \in Requests, NEW op \in {"create", "update"}, NEW u \in Tables,
             NEW i \in Rows, Ask(r, op, u, i)
      PROVE  FALSE
  BY <1>0, <1>2 DEF Ask, Idle, Default, Setting, TypeOK
<1>3. ASSUME NEW r \in Requests, Clear(r) PROVE FALSE
  <2>1. CASE req[r].table = t
    BY <1>0, <1>3, <2>1 DEF Clear, Setting, TypeOK
  <2>2. CASE req[r].table # t
    BY <1>0, <1>3, <2>2 DEF Clear, Default, Setting, TypeOK
  <2> QED
    BY <2>1, <2>2
<1>4. ASSUME NEW r \in Requests, Set(r) PROVE FALSE
  <2>1. CASE req[r].table = t
    <3>1. req[r].row \in Rows
      BY <1>4 DEF Set, Idle, CallsFit
    <3>2. req[r].row \in Default(t)'
      BY <1>4, <2>1, <3>1 DEF Set, Default, TypeOK
    <3> QED
      BY <1>0, <3>2
  <2>2. CASE req[r].table # t
    BY <1>0, <1>4, <2>2 DEF Set, Finish, Idle, Default, Setting, TypeOK
  <2> QED
    BY <2>1, <2>2
<1>5. ASSUME NEW r \in Requests, SetRefused(r)
      PROVE  /\ r \in Setting(t) /\ req'[r] = Idle
             /\ t = "addresses" \/ (req[r].found /\ ~Exists(t, req[r].row))
  <2>1. CASE req[r].table = t
    BY <1>5, <2>1 DEF SetRefused, Setting, Finish, Idle, CallsFit, Tables, TypeOK
  <2>2. CASE req[r].table # t
    BY <1>0, <1>5, <2>2 DEF SetRefused, Finish, Idle, Default, Setting, TypeOK
  <2> QED
    BY <2>1, <2>2
<1>6. ASSUME NEW r \in Requests, Drop(r) PROVE lost' > lost
  BY <1>6, LimitAssumption DEF Drop, TypeOK
<1> QED
  BY <1>1, <1>2, <1>3, <1>4, <1>5, <1>6 DEF Next

\* A payment account that is the default stays one until the user takes it away,
\* unless a request dies or finds its row removed meanwhile (DefaultsSurvive): only
\* an address's default may go because a later check refuses the new one.
THEOREM DefaultsKept == Spec => DefaultsSurvive
<1>1. Init => TypeOK /\ CallsFit
  BY InitBounded DEF Init, CallsFit
<1>2. TypeOK /\ CallsFit /\ [Next]_vars => (TypeOK /\ CallsFit)'
  BY TypeStep, FitStep
<1>3. TypeOK /\ CallsFit /\ [Next]_vars =>
        [\A t \in Tables : Covered(t) /\ ~Covered(t)' =>
           \/ req' = req
           \/ lost' > lost
           \/ \E r \in Setting(t) :
                 /\ req'[r] = Idle
                 /\ t = "addresses" \/ (req[r].found /\ ~Exists(t, req[r].row))]_vars
  BY SurviveStep
<1> QED
  BY <1>1, <1>2, <1>3, PTL DEF Spec, DefaultsSurvive
=============================================================================
