------------------------ MODULE PendingManagerProofs ------------------------
(* What a node does to the chain's state keeps names, delegates and votes matched    *)
(* and its coins counted, no transaction is executed by two blocks or by a block and *)
(* the pool, and the pool can be executed as it is.                                  *)
EXTENDS PendingManager, FiniteSetTheorems, WellFoundedInduction, SequenceTheorems, TLAPS

----------------------------------------------------------------------------
\* Sums over finite sets, and the execution of a sequence of transactions: what the
\* folds of the library compute, by induction on the subsets of a finite set.

\* Some set among subsets of a finite set has no other one of them inside it.
LEMMA LeastSet ==
    ASSUME NEW S, IsFiniteSet(S), NEW T, T \subseteq SUBSET S, T # {}
    PROVE  \E s \in T : \A t \in T : t \subseteq s => t = s
<1>1. IsWellFoundedOn(StrictSubsetOrdering(S), SUBSET S)
    BY FS_StrictSubsetOrderingWellFounded, FS_FiniteSubsetsOfFinite
<1>2. PICK s \in T : \A t \in T : ~(<<t, s>> \in StrictSubsetOrdering(S))
    BY <1>1, WFMin
<1>3. \A t \in T : t \subseteq s => t = s
    BY <1>2 DEF StrictSubsetOrdering
<1> QED BY <1>3

Chosen(S) == CHOOSE x \in S : TRUE

\* The function on the subsets of D that a sum over D is a value of.
SumsUp(g, f, D) ==
    g = [s \in SUBSET D |-> IF s = {} THEN 0 ELSE f[Chosen(s)] + g[s \ {Chosen(s)}]]

LEMMA SumIsSum ==
    ASSUME NEW f, NEW S
    PROVE  SumFunctionOnSet(f, S) = (CHOOSE g : SumsUp(g, f, S))[S]
BY DEF SumFunctionOnSet, FoldFunctionOnSet, MapThenFoldSet, SumsUp, Chosen

LEMMA SumsAgree ==
    ASSUME NEW f, NEW g, NEW D, SumsUp(g, f, D), NEW h, NEW E, SumsUp(h, f, E), IsFiniteSet(D)
    PROVE  \A s : s \subseteq D /\ s \subseteq E => g[s] = h[s]
<1> DEFINE Bad == {s \in SUBSET D : s \subseteq E /\ g[s] # h[s]}
<1> SUFFICES ASSUME Bad # {} PROVE FALSE
    OBVIOUS
<1>0. Bad \subseteq SUBSET D
    OBVIOUS
<1>1. PICK s \in Bad : \A t \in Bad : t \subseteq s => t = s
    <2> HIDE DEF Bad
    <2> QED BY <1>0, LeastSet
<1>a. s \subseteq D /\ s \subseteq E
    BY <1>1
<1>2. /\ g[s] = IF s = {} THEN 0 ELSE f[Chosen(s)] + g[s \ {Chosen(s)}]
      /\ h[s] = IF s = {} THEN 0 ELSE f[Chosen(s)] + h[s \ {Chosen(s)}]
    <2> HIDE DEF Bad
    <2> QED BY <1>a DEF SumsUp
<1>3. s # {} => s \ {Chosen(s)} \in SUBSET D \cap SUBSET E /\ s \ {Chosen(s)} # s
    BY <1>a DEF Chosen
<1> QED BY <1>1, <1>2, <1>3

LEMMA SumsExist ==
    ASSUME NEW f, NEW S, IsFiniteSet(S)
    PROVE  \E g : SumsUp(g, f, S)
<1> DEFINE Bad == {D \in SUBSET S : ~\E g : SumsUp(g, f, D)}
<1> SUFFICES ASSUME Bad # {} PROVE FALSE
    OBVIOUS
<1>0. Bad \subseteq SUBSET S
    OBVIOUS
<1>1. PICK D \in Bad : \A E \in Bad : E \subseteq D => E = D
    <2> HIDE DEF Bad
    <2> QED BY <1>0, LeastSet
<1> DEFINE Sum(E) == (CHOOSE h : SumsUp(h, f, E))[E]
           g == [s \in SUBSET D |-> IF s = {} THEN 0
                                    ELSE f[Chosen(s)] + Sum(s \ {Chosen(s)})]
<1>2. ASSUME NEW E \in SUBSET D, E # D
      PROVE  \E h : SumsUp(h, f, E) /\ h[E] = Sum(E)
    BY <1>1, <1>2
<1>3. ASSUME NEW E \in SUBSET D, E # D
      PROVE  g[E] = Sum(E)
    <2>1. PICK h : SumsUp(h, f, E) /\ h[E] = Sum(E)
        BY <1>2, <1>3
    <2>2. h[E] = IF E = {} THEN 0 ELSE f[Chosen(E)] + h[E \ {Chosen(E)}]
        BY <2>1 DEF SumsUp
    <2>3. CASE E = {}
        BY <2>1, <2>2, <2>3
    <2>4. CASE E # {}
        <3>1. E \ {Chosen(E)} \in SUBSET D /\ E \ {Chosen(E)} # D
            BY <1>3
        <3>2. PICK i : SumsUp(i, f, E \ {Chosen(E)}) /\ i[E \ {Chosen(E)}] = Sum(E \ {Chosen(E)})
            BY <1>2, <3>1
        <3>3. IsFiniteSet(E)
            BY FS_Subset
        <3>4. h[E \ {Chosen(E)}] = i[E \ {Chosen(E)}]
            <4> DEFINE R == E \ {Chosen(E)}
            <4>1. R \subseteq E
                OBVIOUS
            <4>2. SumsUp(h, f, E) /\ SumsUp(i, f, R)
                BY <2>1, <3>2
            <4> HIDE DEF R
            <4>3. h[R] = i[R]
                BY <3>3, <4>1, <4>2, SumsAgree
            <4> QED BY <4>3 DEF R
        <3>5. g[E] = f[Chosen(E)] + Sum(E \ {Chosen(E)})
            BY <2>4
        <3> QED BY <2>1, <2>2, <2>4, <3>2, <3>4, <3>5
    <2> QED BY <2>3, <2>4
<1>4. \A s \in SUBSET D : s # {} => s \ {Chosen(s)} \in SUBSET D /\ s \ {Chosen(s)} # D
    BY DEF Chosen
<1>5. SumsUp(g, f, D)
    <2>1. \A s \in SUBSET D : s # {} => g[s \ {Chosen(s)}] = Sum(s \ {Chosen(s)})
        BY <1>3, <1>4
    <2> HIDE DEF Sum
    <2> QED BY <2>1 DEF SumsUp
<1> QED BY <1>5

\* A sum over a set is what was chosen first and the sum over the rest.
LEMMA SumChosen ==
    ASSUME NEW f, NEW S, IsFiniteSet(S)
    PROVE  SumFunctionOnSet(f, S)
           = IF S = {} THEN 0
             ELSE f[Chosen(S)] + SumFunctionOnSet(f, S \ {Chosen(S)})
<1> DEFINE R == S \ {Chosen(S)}
<1>1. PICK g : SumsUp(g, f, S) /\ SumFunctionOnSet(f, S) = g[S]
    BY SumsExist, SumIsSum
<1>2. IsFiniteSet(R)
    BY FS_Subset
<1>3. PICK h : SumsUp(h, f, R) /\ SumFunctionOnSet(f, R) = h[R]
    <2> HIDE DEF R
    <2> QED BY <1>2, SumsExist, SumIsSum
<1>4. g[R] = h[R]
    <2>1. R \subseteq S
        OBVIOUS
    <2> HIDE DEF R
    <2> QED BY <1>1, <1>3, <2>1, SumsAgree
<1>5. g[S] = IF S = {} THEN 0 ELSE f[Chosen(S)] + g[R]
    BY <1>1 DEF SumsUp
<1> QED BY <1>1, <1>3, <1>4, <1>5

LEMMA SumType ==
    ASSUME NEW f, NEW S, IsFiniteSet(S), \A x \in S : f[x] \in Int
    PROVE  SumFunctionOnSet(f, S) \in Int
<1> DEFINE Bad == {D \in SUBSET S : SumFunctionOnSet(f, D) \notin Int}
<1> SUFFICES ASSUME Bad # {} PROVE FALSE
    OBVIOUS
<1>0. Bad \subseteq SUBSET S
    OBVIOUS
<1>1. PICK D \in Bad : \A E \in Bad : E \subseteq D => E = D
    <2> HIDE DEF Bad
    <2> QED BY <1>0, LeastSet
<1>2. IsFiniteSet(D)
    BY FS_Subset
<1>3. D # {} => Chosen(D) \in D
    BY DEF Chosen
<1>4. D # {} => SumFunctionOnSet(f, D \ {Chosen(D)}) \in Int
    BY <1>1, <1>3
<1>5. SumFunctionOnSet(f, D) = IF D = {} THEN 0
                               ELSE f[Chosen(D)] + SumFunctionOnSet(f, D \ {Chosen(D)})
    BY <1>2, SumChosen
<1> QED BY <1>3, <1>4, <1>5

\* Equal summands make equal sums.
LEMMA SumSame ==
    ASSUME NEW f, NEW g, NEW S, IsFiniteSet(S), \A x \in S : f[x] = g[x]
    PROVE  SumFunctionOnSet(f, S) = SumFunctionOnSet(g, S)
<1> DEFINE Bad == {D \in SUBSET S : SumFunctionOnSet(f, D) # SumFunctionOnSet(g, D)}
<1> SUFFICES ASSUME Bad # {} PROVE FALSE
    OBVIOUS
<1>0. Bad \subseteq SUBSET S
    OBVIOUS
<1>1. PICK D \in Bad : \A E \in Bad : E \subseteq D => E = D
    <2> HIDE DEF Bad
    <2> QED BY <1>0, LeastSet
<1>2. IsFiniteSet(D)
    BY FS_Subset
<1>3. D # {} => Chosen(D) \in D
    BY DEF Chosen
<1>4. D # {} => SumFunctionOnSet(f, D \ {Chosen(D)}) = SumFunctionOnSet(g, D \ {Chosen(D)})
    BY <1>1, <1>3
<1> HIDE DEF Bad
<1>5. SumFunctionOnSet(f, D) = IF D = {} THEN 0
                               ELSE f[Chosen(D)] + SumFunctionOnSet(f, D \ {Chosen(D)})
    BY <1>2, SumChosen
<1>6. SumFunctionOnSet(g, D) = IF D = {} THEN 0
                               ELSE g[Chosen(D)] + SumFunctionOnSet(g, D \ {Chosen(D)})
    BY <1>2, SumChosen
<1>7. D \in SUBSET S
    BY DEF Bad
<1>8. SumFunctionOnSet(f, D) = SumFunctionOnSet(g, D)
    BY <1>3, <1>4, <1>5, <1>6, <1>7
<1> QED BY <1>8 DEF Bad

\* Whichever element is taken out first.
LEMMA SumRemove ==
    ASSUME NEW f, NEW S, IsFiniteSet(S), \A y \in S : f[y] \in Int
    PROVE  \A x \in S : SumFunctionOnSet(f, S) = f[x] + SumFunctionOnSet(f, S \ {x})
<1> DEFINE Bad == {D \in SUBSET S :
                    \E x \in D : SumFunctionOnSet(f, D) # f[x] + SumFunctionOnSet(f, D \ {x})}
<1> SUFFICES ASSUME Bad # {} PROVE FALSE
    OBVIOUS
<1>0. Bad \subseteq SUBSET S
    OBVIOUS
<1>1. PICK D \in Bad : \A E \in Bad : E \subseteq D => E = D
    <2> HIDE DEF Bad
    <2> QED BY <1>0, LeastSet
<1>2. PICK x \in D : SumFunctionOnSet(f, D) # f[x] + SumFunctionOnSet(f, D \ {x})
    OBVIOUS
<1>3. PICK c \in D : c = Chosen(D)
    BY <1>2 DEF Chosen
<1>4. D \in SUBSET S /\ D \ {x} \in SUBSET S /\ D \ {c} \in SUBSET S
      /\ D \ {x} # D /\ D \ {c} # D
    OBVIOUS
<1>5. D \ {x} \notin Bad /\ D \ {c} \notin Bad
    BY <1>1, <1>4
<1>6. IsFiniteSet(D) /\ IsFiniteSet((D \ {x}) \ {c})
    BY <1>4, FS_Subset
<1>7. SumFunctionOnSet(f, D) = f[c] + SumFunctionOnSet(f, D \ {c})
    BY <1>3, <1>6, SumChosen
<1>8. c # x
    BY <1>2, <1>7
<1>9. /\ SumFunctionOnSet(f, D \ {x}) = f[c] + SumFunctionOnSet(f, (D \ {x}) \ {c})
      /\ SumFunctionOnSet(f, D \ {c}) = f[x] + SumFunctionOnSet(f, (D \ {c}) \ {x})
    <2>1. c \in D \ {x} /\ x \in D \ {c}
        BY <1>8
    <2> QED BY <1>4, <1>5, <2>1
<1>10. (D \ {x}) \ {c} = (D \ {c}) \ {x}
    OBVIOUS
<1>11. f[x] \in Int /\ f[c] \in Int /\ SumFunctionOnSet(f, (D \ {x}) \ {c}) \in Int
    <2>1. \A y \in (D \ {x}) \ {c} : f[y] \in Int
        BY <1>4
    <2> QED BY <1>4, <1>6, <2>1, SumType
<1> DEFINE z == SumFunctionOnSet(f, (D \ {x}) \ {c})
<1>12. SumFunctionOnSet(f, D) = f[c] + (f[x] + z)
    BY <1>7, <1>9, <1>10
<1>13. f[x] + SumFunctionOnSet(f, D \ {x}) = f[x] + (f[c] + z)
    BY <1>9
<1> HIDE DEF z
<1>14. f[c] + (f[x] + z) = f[x] + (f[c] + z)
    BY <1>11 DEF z
<1> QED BY <1>2, <1>12, <1>13, <1>14

LEMMA SumEmpty ==
    ASSUME NEW f
    PROVE  SumFunctionOnSet(f, {}) = 0
BY SumChosen, FS_EmptySet

LEMMA SumAdd ==
    ASSUME NEW f, NEW S, IsFiniteSet(S), \A y \in S : f[y] \in Int,
           NEW x, x \notin S, f[x] \in Int
    PROVE  SumFunctionOnSet(f, S \union {x}) = f[x] + SumFunctionOnSet(f, S)
<1>1. IsFiniteSet(S \union {x})
    BY FS_AddElement
<1>2. (S \union {x}) \ {x} = S /\ \A y \in S \union {x} : f[y] \in Int
    OBVIOUS
<1> QED BY <1>1, <1>2, SumRemove

\* A sum changes by what one summand changes.
LEMMA SumChange ==
    ASSUME NEW f, NEW g, NEW S, IsFiniteSet(S), \A y \in S : f[y] \in Int,
           NEW x \in S, NEW delta \in Int, g[x] = f[x] + delta,
           \A y \in S \ {x} : g[y] = f[y]
    PROVE  SumFunctionOnSet(g, S) = SumFunctionOnSet(f, S) + delta
<1>1. IsFiniteSet(S \ {x})
    BY FS_RemoveElement
<1>2. \A y \in S : g[y] \in Int
    OBVIOUS
<1>3. SumFunctionOnSet(f, S) = f[x] + SumFunctionOnSet(f, S \ {x})
    BY SumRemove
<1>4. SumFunctionOnSet(g, S) = g[x] + SumFunctionOnSet(g, S \ {x})
    BY <1>2, SumRemove
<1>5. SumFunctionOnSet(g, S \ {x}) = SumFunctionOnSet(f, S \ {x})
    BY <1>1, SumSame
<1>6. SumFunctionOnSet(f, S \ {x}) \in Int
    BY <1>1, SumType
<1> QED BY <1>3, <1>4, <1>5, <1>6

\* A sum of zeros.
LEMMA SumZero ==
    ASSUME NEW f, NEW S, IsFiniteSet(S), \A x \in S : f[x] = 0
    PROVE  SumFunctionOnSet(f, S) = 0
<1> DEFINE Bad == {D \in SUBSET S : SumFunctionOnSet(f, D) # 0}
<1> SUFFICES ASSUME Bad # {} PROVE FALSE
    OBVIOUS
<1>0. Bad \subseteq SUBSET S
    OBVIOUS
<1>1. PICK D \in Bad : \A E \in Bad : E \subseteq D => E = D
    <2> HIDE DEF Bad
    <2> QED BY <1>0, LeastSet
<1>2. D \in SUBSET S /\ IsFiniteSet(D)
    BY FS_Subset
<1>3. SumFunctionOnSet(f, D) = IF D = {} THEN 0
                               ELSE f[Chosen(D)] + SumFunctionOnSet(f, D \ {Chosen(D)})
    BY <1>2, SumChosen
<1>4. CASE D = {}
    BY <1>3, <1>4
<1>5. CASE D # {}
    <2>1. Chosen(D) \in D
        BY <1>5 DEF Chosen
    <2>2. D \ {Chosen(D)} \notin Bad /\ f[Chosen(D)] = 0
        BY <1>1, <1>2, <2>1
    <2>3. SumFunctionOnSet(f, D \ {Chosen(D)}) = 0
        BY <1>2, <2>2
    <2> QED BY <1>3, <1>5, <2>2, <2>3
<1> QED BY <1>4, <1>5

Numbers(S) == S \subseteq Int

LEMMA MaxOfSet ==
    ASSUME NEW S, IsFiniteSet(S), Numbers(S), S # {}
    PROVE  Max(S) \in S /\ \A y \in S : Max(S) >= y
<1> DEFINE Bad == {D \in SUBSET S : D # {} /\ ~\E x \in D : \A y \in D : x >= y}
<1>1. Bad = {}
    <2> SUFFICES ASSUME Bad # {} PROVE FALSE
        OBVIOUS
    <2>1. Bad \subseteq SUBSET S
        OBVIOUS
    <2>2. PICK D \in Bad : \A E \in Bad : E \subseteq D => E = D
        <3> HIDE DEF Bad
        <3> QED BY <2>1, LeastSet
    <2>3. PICK x \in D : TRUE
        OBVIOUS
    <2>4. D \ {x} \in SUBSET S /\ D \ {x} # D /\ D \ {x} \subseteq D
        OBVIOUS
    <2>5. D \ {x} \notin Bad
        BY <2>2, <2>4
    <2>6. CASE D = {x}
        BY <2>6 DEF Numbers
    <2>7. CASE D # {x}
        <3>1. PICK m \in D \ {x} : \A y \in D \ {x} : m >= y
            BY <2>4, <2>5, <2>7
        <3>2. m \in Int /\ x \in Int /\ \A y \in D : y \in Int
            BY DEF Numbers
        <3>3. \A y \in D : y = x \/ m >= y
            BY <3>1
        <3>4. CASE m >= x
            BY <3>1, <3>3, <3>4
        <3>5. CASE x >= m
            BY <3>2, <3>3, <3>5
        <3> QED BY <3>2, <3>4, <3>5
    <2> QED BY <2>6, <2>7
<1>2. \E x \in S : \A y \in S : x >= y
    BY <1>1
<1> QED BY <1>2 DEF Max

\* The function on the subsets of D that ExecuteAll, of l and transactions indexed by D,
\* is a value of.
Folds(g, l, txs, D) ==
    g = [s \in SUBSET D |-> IF s = {} THEN [ok |-> TRUE, ledger |-> l]
                            ELSE TryExecute(g[s \ {Max(s)}], txs[Max(s)])]

LEMMA ExecuteAllIsFold ==
    ASSUME NEW l, NEW txs
    PROVE  ExecuteAll(l, txs) = (CHOOSE g : Folds(g, l, txs, DOMAIN txs))[DOMAIN txs]
BY DEF ExecuteAll, FoldLeft, MapThenFoldSet, Folds

LEMMA FoldsAgree ==
    ASSUME NEW l, NEW txs, NEW g, NEW D, Folds(g, l, txs, D), IsFiniteSet(D), Numbers(D),
           NEW more, NEW h, NEW E, Folds(h, l, more, E)
    PROVE  \A s : s \subseteq D /\ s \subseteq E /\ (\A i \in s : txs[i] = more[i])
                  => g[s] = h[s]
<1> DEFINE Bad == {s \in SUBSET D : /\ s \subseteq E /\ \A i \in s : txs[i] = more[i]
                                    /\ g[s] # h[s]}
<1> SUFFICES ASSUME Bad # {} PROVE FALSE
    OBVIOUS
<1>0. Bad \subseteq SUBSET D
    OBVIOUS
<1>1. PICK s \in Bad : \A t \in Bad : t \subseteq s => t = s
    <2> HIDE DEF Bad
    <2> QED BY <1>0, LeastSet
<1>a. s \subseteq D /\ s \subseteq E /\ \A i \in s : txs[i] = more[i]
    BY <1>1
<1>2. /\ g[s] = IF s = {} THEN [ok |-> TRUE, ledger |-> l]
                ELSE TryExecute(g[s \ {Max(s)}], txs[Max(s)])
      /\ h[s] = IF s = {} THEN [ok |-> TRUE, ledger |-> l]
                ELSE TryExecute(h[s \ {Max(s)}], more[Max(s)])
    <2> HIDE DEF Bad
    <2> QED BY <1>a DEF Folds
<1>3. s # {} => Max(s) \in s
    <2>1. IsFiniteSet(s) /\ Numbers(s)
        BY <1>a, FS_Subset DEF Numbers
    <2> QED BY <2>1, MaxOfSet
<1>4. CASE s = {}
    BY <1>2, <1>4
<1>5. CASE s # {}
    <2>1. s \ {Max(s)} \notin Bad
        BY <1>1, <1>3, <1>5
    <2>2. g[s \ {Max(s)}] = h[s \ {Max(s)}]
        BY <1>a, <2>1
    <2>3. txs[Max(s)] = more[Max(s)]
        BY <1>a, <1>3, <1>5
    <2>4. g[s] = h[s]
        BY <1>2, <1>5, <2>2, <2>3
    <2> QED BY <2>4
<1> QED BY <1>4, <1>5

LEMMA FoldsExist ==
    ASSUME NEW l, NEW txs, NEW S, IsFiniteSet(S), Numbers(S)
    PROVE  \E g : Folds(g, l, txs, S)
<1> DEFINE Bad == {D \in SUBSET S : ~\E g : Folds(g, l, txs, D)}
<1> SUFFICES ASSUME Bad # {} PROVE FALSE
    OBVIOUS
<1>0. Bad \subseteq SUBSET S
    OBVIOUS
<1>1. PICK D \in Bad : \A E \in Bad : E \subseteq D => E = D
    <2> HIDE DEF Bad
    <2> QED BY <1>0, LeastSet
<1> DEFINE Fold(E) == (CHOOSE h : Folds(h, l, txs, E))[E]
           g == [s \in SUBSET D |-> IF s = {} THEN [ok |-> TRUE, ledger |-> l]
                                    ELSE TryExecute(Fold(s \ {Max(s)}), txs[Max(s)])]
<1>2. ASSUME NEW E \in SUBSET D, E # D
      PROVE  \E h : Folds(h, l, txs, E) /\ h[E] = Fold(E)
    BY <1>1, <1>2
<1>6. \A s \in SUBSET D : IsFiniteSet(s) /\ Numbers(s) /\ (s # {} => Max(s) \in s)
    <2>1. \A s \in SUBSET D : IsFiniteSet(s) /\ Numbers(s)
        BY FS_Subset DEF Numbers
    <2> QED BY <2>1, MaxOfSet
<1>3. ASSUME NEW E \in SUBSET D, E # D
      PROVE  g[E] = Fold(E)
    <2>1. PICK h : Folds(h, l, txs, E) /\ h[E] = Fold(E)
        BY <1>2, <1>3
    <2>2. h[E] = IF E = {} THEN [ok |-> TRUE, ledger |-> l]
                 ELSE TryExecute(h[E \ {Max(E)}], txs[Max(E)])
        BY <2>1 DEF Folds
    <2>3. CASE E = {}
        BY <2>1, <2>2, <2>3
    <2>4. CASE E # {}
        <3>1. E \ {Max(E)} \in SUBSET D /\ E \ {Max(E)} # D
            BY <1>3
        <3>2. PICK i : Folds(i, l, txs, E \ {Max(E)}) /\ i[E \ {Max(E)}] = Fold(E \ {Max(E)})
            BY <1>2, <3>1
        <3>3. IsFiniteSet(E) /\ Numbers(E)
            BY <1>6
        <3>4. h[E \ {Max(E)}] = i[E \ {Max(E)}]
            <4> DEFINE R == E \ {Max(E)}
            <4>1. R \subseteq E
                OBVIOUS
            <4>2. Folds(h, l, txs, E) /\ Folds(i, l, txs, R)
                BY <2>1, <3>2
            <4> HIDE DEF R
            <4>3. h[R] = i[R]
                <5>1. R \subseteq R /\ \A j \in R : txs[j] = txs[j]
                    OBVIOUS
                <5> QED BY <3>3, <4>1, <4>2, <5>1, FoldsAgree
            <4> QED BY <4>3 DEF R
        <3>5. g[E] = TryExecute(Fold(E \ {Max(E)}), txs[Max(E)])
            BY <2>4
        <3> QED BY <2>1, <2>2, <2>4, <3>2, <3>4, <3>5
    <2> QED BY <2>3, <2>4
<1>5. Folds(g, l, txs, D)
    <2>1. \A s \in SUBSET D : s # {} => g[s \ {Max(s)}] = Fold(s \ {Max(s)})
        BY <1>3, <1>6
    <2> HIDE DEF Fold
    <2> QED BY <2>1 DEF Folds
<1> QED BY <1>5

LEMMA ExecuteNone ==
    ASSUME NEW l
    PROVE  ExecuteAll(l, <<>>) = [ok |-> TRUE, ledger |-> l]
<1>1. DOMAIN << >> = {}
    OBVIOUS
<1>2. PICK g : Folds(g, l, <<>>, {}) /\ ExecuteAll(l, <<>>) = g[{}]
    BY <1>1, ExecuteAllIsFold, FoldsExist, FS_EmptySet DEF Numbers
<1> QED BY <1>2 DEF Folds

LEMMA ExecuteMore ==
    ASSUME NEW l, NEW S, NEW txs \in Seq(S), NEW tx \in S
    PROVE  ExecuteAll(l, Append(txs, tx)) = TryExecute(ExecuteAll(l, txs), tx)
<1> DEFINE n == Len(txs)
           more == Append(txs, tx)
<1>1. /\ n \in Nat /\ DOMAIN txs = 1..n /\ DOMAIN more = 1..n + 1
      /\ more[n + 1] = tx /\ \A i \in 1..n : more[i] = txs[i]
    OBVIOUS
<1>2. IsFiniteSet(1..n) /\ IsFiniteSet(1..n + 1)
    BY <1>1, FS_Interval
<1> HIDE DEF n, more
<1>3. PICK g : Folds(g, l, txs, 1..n) /\ ExecuteAll(l, txs) = g[1..n]
    <2>1. Numbers(1..n)
        BY <1>1 DEF Numbers
    <2> QED BY <1>1, <1>2, <2>1, ExecuteAllIsFold, FoldsExist
<1>4. PICK h : Folds(h, l, more, 1..n + 1) /\ ExecuteAll(l, more) = h[1..n + 1]
    <2>1. Numbers(1..n + 1)
        BY <1>1 DEF Numbers
    <2> QED BY <1>1, <1>2, <2>1, ExecuteAllIsFold, FoldsExist
<1>5. g[1..n] = h[1..n]
    <2>1. Numbers(1..n) /\ 1..n \subseteq 1..n + 1 /\ 1..n \subseteq 1..n
        BY <1>1 DEF Numbers
    <2>2. \A i \in 1..n : txs[i] = more[i]
        BY <1>1
    <2> DEFINE D == 1..n
               E == 1..n + 1
    <2>3. /\ IsFiniteSet(D) /\ Numbers(D) /\ D \subseteq D /\ D \subseteq E
          /\ Folds(g, l, txs, D) /\ Folds(h, l, more, E) /\ \A i \in D : txs[i] = more[i]
        BY <1>2, <1>3, <1>4, <2>1, <2>2
    <2> HIDE DEF D, E
    <2>4. g[D] = h[D]
        BY <2>3, FoldsAgree
    <2> QED BY <2>4 DEF D
<1>6. Max(1..n + 1) = n + 1
    <2>1. /\ Numbers(1..n + 1) /\ 1..n + 1 # {} /\ n + 1 \in 1..n + 1
        BY <1>1 DEF Numbers
    <2>2. Max(1..n + 1) \in 1..n + 1 /\ Max(1..n + 1) >= n + 1
        BY <1>2, <2>1, MaxOfSet
    <2> QED BY <1>1, <2>2
<1>7. (1..n + 1) \ {n + 1} = 1..n /\ 1..n + 1 # {}
    <2>1. \A i : i \in 1..n + 1 <=> i \in 1..n \/ i = n + 1
        BY <1>1
    <2>2. n + 1 \notin 1..n
        BY <1>1
    <2> QED BY <2>1, <2>2
<1>8. h[1..n + 1] = TryExecute(h[1..n], more[n + 1])
    BY <1>4, <1>6, <1>7 DEF Folds
<1> QED BY <1>1, <1>3, <1>4, <1>5, <1>8 DEF more

----------------------------------------------------------------------------
\* The values of a key.
AccountValues == [available : Nat, locked : Nat, nonce : Nat]
DelegateValues == [name : Names, votes : Int]

Values(k) ==
    CASE k[1] = "account" -> AccountValues
      [] k[1] = "delegate" -> DelegateValues \union {None}
      [] k[1] = "name" -> Accounts \union {None}
      [] k[1] = "vote" -> Int

IsLedger(l) ==
    /\ DOMAIN l = Keys /\ l = [k \in Keys |-> l[k]]
    /\ \A k \in Keys : l[k] \in Values(k)

Nonce(l, a) == Account(l, a).nonce

\* NamesMatch, of any ledger.
NamesMatched(l) ==
    \A n \in Names, a \in Accounts :
        l[NameKey(n)] = a <=> l[DelegateKey(a)] # None /\ l[DelegateKey(a)].name = n

\* VotesMatch and CoinsConserved, of any ledger.
VotesMatched(l) ==
    /\ \A a \in Accounts : Account(l, a).locked = VotesBy(l, a)
    /\ \A d \in Accounts :
          VotesFor(l, d) = IF l[DelegateKey(d)] = None THEN 0 ELSE l[DelegateKey(d)].votes

Coins(l, a) == Account(l, a).available + Account(l, a).locked
Burn(tx) == IF tx.type = "DELEGATE" THEN tx.value ELSE 0
Minted(n) == SumFunctionOnSet(Premine, Accounts) + n * BlockReward

SameLocked(m, l) == \A a \in Accounts : Account(m, a).locked = Account(l, a).locked

----------------------------------------------------------------------------
LEMMA KeysAreKeys ==
    /\ \A a \in Accounts : AccountKey(a) \in Keys /\ DelegateKey(a) \in Keys
    /\ \A n \in Names : NameKey(n) \in Keys
    /\ \A d, v \in Accounts : VoteKey(d, v) \in Keys
BY DEF Keys

LEMMA KeysApart ==
    /\ \A a, b : AccountKey(a) # DelegateKey(b) /\ AccountKey(a) # NameKey(b)
                 /\ DelegateKey(a) # NameKey(b)
    /\ \A a, d, v : AccountKey(a) # VoteKey(d, v) /\ DelegateKey(a) # VoteKey(d, v)
                    /\ NameKey(a) # VoteKey(d, v)
    /\ \A a, b : /\ AccountKey(a) = AccountKey(b) => a = b
                 /\ DelegateKey(a) = DelegateKey(b) => a = b
                 /\ NameKey(a) = NameKey(b) => a = b
    /\ \A c, d, v, w : VoteKey(c, v) = VoteKey(d, w) => c = d /\ v = w
<1>1. /\ \A a : AccountKey(a)[1] = "account" /\ AccountKey(a)[2] = a
      /\ \A a : DelegateKey(a)[1] = "delegate" /\ DelegateKey(a)[2] = a
      /\ \A a : NameKey(a)[1] = "name" /\ NameKey(a)[2] = a
      /\ \A d, v : VoteKey(d, v)[1] = "vote" /\ VoteKey(d, v)[2] = d /\ VoteKey(d, v)[3] = v
    BY DEF AccountKey, DelegateKey, NameKey, VoteKey
<1> QED BY <1>1

LEMMA KeyValues ==
    /\ \A a : Values(AccountKey(a)) = AccountValues
    /\ \A a : Values(DelegateKey(a)) = DelegateValues \union {None}
    /\ \A n : Values(NameKey(n)) = Accounts \union {None}
    /\ \A d, v : Values(VoteKey(d, v)) = Int
BY DEF Values, AccountKey, DelegateKey, NameKey, VoteKey

LEMMA LedgerValues ==
    ASSUME NEW l, IsLedger(l)
    PROVE  /\ \A a \in Accounts : Account(l, a) \in AccountValues
           /\ \A a \in Accounts : l[DelegateKey(a)] \in DelegateValues \union {None}
           /\ \A n \in Names : l[NameKey(n)] \in Accounts \union {None}
           /\ \A d, v \in Accounts : l[VoteKey(d, v)] \in Int
BY KeysAreKeys, KeyValues DEF IsLedger, Account

LEMMA DefaultIsValue ==
    ASSUME NEW k \in Keys
    PROVE  DefaultValue(k) \in Values(k)
<1>1. CASE \E a \in Accounts : k = AccountKey(a)
    BY <1>1 DEF DefaultValue, Values, AccountKey, AccountValues
<1>2. CASE \E a \in Accounts : k = DelegateKey(a)
    BY <1>2 DEF DefaultValue, Values, DelegateKey
<1>3. CASE \E n \in Names : k = NameKey(n)
    BY <1>3 DEF DefaultValue, Values, NameKey
<1>4. CASE \E d, v \in Accounts : k = VoteKey(d, v)
    BY <1>4 DEF DefaultValue, Values, VoteKey
<1> QED BY <1>1, <1>2, <1>3, <1>4 DEF Keys

\* An overlay of values is a ledger.
LEMMA OverlayIsLedger ==
    ASSUME NEW u, \A k \in DOMAIN u : u[k] \in Values(k), NEW l, IsLedger(l)
    PROVE  IsLedger(Overlay(u, l))
BY DEF Overlay, IsLedger

----------------------------------------------------------------------------
\* The sums over a ledger when one account, or one vote, changes.
LEMMA LedgerSums ==
    ASSUME NEW l, IsLedger(l)
    PROVE  /\ Held(l) \in Int
           /\ \A a \in Accounts : VotesBy(l, a) \in Int /\ VotesFor(l, a) \in Int
<1>1. IsFiniteSet(Accounts)
    BY LedgerAssumption
<1>2. Held(l) \in Int
    <2> DEFINE f == [a \in Accounts |-> Account(l, a).available + Account(l, a).locked]
    <2>1. \A a \in Accounts : f[a] \in Int
        BY LedgerValues DEF AccountValues
    <2> HIDE DEF f
    <2>2. SumFunctionOnSet(f, Accounts) \in Int
        BY <1>1, <2>1, SumType
    <2> QED BY <2>2 DEF f, Held
<1>3. ASSUME NEW a \in Accounts PROVE VotesBy(l, a) \in Int
    <2> DEFINE f == [d \in Accounts |-> l[VoteKey(d, a)]]
    <2>1. \A d \in Accounts : f[d] \in Int
        BY LedgerValues
    <2> HIDE DEF f
    <2>2. SumFunctionOnSet(f, Accounts) \in Int
        BY <1>1, <2>1, SumType
    <2> QED BY <2>2 DEF f, VotesBy
<1>4. ASSUME NEW d \in Accounts PROVE VotesFor(l, d) \in Int
    <2> DEFINE f == [a \in Accounts |-> l[VoteKey(d, a)]]
    <2>1. \A a \in Accounts : f[a] \in Int
        BY LedgerValues
    <2> HIDE DEF f
    <2>2. SumFunctionOnSet(f, Accounts) \in Int
        BY <1>1, <2>1, SumType
    <2> QED BY <2>2 DEF f, VotesFor
<1> QED BY <1>2, <1>3, <1>4

LEMMA HeldChange ==
    ASSUME NEW l, IsLedger(l), NEW m, NEW a \in Accounts, NEW delta \in Int,
           Coins(m, a) = Coins(l, a) + delta,
           \A b \in Accounts : b # a => Account(m, b) = Account(l, b)
    PROVE  Held(m) = Held(l) + delta
<1> DEFINE f == [b \in Accounts |-> Account(l, b).available + Account(l, b).locked]
           g == [b \in Accounts |-> Account(m, b).available + Account(m, b).locked]
<1>1. IsFiniteSet(Accounts)
    BY LedgerAssumption
<1>2. \A b \in Accounts : f[b] \in Int
    BY LedgerValues DEF AccountValues
<1>3. g[a] = f[a] + delta /\ \A b \in Accounts \ {a} : g[b] = f[b]
    BY DEF Coins
<1> HIDE DEF f, g
<1>4. SumFunctionOnSet(g, Accounts) = SumFunctionOnSet(f, Accounts) + delta
    BY <1>1, <1>2, <1>3, SumChange
<1> QED BY <1>4 DEF f, g, Held

LEMMA HeldSame ==
    ASSUME NEW l, NEW m, \A a \in Accounts : Coins(m, a) = Coins(l, a)
    PROVE  Held(m) = Held(l)
<1>1. [b \in Accounts |-> Account(m, b).available + Account(m, b).locked]
      = [b \in Accounts |-> Account(l, b).available + Account(l, b).locked]
    BY DEF Coins
<1> QED BY <1>1 DEF Held

LEMMA VotesChange ==
    ASSUME NEW l, IsLedger(l), NEW m, NEW voter \in Accounts, NEW d \in Accounts,
           NEW delta \in Int, m[VoteKey(d, voter)] = l[VoteKey(d, voter)] + delta,
           \A c, v \in Accounts : VoteKey(c, v) # VoteKey(d, voter)
                                  => m[VoteKey(c, v)] = l[VoteKey(c, v)]
    PROVE  /\ VotesBy(m, voter) = VotesBy(l, voter) + delta
           /\ \A a \in Accounts : a # voter => VotesBy(m, a) = VotesBy(l, a)
           /\ VotesFor(m, d) = VotesFor(l, d) + delta
           /\ \A c \in Accounts : c # d => VotesFor(m, c) = VotesFor(l, c)
<1>1. IsFiniteSet(Accounts)
    BY LedgerAssumption
<1>2. \A c, v \in Accounts : c # d \/ v # voter => m[VoteKey(c, v)] = l[VoteKey(c, v)]
    BY KeysApart
<1>3. VotesBy(m, voter) = VotesBy(l, voter) + delta
    <2> DEFINE f == [c \in Accounts |-> l[VoteKey(c, voter)]]
               g == [c \in Accounts |-> m[VoteKey(c, voter)]]
    <2>1. \A c \in Accounts : f[c] \in Int
        BY LedgerValues
    <2>2. g[d] = f[d] + delta /\ \A c \in Accounts \ {d} : g[c] = f[c]
        BY <1>2
    <2> HIDE DEF f, g
    <2>3. SumFunctionOnSet(g, Accounts) = SumFunctionOnSet(f, Accounts) + delta
        BY <1>1, <2>1, <2>2, SumChange
    <2> QED BY <2>3 DEF f, g, VotesBy
<1>4. VotesFor(m, d) = VotesFor(l, d) + delta
    <2> DEFINE f == [v \in Accounts |-> l[VoteKey(d, v)]]
               g == [v \in Accounts |-> m[VoteKey(d, v)]]
    <2>1. \A v \in Accounts : f[v] \in Int
        BY LedgerValues
    <2>2. g[voter] = f[voter] + delta /\ \A v \in Accounts \ {voter} : g[v] = f[v]
        BY <1>2
    <2> HIDE DEF f, g
    <2>3. SumFunctionOnSet(g, Accounts) = SumFunctionOnSet(f, Accounts) + delta
        BY <1>1, <2>1, <2>2, SumChange
    <2> QED BY <2>3 DEF f, g, VotesFor
<1>5. ASSUME NEW a \in Accounts, a # voter PROVE VotesBy(m, a) = VotesBy(l, a)
    <2>1. [c \in Accounts |-> m[VoteKey(c, a)]] = [c \in Accounts |-> l[VoteKey(c, a)]]
        BY <1>2, <1>5
    <2> QED BY <2>1 DEF VotesBy
<1>6. ASSUME NEW c \in Accounts, c # d PROVE VotesFor(m, c) = VotesFor(l, c)
    <2>1. [v \in Accounts |-> m[VoteKey(c, v)]] = [v \in Accounts |-> l[VoteKey(c, v)]]
        BY <1>2, <1>6
    <2> QED BY <2>1 DEF VotesFor
<1> QED BY <1>3, <1>4, <1>5, <1>6

LEMMA VotesSame ==
    ASSUME NEW l, NEW m, \A c, v \in Accounts : m[VoteKey(c, v)] = l[VoteKey(c, v)]
    PROVE  \A a \in Accounts : VotesBy(m, a) = VotesBy(l, a) /\ VotesFor(m, a) = VotesFor(l, a)
<1> SUFFICES ASSUME NEW a \in Accounts
             PROVE  VotesBy(m, a) = VotesBy(l, a) /\ VotesFor(m, a) = VotesFor(l, a)
    OBVIOUS
<1>1. [c \in Accounts |-> m[VoteKey(c, a)]] = [c \in Accounts |-> l[VoteKey(c, a)]]
    OBVIOUS
<1>2. [v \in Accounts |-> m[VoteKey(a, v)]] = [v \in Accounts |-> l[VoteKey(a, v)]]
    OBVIOUS
<1> QED BY <1>1, <1>2 DEF VotesBy, VotesFor

----------------------------------------------------------------------------
\* What the operations do to a ledger.
PutKeyValue(l, k, v) == [l EXCEPT ![k] = v]

LEMMA PutKey ==
    ASSUME NEW l, IsLedger(l), NEW k \in Keys, NEW v \in Values(k)
    PROVE  /\ IsLedger(PutKeyValue(l, k, v)) /\ PutKeyValue(l, k, v)[k] = v
           /\ \A j \in Keys : j # k => PutKeyValue(l, k, v)[j] = l[j]
BY DEF IsLedger, PutKeyValue

LEMMA AdjustAvailableEffect ==
    ASSUME NEW l, IsLedger(l), NEW a \in Accounts, NEW delta \in Int,
           Account(l, a).available + delta \in Nat, NEW m, m = AdjustAvailable(l, a, delta)
    PROVE  /\ IsLedger(m)
           /\ Account(m, a) = [Account(l, a) EXCEPT !.available = @ + delta]
           /\ \A j \in Keys : j # AccountKey(a) => m[j] = l[j]
           /\ Held(m) = Held(l) + delta
           /\ SameLocked(m, l)
<1> DEFINE v == [Account(l, a) EXCEPT !.available = @ + delta]
<1>1. v \in AccountValues
    BY LedgerValues DEF AccountValues
<1>2. m = PutKeyValue(l, AccountKey(a), v)
    BY DEF AdjustAvailable, Account, PutKeyValue
<1>3. AccountKey(a) \in Keys /\ v \in Values(AccountKey(a))
    BY <1>1, KeysAreKeys, KeyValues
<1>4. /\ IsLedger(m) /\ m[AccountKey(a)] = v
      /\ \A j \in Keys : j # AccountKey(a) => m[j] = l[j]
    <2> HIDE DEF v
    <2> QED BY <1>2, <1>3, PutKey
<1>5. Account(m, a) = v /\ Account(l, a) \in AccountValues
    BY <1>4, LedgerValues DEF Account
<1>6. \A b \in Accounts : b # a => Account(m, b) = Account(l, b)
    BY <1>4, KeysAreKeys, KeysApart DEF Account
<1>7. Coins(m, a) = Coins(l, a) + delta
    BY <1>5 DEF Coins, AccountValues
<1>8. Held(m) = Held(l) + delta
    BY <1>6, <1>7, HeldChange
<1>9. SameLocked(m, l)
    BY <1>5, <1>6 DEF SameLocked, AccountValues
<1> QED BY <1>4, <1>5, <1>8, <1>9

LEMMA AdjustLockedEffect ==
    ASSUME NEW l, IsLedger(l), NEW a \in Accounts, NEW delta \in Int,
           Account(l, a).locked + delta \in Nat, NEW m, m = AdjustLocked(l, a, delta)
    PROVE  /\ IsLedger(m)
           /\ Account(m, a) = [Account(l, a) EXCEPT !.locked = @ + delta]
           /\ \A j \in Keys : j # AccountKey(a) => m[j] = l[j]
           /\ Held(m) = Held(l) + delta
<1> DEFINE v == [Account(l, a) EXCEPT !.locked = @ + delta]
<1>1. v \in AccountValues
    BY LedgerValues DEF AccountValues
<1>2. m = PutKeyValue(l, AccountKey(a), v)
    BY DEF AdjustLocked, Account, PutKeyValue
<1>3. AccountKey(a) \in Keys /\ v \in Values(AccountKey(a))
    BY <1>1, KeysAreKeys, KeyValues
<1>4. /\ IsLedger(m) /\ m[AccountKey(a)] = v
      /\ \A j \in Keys : j # AccountKey(a) => m[j] = l[j]
    <2> HIDE DEF v
    <2> QED BY <1>2, <1>3, PutKey
<1>5. Account(m, a) = v /\ Account(l, a) \in AccountValues
    BY <1>4, LedgerValues DEF Account
<1>6. \A b \in Accounts : b # a => Account(m, b) = Account(l, b)
    BY <1>4, KeysAreKeys, KeysApart DEF Account
<1>7. Coins(m, a) = Coins(l, a) + delta
    BY <1>5 DEF Coins, AccountValues
<1>8. Held(m) = Held(l) + delta
    BY <1>6, <1>7, HeldChange
<1> QED BY <1>4, <1>5, <1>8

LEMMA IncreaseNonceEffect ==
    ASSUME NEW l, IsLedger(l), NEW a \in Accounts, NEW m, m = IncreaseNonce(l, a)
    PROVE  /\ IsLedger(m)
           /\ Account(m, a) = [Account(l, a) EXCEPT !.nonce = @ + 1]
           /\ \A j \in Keys : j # AccountKey(a) => m[j] = l[j]
           /\ Held(m) = Held(l) /\ SameLocked(m, l)
<1> DEFINE v == [Account(l, a) EXCEPT !.nonce = @ + 1]
<1>1. v \in AccountValues
    BY LedgerValues DEF AccountValues
<1>2. m = PutKeyValue(l, AccountKey(a), v)
    BY DEF IncreaseNonce, Account, PutKeyValue
<1>3. AccountKey(a) \in Keys /\ v \in Values(AccountKey(a))
    BY <1>1, KeysAreKeys, KeyValues
<1>4. /\ IsLedger(m) /\ m[AccountKey(a)] = v
      /\ \A j \in Keys : j # AccountKey(a) => m[j] = l[j]
    <2> HIDE DEF v
    <2> QED BY <1>2, <1>3, PutKey
<1>5. Account(m, a) = v /\ Account(l, a) \in AccountValues
    BY <1>4, LedgerValues DEF Account
<1>6. \A b \in Accounts : b # a => Account(m, b) = Account(l, b)
    BY <1>4, KeysAreKeys, KeysApart DEF Account
<1>7. \A b \in Accounts : Coins(m, b) = Coins(l, b)
    BY <1>5, <1>6 DEF Coins, AccountValues
<1>8. Held(m) = Held(l)
    BY <1>7, HeldSame
<1>9. SameLocked(m, l)
    BY <1>5, <1>6 DEF SameLocked, AccountValues
<1> QED BY <1>4, <1>5, <1>8, <1>9

LEMMA RegisterEffect ==
    ASSUME NEW l, IsLedger(l), NEW a \in Accounts, NEW name \in Names,
           NEW m, m = Register(l, a, name)
    PROVE  /\ IsLedger(m)
           /\ m[DelegateKey(a)] = [name |-> name, votes |-> 0] /\ m[NameKey(name)] = a
           /\ \A j \in Keys : j \notin {DelegateKey(a), NameKey(name)} => m[j] = l[j]
<1> DEFINE v == [name |-> name, votes |-> 0]
           n == PutKeyValue(l, DelegateKey(a), v)
<1>1. v \in DelegateValues
    BY DEF DelegateValues
<1>a. DelegateKey(a) \in Keys /\ v \in Values(DelegateKey(a))
    BY <1>1, KeysAreKeys, KeyValues
<1>b. NameKey(name) \in Keys /\ a \in Values(NameKey(name))
    BY KeysAreKeys, KeyValues
<1>2. /\ IsLedger(n) /\ n[DelegateKey(a)] = v
      /\ \A j \in Keys : j # DelegateKey(a) => n[j] = l[j]
    <2> HIDE DEF v
    <2> QED BY <1>a, PutKey
<1>3. m = PutKeyValue(n, NameKey(name), a)
    BY DEF Register, PutKeyValue
<1>4. /\ IsLedger(m) /\ m[NameKey(name)] = a
      /\ \A j \in Keys : j # NameKey(name) => m[j] = n[j]
    <2> HIDE DEF n
    <2> QED BY <1>2, <1>3, <1>b, PutKey
<1>5. DelegateKey(a) # NameKey(name)
    BY KeysApart
<1> HIDE DEF n
<1> QED BY <1>2, <1>4, <1>5, <1>a

LEMMA AdjustVotesEffect ==
    ASSUME NEW l, IsLedger(l), NEW voter \in Accounts, NEW d \in Accounts, NEW delta \in Int,
           l[DelegateKey(d)] # None, NEW m, m = AdjustVotes(l, voter, d, delta)
    PROVE  /\ IsLedger(m)
           /\ m[DelegateKey(d)] \in DelegateValues
           /\ m[DelegateKey(d)].name = l[DelegateKey(d)].name
           /\ m[DelegateKey(d)].votes = l[DelegateKey(d)].votes + delta
           /\ m[VoteKey(d, voter)] = l[VoteKey(d, voter)] + delta
           /\ \A j \in Keys : j \notin {DelegateKey(d), VoteKey(d, voter)} => m[j] = l[j]
<1> DEFINE w == [l[DelegateKey(d)] EXCEPT !.votes = @ + delta]
           n == PutKeyValue(l, VoteKey(d, voter), l[VoteKey(d, voter)] + delta)
<1>1. l[VoteKey(d, voter)] + delta \in Int
    BY LedgerValues
<1>a. VoteKey(d, voter) \in Keys /\ l[VoteKey(d, voter)] + delta \in Values(VoteKey(d, voter))
    BY <1>1, KeysAreKeys, KeyValues
<1>2. /\ IsLedger(n) /\ n[VoteKey(d, voter)] = l[VoteKey(d, voter)] + delta
      /\ \A j \in Keys : j # VoteKey(d, voter) => n[j] = l[j]
    BY <1>a, PutKey
<1>3. /\ w \in DelegateValues /\ w.name = l[DelegateKey(d)].name
      /\ w.votes = l[DelegateKey(d)].votes + delta
    BY LedgerValues DEF DelegateValues
<1>b. DelegateKey(d) \in Keys /\ w \in Values(DelegateKey(d))
    BY <1>3, KeysAreKeys, KeyValues
<1>4. n[DelegateKey(d)] = l[DelegateKey(d)]
    BY <1>2, KeysAreKeys, KeysApart
<1>5. m = PutKeyValue(n, DelegateKey(d), w)
    BY <1>4 DEF AdjustVotes, PutKeyValue
<1>6. /\ IsLedger(m) /\ m[DelegateKey(d)] = w
      /\ \A j \in Keys : j # DelegateKey(d) => m[j] = n[j]
    <2> HIDE DEF n, w
    <2> QED BY <1>2, <1>5, <1>b, PutKey
<1>7. m[VoteKey(d, voter)] = n[VoteKey(d, voter)]
    BY <1>6, <1>a, KeysApart
<1> HIDE DEF n, w
<1> QED BY <1>2, <1>3, <1>6, <1>7

\* The four kinds of transaction, before the nonce is increased.
SameNonces(m, l) == \A a \in Accounts : Nonce(m, a) = Nonce(l, a)
SameBut(m, l, keys) == \A k \in Keys : k \notin keys => m[k] = l[k]

LEMMA TransactionFields ==
    ASSUME NEW tx \in Transactions
    PROVE  /\ tx.type \in {"TRANSFER", "DELEGATE", "VOTE", "UNVOTE"}
           /\ tx.from \in Accounts /\ tx.to \in Accounts
           /\ tx.value \in Nat /\ tx.nonce \in Nat /\ tx.fee \in Nat
           /\ tx.name \in Names \union {None}
BY PendingAssumption

LEMMA TransferEffect ==
    ASSUME NEW l, IsLedger(l), NEW tx \in Transactions, Affords(tx, l)
    PROVE  LET m == Transfer(tx, l) IN
           /\ IsLedger(m) /\ SameNonces(m, l) /\ SameLocked(m, l)
           /\ Held(m) = Held(l) - tx.fee
           /\ SameBut(m, l, {AccountKey(tx.from), AccountKey(tx.to)})
<1> DEFINE n == AdjustAvailable(l, tx.from, -(tx.value + tx.fee))
           m == AdjustAvailable(n, tx.to, tx.value)
<1>1. /\ tx.from \in Accounts /\ tx.to \in Accounts /\ -(tx.value + tx.fee) \in Int
      /\ tx.value \in Int /\ tx.value \in Nat
      /\ Account(l, tx.from).available + -(tx.value + tx.fee) \in Nat
    BY TransactionFields, LedgerValues DEF Affords, AccountValues
<1>2. /\ IsLedger(n)
      /\ Account(n, tx.from) = [Account(l, tx.from) EXCEPT !.available = @ + -(tx.value + tx.fee)]
      /\ \A j \in Keys : j # AccountKey(tx.from) => n[j] = l[j]
      /\ Held(n) = Held(l) + -(tx.value + tx.fee) /\ SameLocked(n, l)
    BY <1>1, AdjustAvailableEffect
<1>3. SameNonces(n, l)
    BY <1>2, LedgerValues, KeysAreKeys, KeysApart DEF SameNonces, Nonce, Account, AccountValues
<1> HIDE DEF n
<1>4. Account(n, tx.to).available + tx.value \in Nat
    BY <1>1, <1>2, LedgerValues DEF AccountValues
<1>5. /\ IsLedger(m)
      /\ Account(m, tx.to) = [Account(n, tx.to) EXCEPT !.available = @ + tx.value]
      /\ \A j \in Keys : j # AccountKey(tx.to) => m[j] = n[j]
      /\ Held(m) = Held(n) + tx.value /\ SameLocked(m, n)
    BY <1>1, <1>2, <1>4, AdjustAvailableEffect
<1>6. SameNonces(m, n)
    BY <1>2, <1>5, LedgerValues, KeysAreKeys, KeysApart DEF SameNonces, Nonce, Account, AccountValues
<1>7. m = Transfer(tx, l)
    BY DEF Transfer, n
<1> HIDE DEF m
<1>8. SameNonces(m, l)
    BY <1>3, <1>6 DEF SameNonces
<1>9. SameBut(m, l, {AccountKey(tx.from), AccountKey(tx.to)})
    BY <1>2, <1>5 DEF SameBut
<1>10. Held(m) = Held(l) - tx.fee
    <2>1. Held(l) \in Int /\ tx.fee \in Int
        BY LedgerSums, TransactionFields
    <2> QED BY <1>1, <1>2, <1>5, <2>1
<1>11. SameLocked(m, l)
    BY <1>2, <1>5 DEF SameLocked
<1> QED BY <1>5, <1>7, <1>8, <1>9, <1>10, <1>11

LEMMA DelegateEffect ==
    ASSUME NEW l, IsLedger(l), NEW tx \in Transactions, Affords(tx, l), tx.name # None
    PROVE  LET m == Delegate(tx, l) IN
           /\ IsLedger(m) /\ SameNonces(m, l) /\ SameLocked(m, l)
           /\ Held(m) = Held(l) - (tx.value + tx.fee)
           /\ m[DelegateKey(tx.from)] = [name |-> tx.name, votes |-> 0]
           /\ m[NameKey(tx.name)] = tx.from
           /\ SameBut(m, l, {AccountKey(tx.from), DelegateKey(tx.from), NameKey(tx.name)})
<1> DEFINE n == Register(l, tx.from, tx.name)
           m == AdjustAvailable(n, tx.from, -(tx.value + tx.fee))
<1>1. /\ tx.from \in Accounts /\ tx.name \in Names /\ -(tx.value + tx.fee) \in Int
      /\ Account(l, tx.from).available + -(tx.value + tx.fee) \in Nat
    BY TransactionFields, LedgerValues DEF Affords, AccountValues
<1>2. /\ IsLedger(n)
      /\ n[DelegateKey(tx.from)] = [name |-> tx.name, votes |-> 0]
      /\ n[NameKey(tx.name)] = tx.from
      /\ \A j \in Keys : j \notin {DelegateKey(tx.from), NameKey(tx.name)} => n[j] = l[j]
    BY <1>1, RegisterEffect
<1> HIDE DEF n
<1>3. \A a \in Accounts : Account(n, a) = Account(l, a)
    BY <1>2, KeysAreKeys, KeysApart DEF Account
<1>5. /\ IsLedger(m)
      /\ Account(m, tx.from) = [Account(n, tx.from) EXCEPT !.available = @ + -(tx.value + tx.fee)]
      /\ \A j \in Keys : j # AccountKey(tx.from) => m[j] = n[j]
      /\ Held(m) = Held(n) + -(tx.value + tx.fee) /\ SameLocked(m, n)
    BY <1>1, <1>2, <1>3, AdjustAvailableEffect
<1>6. SameNonces(m, n)
    BY <1>2, <1>5, LedgerValues, KeysAreKeys, KeysApart DEF SameNonces, Nonce, Account, AccountValues
<1>7. m = Delegate(tx, l)
    BY DEF Delegate, n
<1> HIDE DEF m
<1>8. SameNonces(m, l)
    BY <1>3, <1>6 DEF SameNonces, Nonce
<1>9. SameBut(m, l, {AccountKey(tx.from), DelegateKey(tx.from), NameKey(tx.name)})
    BY <1>2, <1>5 DEF SameBut
<1>10. /\ m[DelegateKey(tx.from)] = [name |-> tx.name, votes |-> 0]
       /\ m[NameKey(tx.name)] = tx.from
    <2>1. /\ DelegateKey(tx.from) \in Keys /\ DelegateKey(tx.from) # AccountKey(tx.from)
          /\ NameKey(tx.name) \in Keys /\ NameKey(tx.name) # AccountKey(tx.from)
        BY <1>1, KeysAreKeys, KeysApart
    <2> QED BY <1>2, <1>5, <2>1
<1>11. Held(m) = Held(l) - (tx.value + tx.fee)
    <2>1. Held(n) = Held(l)
        BY <1>3, HeldSame DEF Coins
    <2>2. Held(l) \in Int /\ tx.fee \in Int /\ tx.value \in Int
        BY LedgerSums, TransactionFields
    <2> QED BY <1>5, <2>1, <2>2
<1>12. SameLocked(m, l)
    BY <1>3, <1>5 DEF SameLocked
<1> QED BY <1>5, <1>7, <1>8, <1>9, <1>10, <1>11, <1>12

Voted(m, l, tx, earned) ==
    /\ IsLedger(m) /\ SameNonces(m, l)
    /\ m[DelegateKey(tx.to)] \in DelegateValues
    /\ m[DelegateKey(tx.to)].name = l[DelegateKey(tx.to)].name
    /\ SameBut(m, l, {AccountKey(tx.from), DelegateKey(tx.to), VoteKey(tx.to, tx.from)})
    /\ Held(m) = Held(l) + earned
    /\ VotesMatched(l) => VotesMatched(m)

\* delta is the amount of a vote, or minus that of an unvote; spent and kept are what
\* the two put into the balances.
LEMMA VotesEffect ==
    ASSUME NEW l, IsLedger(l), NEW tx \in Transactions, l[DelegateKey(tx.to)] # None,
           NEW delta \in Int, NEW spent \in Int,
           Account(l, tx.from).available + spent \in Nat,
           Account(l, tx.from).locked + delta \in Nat,
           NEW m, m = AdjustLocked(AdjustAvailable(AdjustVotes(l, tx.from, tx.to, delta),
                                                   tx.from, spent), tx.from, delta)
    PROVE  Voted(m, l, tx, spent + delta)
<1> DEFINE v == AdjustVotes(l, tx.from, tx.to, delta)
           n == AdjustAvailable(v, tx.from, spent)
<1>9. m = AdjustLocked(n, tx.from, delta)
    OBVIOUS
<1>1. tx.from \in Accounts /\ tx.to \in Accounts
    BY TransactionFields
<1>2. /\ IsLedger(v)
      /\ v[DelegateKey(tx.to)] \in DelegateValues
      /\ v[DelegateKey(tx.to)].name = l[DelegateKey(tx.to)].name
      /\ v[DelegateKey(tx.to)].votes = l[DelegateKey(tx.to)].votes + delta
      /\ v[VoteKey(tx.to, tx.from)] = l[VoteKey(tx.to, tx.from)] + delta
      /\ \A j \in Keys : j \notin {DelegateKey(tx.to), VoteKey(tx.to, tx.from)} => v[j] = l[j]
    BY <1>1, AdjustVotesEffect
<1> HIDE DEF v
<1>3. \A a \in Accounts : Account(v, a) = Account(l, a)
    BY <1>2, KeysAreKeys, KeysApart DEF Account
<1>4. /\ IsLedger(n)
      /\ Account(n, tx.from) = [Account(v, tx.from) EXCEPT !.available = @ + spent]
      /\ \A j \in Keys : j # AccountKey(tx.from) => n[j] = v[j]
      /\ Held(n) = Held(v) + spent /\ SameLocked(n, v)
    BY <1>1, <1>2, <1>3, AdjustAvailableEffect
<1>5. SameNonces(n, v)
    BY <1>2, <1>4, LedgerValues, KeysAreKeys, KeysApart DEF SameNonces, Nonce, Account, AccountValues
<1>6. Account(n, tx.from).locked + delta \in Nat
    BY <1>1, <1>2, <1>3, <1>4, LedgerValues DEF AccountValues
<1> HIDE DEF n
<1>7. /\ IsLedger(m)
      /\ Account(m, tx.from) = [Account(n, tx.from) EXCEPT !.locked = @ + delta]
      /\ \A j \in Keys : j # AccountKey(tx.from) => m[j] = n[j]
      /\ Held(m) = Held(n) + delta
    <2>1. IsLedger(n)
        BY <1>4
    <2> QED BY <1>1, <1>6, <1>9, <2>1, AdjustLockedEffect
<1>8. SameNonces(m, n)
    <2>1. Account(n, tx.from) \in AccountValues
        BY <1>1, <1>4, LedgerValues
    <2>2. Nonce(m, tx.from) = Nonce(n, tx.from)
        BY <1>7, <2>1 DEF Nonce, AccountValues
    <2>3. \A a \in Accounts : a # tx.from => Account(m, a) = Account(n, a)
        BY <1>7, KeysAreKeys, KeysApart DEF Account
    <2> QED BY <2>2, <2>3 DEF SameNonces, Nonce
<1>10. SameNonces(m, l)
    BY <1>3, <1>5, <1>8 DEF SameNonces, Nonce
<1>11. SameBut(m, l, {AccountKey(tx.from), DelegateKey(tx.to), VoteKey(tx.to, tx.from)})
    BY <1>2, <1>4, <1>7 DEF SameBut
<1>12. m[DelegateKey(tx.to)] = v[DelegateKey(tx.to)]
    BY <1>1, <1>4, <1>7, KeysAreKeys, KeysApart
<1>13. Held(m) = Held(l) + (spent + delta)
    <2>1. Held(v) = Held(l)
        BY <1>3, HeldSame DEF Coins
    <2>2. Held(l) \in Int
        BY LedgerSums
    <2> QED BY <1>4, <1>7, <2>1, <2>2
<1>14. ASSUME VotesMatched(l) PROVE VotesMatched(m)
    <2>1. /\ \A c \in Accounts : m[DelegateKey(c)] = v[DelegateKey(c)]
          /\ \A c, w \in Accounts : m[VoteKey(c, w)] = v[VoteKey(c, w)]
        <3>1. \A j \in Keys : j # AccountKey(tx.from) => m[j] = v[j]
            BY <1>4, <1>7
        <3>2. \A c \in Accounts : m[DelegateKey(c)] = v[DelegateKey(c)]
            BY <3>1, KeysAreKeys, KeysApart
        <3>3. \A c, w \in Accounts : m[VoteKey(c, w)] = v[VoteKey(c, w)]
            BY <3>1, KeysAreKeys, KeysApart
        <3> QED BY <3>2, <3>3
    <2>2. /\ m[VoteKey(tx.to, tx.from)] = l[VoteKey(tx.to, tx.from)] + delta
          /\ \A c, w \in Accounts : VoteKey(c, w) # VoteKey(tx.to, tx.from)
                                     => m[VoteKey(c, w)] = l[VoteKey(c, w)]
        <3>1. \A c, w \in Accounts : VoteKey(c, w) \in Keys /\ VoteKey(c, w) # DelegateKey(tx.to)
            BY KeysAreKeys, KeysApart
        <3> QED BY <1>1, <1>2, <2>1, <3>1
    <2>3. /\ VotesBy(m, tx.from) = VotesBy(l, tx.from) + delta
          /\ \A a \in Accounts : a # tx.from => VotesBy(m, a) = VotesBy(l, a)
          /\ VotesFor(m, tx.to) = VotesFor(l, tx.to) + delta
          /\ \A c \in Accounts : c # tx.to => VotesFor(m, c) = VotesFor(l, c)
        BY <1>1, <2>2, VotesChange
    <2>4. \A a \in Accounts : Account(m, a).locked = VotesBy(m, a)
        <3>1. \A a \in Accounts : Account(l, a).locked = VotesBy(l, a)
            BY <1>14 DEF VotesMatched
        <3>2. \A a \in Accounts : a # tx.from => Account(m, a) = Account(n, a)
            BY <1>7, KeysAreKeys, KeysApart DEF Account
        <3>3. Account(m, tx.from).locked = Account(n, tx.from).locked + delta
            BY <1>1, <1>4, <1>7, LedgerValues DEF AccountValues
        <3>4. \A a \in Accounts : Account(n, a).locked = Account(l, a).locked
            BY <1>3, <1>4 DEF SameLocked
        <3> QED BY <1>1, <2>3, <3>1, <3>2, <3>3, <3>4
    <2>5. ASSUME NEW c \in Accounts
          PROVE  VotesFor(m, c) = IF m[DelegateKey(c)] = None THEN 0
                                  ELSE m[DelegateKey(c)].votes
        <3>1. VotesFor(l, c) = IF l[DelegateKey(c)] = None THEN 0 ELSE l[DelegateKey(c)].votes
            BY <1>14 DEF VotesMatched
        <3>2. CASE c = tx.to
            <4>1. m[DelegateKey(tx.to)] # None
                BY <1>2, <1>12, PendingAssumption DEF DelegateValues
            <4> QED BY <1>2, <1>12, <2>3, <3>1, <3>2, <4>1
        <3>3. CASE c # tx.to
            <4>1. m[DelegateKey(c)] = l[DelegateKey(c)]
                <5>1. DelegateKey(c) \in Keys /\ DelegateKey(c) # DelegateKey(tx.to)
                      /\ DelegateKey(c) # VoteKey(tx.to, tx.from)
                    BY <3>3, KeysAreKeys, KeysApart
                <5> QED BY <1>2, <2>1, <5>1
            <4> QED BY <2>3, <3>1, <3>3, <4>1
        <3> QED BY <3>2, <3>3
    <2> QED BY <2>4, <2>5 DEF VotesMatched
<1> QED BY <1>2, <1>7, <1>10, <1>11, <1>12, <1>13, <1>14 DEF Voted

\* What a transaction that succeeds does to the ledger.
LEMMA ExecuteEffect ==
    ASSUME NEW l, IsLedger(l), NEW tx \in Transactions, Succeeds(tx, l)
    PROVE  LET m == Execute(tx, l) IN
           /\ IsLedger(m)
           /\ \A a \in Accounts : Nonce(m, a) = Nonce(l, a) + IF a = tx.from THEN 1 ELSE 0
           /\ \A k \in Keys : k \notin Written(tx) => m[k] = l[k]
           /\ NamesMatched(l) => NamesMatched(m)
           /\ VotesMatched(l) => VotesMatched(m)
           /\ Held(m) = Held(l) - (tx.fee + Burn(tx))
<1> DEFINE n == CASE tx.type = "TRANSFER" -> Transfer(tx, l)
                  [] tx.type = "DELEGATE" -> Delegate(tx, l)
                  [] tx.type = "VOTE" -> Vote(tx, l)
                  [] tx.type = "UNVOTE" -> Unvote(tx, l)
           m == IncreaseNonce(n, tx.from)
<1>1. /\ tx.type \in {"TRANSFER", "DELEGATE", "VOTE", "UNVOTE"}
      /\ tx.from \in Accounts /\ tx.to \in Accounts
      /\ tx.value \in Nat /\ tx.fee \in Nat
    BY TransactionFields
<1>2. AccountKey(tx.from) \in Written(tx)
    BY DEF Written
<1>0. Held(l) \in Int
    BY LedgerSums
<1>3. /\ IsLedger(n) /\ SameNonces(n, l) /\ SameBut(n, l, Written(tx))
      /\ NamesMatched(l) => NamesMatched(n)
      /\ VotesMatched(l) => VotesMatched(n)
      /\ Held(n) = Held(l) - (tx.fee + Burn(tx))
    <2>1. CASE tx.type = "TRANSFER"
        <3>1. Affords(tx, l) /\ n = Transfer(tx, l)
            BY <2>1 DEF Succeeds
        <3> HIDE DEF n
        <3>2. /\ IsLedger(n) /\ SameNonces(n, l) /\ SameLocked(n, l)
              /\ Held(n) = Held(l) - tx.fee
              /\ SameBut(n, l, {AccountKey(tx.from), AccountKey(tx.to)})
            BY <3>1, TransferEffect
        <3>3. SameBut(n, l, Written(tx))
            BY <2>1, <3>2 DEF Written, SameBut
        <3>a. \A k \in Keys : k \notin {AccountKey(tx.from), AccountKey(tx.to)} => n[k] = l[k]
            BY <3>2 DEF SameBut
        <3>b. /\ \A a \in Accounts : n[DelegateKey(a)] = l[DelegateKey(a)]
              /\ \A b \in Names : n[NameKey(b)] = l[NameKey(b)]
            BY <3>a, KeysAreKeys, KeysApart
        <3>4. NamesMatched(l) => NamesMatched(n)
            BY <3>b DEF NamesMatched
        <3>5. VotesMatched(l) => VotesMatched(n)
            <4>1. \A c, v \in Accounts : n[VoteKey(c, v)] = l[VoteKey(c, v)]
                BY <3>a, KeysAreKeys, KeysApart
            <4>2. \A a \in Accounts : /\ VotesBy(n, a) = VotesBy(l, a)
                                     /\ VotesFor(n, a) = VotesFor(l, a)
                BY <4>1, VotesSame
            <4> QED BY <3>2, <3>b, <4>2 DEF VotesMatched, SameLocked
        <3>6. tx.fee + Burn(tx) = tx.fee
            BY <1>1, <2>1 DEF Burn
        <3> QED BY <3>2, <3>3, <3>4, <3>5, <3>6
    <2>2. CASE tx.type = "DELEGATE"
        <3>1. /\ Affords(tx, l) /\ n = Delegate(tx, l) /\ tx.name # None
              /\ l[DelegateKey(tx.from)] = None /\ l[NameKey(tx.name)] = None
            BY <2>2 DEF Succeeds, CanRegister
        <3> HIDE DEF n
        <3>2. /\ IsLedger(n) /\ SameNonces(n, l) /\ SameLocked(n, l)
              /\ Held(n) = Held(l) - (tx.value + tx.fee)
              /\ n[DelegateKey(tx.from)] = [name |-> tx.name, votes |-> 0]
              /\ n[NameKey(tx.name)] = tx.from
              /\ SameBut(n, l, {AccountKey(tx.from), DelegateKey(tx.from), NameKey(tx.name)})
            BY <3>1, DelegateEffect
        <3>3. SameBut(n, l, Written(tx))
            BY <2>2, <3>2 DEF Written, SameBut
        <3>4. /\ n[DelegateKey(tx.from)] # None /\ n[DelegateKey(tx.from)].name = tx.name
              /\ tx.name \in Names
            <4>1. tx.name \in Names
                BY <3>1, TransactionFields
            <4>2. n[DelegateKey(tx.from)] \in [name : Names, votes : Int]
                BY <3>2, <4>1
            <4> QED BY <3>2, <4>1, <4>2, PendingAssumption
        <3>5. /\ \A a \in Accounts : a # tx.from => n[DelegateKey(a)] = l[DelegateKey(a)]
              /\ \A b \in Names : b # tx.name => n[NameKey(b)] = l[NameKey(b)]
            BY <3>2, KeysAreKeys, KeysApart DEF SameBut
        <3>6. ASSUME NamesMatched(l), NEW b \in Names, NEW a \in Accounts
              PROVE  n[NameKey(b)] = a <=>
                         n[DelegateKey(a)] # None /\ n[DelegateKey(a)].name = b
            <4>1. \A c \in Names, d \in Accounts :
                    l[NameKey(c)] = d <=> l[DelegateKey(d)] # None /\ l[DelegateKey(d)].name = c
                BY <3>6 DEF NamesMatched
            <4>2. CASE a = tx.from /\ b = tx.name
                BY <3>2, <3>4, <4>2
            <4>3. CASE a = tx.from /\ b # tx.name
                BY <1>1, <3>1, <3>4, <3>5, <4>1, <4>3
            <4>4. CASE a # tx.from /\ b = tx.name
                BY <1>1, <3>1, <3>2, <3>4, <3>5, <4>1, <4>4, PendingAssumption
            <4>5. CASE a # tx.from /\ b # tx.name
                BY <3>5, <4>1, <4>5
            <4> QED BY <4>2, <4>3, <4>4, <4>5
        <3>7. NamesMatched(l) => NamesMatched(n)
            BY <3>6 DEF NamesMatched
        <3>8. ASSUME VotesMatched(l) PROVE VotesMatched(n)
            <4>1. \A c, v \in Accounts : n[VoteKey(c, v)] = l[VoteKey(c, v)]
                BY <3>2, KeysAreKeys, KeysApart DEF SameBut
            <4>2. \A a \in Accounts : /\ VotesBy(n, a) = VotesBy(l, a)
                                     /\ VotesFor(n, a) = VotesFor(l, a)
                BY <4>1, VotesSame
            <4>3. VotesFor(l, tx.from) = 0 /\ n[DelegateKey(tx.from)].votes = 0
                BY <1>1, <3>1, <3>2, <3>8 DEF VotesMatched
            <4> QED BY <1>1, <3>2, <3>4, <3>5, <3>8, <4>2, <4>3 DEF VotesMatched, SameLocked
        <3>9. tx.fee + Burn(tx) = tx.value + tx.fee
            BY <1>1, <2>2 DEF Burn
        <3> QED BY <3>2, <3>3, <3>7, <3>8, <3>9
    <2>3. ASSUME tx.type \in {"VOTE", "UNVOTE"}, l[DelegateKey(tx.to)] # None,
                 NEW earned \in Int, Voted(n, l, tx, earned),
                 \A h \in Int : h + earned = h - (tx.fee + Burn(tx))
          PROVE  /\ IsLedger(n) /\ SameNonces(n, l) /\ SameBut(n, l, Written(tx))
                 /\ NamesMatched(l) => NamesMatched(n)
                 /\ VotesMatched(l) => VotesMatched(n)
                 /\ Held(n) = Held(l) - (tx.fee + Burn(tx))
        <3> HIDE DEF n
        <3>a. /\ IsLedger(n) /\ SameNonces(n, l)
              /\ n[DelegateKey(tx.to)] \in DelegateValues
              /\ n[DelegateKey(tx.to)].name = l[DelegateKey(tx.to)].name
              /\ SameBut(n, l, {AccountKey(tx.from), DelegateKey(tx.to),
                                VoteKey(tx.to, tx.from)})
              /\ VotesMatched(l) => VotesMatched(n)
              /\ Held(n) = Held(l) - (tx.fee + Burn(tx))
            BY <1>0, <2>3 DEF Voted
        <3>1. SameBut(n, l, Written(tx))
            BY <2>3, <3>a DEF Written, SameBut
        <3>2. /\ \A a \in Accounts : a # tx.to => n[DelegateKey(a)] = l[DelegateKey(a)]
              /\ \A b \in Names : n[NameKey(b)] = l[NameKey(b)]
            <4>1. \A k \in Keys : k \notin {AccountKey(tx.from), DelegateKey(tx.to),
                                           VoteKey(tx.to, tx.from)} => n[k] = l[k]
                BY <3>a DEF SameBut
            <4>2. \A a \in Accounts : a # tx.to => n[DelegateKey(a)] = l[DelegateKey(a)]
                BY <4>1, KeysAreKeys, KeysApart
            <4>3. \A b \in Names : n[NameKey(b)] = l[NameKey(b)]
                BY <4>1, KeysAreKeys, KeysApart
            <4> QED BY <4>2, <4>3
        <3>3. n[DelegateKey(tx.to)] # None
            BY <3>a, PendingAssumption DEF DelegateValues
        <3>4. NamesMatched(l) => NamesMatched(n)
            BY <2>3, <3>a, <3>2, <3>3 DEF NamesMatched
        <3> QED BY <3>a, <3>1, <3>4
    <2>4. CASE tx.type = "VOTE"
        <3>1. Affords(tx, l) /\ n = Vote(tx, l) /\ l[DelegateKey(tx.to)] # None
            BY <2>4 DEF Succeeds
        <3> HIDE DEF n
        <3>2. /\ tx.value \in Int /\ -(tx.value + tx.fee) \in Int
              /\ Account(l, tx.from).available + -(tx.value + tx.fee) \in Nat
              /\ Account(l, tx.from).locked + tx.value \in Nat
            BY <1>1, <3>1, LedgerValues DEF Affords, AccountValues
        <3>3. n = AdjustLocked(AdjustAvailable(AdjustVotes(l, tx.from, tx.to, tx.value),
                                               tx.from, -(tx.value + tx.fee)),
                               tx.from, tx.value)
            BY <3>1 DEF Vote
        <3>4. Voted(n, l, tx, -(tx.value + tx.fee) + tx.value)
            <4> DEFINE spent == -(tx.value + tx.fee)
                       delta == tx.value
            <4>1. /\ delta \in Int /\ spent \in Int
                  /\ Account(l, tx.from).available + spent \in Nat
                  /\ Account(l, tx.from).locked + delta \in Nat
                  /\ n = AdjustLocked(AdjustAvailable(AdjustVotes(l, tx.from, tx.to, delta),
                                                      tx.from, spent), tx.from, delta)
                BY <3>2, <3>3
            <4> HIDE DEF spent, delta
            <4>2. Voted(n, l, tx, spent + delta)
                BY <3>1, <4>1, VotesEffect
            <4> QED BY <4>2 DEF spent, delta
        <3>5. \A h \in Int : h + (-(tx.value + tx.fee) + tx.value) = h - (tx.fee + Burn(tx))
            BY <1>1, <2>4 DEF Burn
        <3>6. -(tx.value + tx.fee) + tx.value \in Int
            BY <1>1
        <3> QED BY <2>3, <2>4, <3>1, <3>4, <3>5, <3>6
    <2>5. CASE tx.type = "UNVOTE"
        <3>1. /\ tx.fee <= Account(l, tx.from).available
              /\ tx.value <= Account(l, tx.from).locked
              /\ n = Unvote(tx, l) /\ l[DelegateKey(tx.to)] # None
            BY <2>5 DEF Succeeds
        <3> HIDE DEF n
        <3>2. /\ -tx.value \in Int /\ tx.value - tx.fee \in Int
              /\ Account(l, tx.from).available + (tx.value - tx.fee) \in Nat
              /\ Account(l, tx.from).locked + -tx.value \in Nat
            BY <1>1, <3>1, LedgerValues DEF AccountValues
        <3>3. n = AdjustLocked(AdjustAvailable(AdjustVotes(l, tx.from, tx.to, -tx.value),
                                               tx.from, tx.value - tx.fee),
                               tx.from, -tx.value)
            BY <3>1 DEF Unvote
        <3>4. Voted(n, l, tx, (tx.value - tx.fee) + -tx.value)
            <4> DEFINE spent == tx.value - tx.fee
                       delta == -tx.value
            <4>1. /\ delta \in Int /\ spent \in Int
                  /\ Account(l, tx.from).available + spent \in Nat
                  /\ Account(l, tx.from).locked + delta \in Nat
                  /\ n = AdjustLocked(AdjustAvailable(AdjustVotes(l, tx.from, tx.to, delta),
                                                      tx.from, spent), tx.from, delta)
                BY <3>2, <3>3
            <4> HIDE DEF spent, delta
            <4>2. Voted(n, l, tx, spent + delta)
                BY <3>1, <4>1, VotesEffect
            <4> QED BY <4>2 DEF spent, delta
        <3>5. \A h \in Int : h + ((tx.value - tx.fee) + -tx.value) = h - (tx.fee + Burn(tx))
            BY <1>1, <2>5 DEF Burn
        <3>6. (tx.value - tx.fee) + -tx.value \in Int
            BY <1>1
        <3> QED BY <2>3, <2>5, <3>1, <3>4, <3>5, <3>6
    <2> QED BY <1>1, <2>1, <2>2, <2>4, <2>5
<1>4. m = Execute(tx, l)
    BY DEF Execute
<1> HIDE DEF n
<1>5. /\ IsLedger(m)
      /\ Account(m, tx.from) = [Account(n, tx.from) EXCEPT !.nonce = @ + 1]
      /\ \A j \in Keys : j # AccountKey(tx.from) => m[j] = n[j]
      /\ Held(m) = Held(n) /\ SameLocked(m, n)
    BY <1>1, <1>3, IncreaseNonceEffect
<1> HIDE DEF m
<1>6. \A a \in Accounts : Nonce(m, a) = Nonce(l, a) + IF a = tx.from THEN 1 ELSE 0
    <2>1. Account(n, tx.from) \in AccountValues
        BY <1>1, <1>3, LedgerValues
    <2>2. Nonce(m, tx.from) = Nonce(n, tx.from) + 1
        BY <1>5, <2>1 DEF Nonce, AccountValues
    <2>3. \A a \in Accounts : a # tx.from => Nonce(m, a) = Nonce(n, a)
        BY <1>5, KeysAreKeys, KeysApart DEF Nonce, Account
    <2>4. \A a \in Accounts : Nonce(l, a) \in Nat
        BY LedgerValues DEF Nonce, AccountValues
    <2> QED BY <1>1, <1>3, <2>2, <2>3, <2>4 DEF SameNonces
<1>7. \A k \in Keys : k \notin Written(tx) => m[k] = l[k]
    BY <1>2, <1>3, <1>5 DEF SameBut
<1>8. NamesMatched(n) => NamesMatched(m)
    BY <1>5, KeysAreKeys, KeysApart DEF NamesMatched
<1>9. VotesMatched(n) => VotesMatched(m)
    <2>1. \A a \in Accounts : m[DelegateKey(a)] = n[DelegateKey(a)]
        BY <1>5, KeysAreKeys, KeysApart
    <2>2. \A c, v \in Accounts : m[VoteKey(c, v)] = n[VoteKey(c, v)]
        BY <1>5, KeysAreKeys, KeysApart
    <2>3. \A a \in Accounts : VotesBy(m, a) = VotesBy(n, a) /\ VotesFor(m, a) = VotesFor(n, a)
        BY <2>2, VotesSame
    <2> QED BY <1>5, <2>1, <2>3 DEF VotesMatched, SameLocked
<1> QED BY <1>3, <1>4, <1>5, <1>6, <1>7, <1>8, <1>9

----------------------------------------------------------------------------
\* The invariant, first the types.
Types ==
    /\ latest \in 0..MaxHeight /\ executed \subseteq Transactions
    /\ queue \in Seq(Transactions) /\ Len(queue) <= QUEUE_MAX_SIZE
    /\ pool \in Seq(Transactions) /\ toRevalidate \in Seq(Transactions)
    /\ delayed \subseteq Transactions /\ processed \subseteq Transactions
    /\ worker \in {"idle", "busy", "dead", "stopped"}
    /\ current \in Transactions \union {NoTx}
    /\ DOMAIN pending \subseteq Keys
    /\ \A k \in DOMAIN pending : pending[k] \in Values(k)
    /\ IsLedger(ledger)

IsBlock(b) ==
    /\ b = [phase |-> b.phase, coinbase |-> b.coinbase, ledger |-> b.ledger,
            txs |-> b.txs, fees |-> b.fees]
    /\ b.phase \in {"executing", "committing", "notifying", "revalidating"}
    /\ b.coinbase \in Coinbases /\ IsLedger(b.ledger)
    /\ b.txs \subseteq Transactions /\ b.fees \in Nat
    /\ b.phase \in {"executing", "committing"} => latest < MaxHeight

BlockTypes == block = NoBlock \/ IsBlock(block)

\* Names and votes are matched, and accounts are past the transactions that were executed,
\* in the chain's state and in the state of the block that is executed on it.
Spent(txs, l) == \A t \in txs : t.nonce < Nonce(l, t.from)

Chained ==
    /\ NamesMatched(ledger) /\ VotesMatched(ledger) /\ Spent(executed, ledger)
    /\ block.phase \in {"executing", "committing"}
       => /\ NamesMatched(block.ledger) /\ VotesMatched(block.ledger)
          /\ Spent(executed \union block.txs, block.ledger)

\* The coins of the chain's state, and of the block's: while it executes its fees are taken
\* and not yet given to the coinbase.
Coined ==
    /\ IsFiniteSet(executed)
    /\ Held(ledger) + Burned(executed) = Minted(latest)
    /\ block.phase \in {"executing", "committing"} => IsFiniteSet(block.txs)
    /\ block.phase = "executing" =>
          Held(block.ledger) + Burned(executed \union block.txs) + block.fees = Minted(latest)
    /\ block.phase = "committing" =>
          Held(block.ledger) + Burned(executed \union block.txs) = Minted(latest + 1)

\* The pool's transactions of an account lie between what the chain's state has executed
\* and what the pending state has, one after the other.
Fresh ==
    Settled =>
        /\ \A a \in Accounts : Nonce(ledger, a) <= Nonce(Overlay(pending, ledger), a)
        /\ \A i \in DOMAIN pool :
              /\ Nonce(ledger, pool[i].from) <= pool[i].nonce
              /\ pool[i].nonce < Nonce(Overlay(pending, ledger), pool[i].from)
        /\ \A i, j \in DOMAIN pool :
              i < j /\ pool[i].from = pool[j].from => pool[i].nonce < pool[j].nonce

Inv == Types /\ BlockTypes /\ Chained /\ Coined /\ Fresh /\ PoolExecutable

----------------------------------------------------------------------------
LEMMA BoundedSeqIsSeq ==
    ASSUME NEW S, NEW n \in Nat, NEW q \in Seq(S), Len(q) <= n
    PROVE  q \in BoundedSeq(S, n)
<1>1. Len(q) \in 0..n /\ q \in [1..Len(q) -> S]
    OBVIOUS
<1> QED BY <1>1 DEF BoundedSeq, SeqOf

LEMMA TypesImplyTypeOK == Types => TypeOK
<1> SUFFICES ASSUME Types PROVE TypeOK
    OBVIOUS
<1>1. queue \in BoundedSeq(Transactions, QUEUE_MAX_SIZE)
    BY BoundedSeqIsSeq, PendingAssumption DEF Types
<1>2. DOMAIN ledger = Keys
    BY DEF Types, IsLedger
<1>3. \A a \in Accounts : Account(ledger, a) \in [available : Nat, locked : Nat, nonce : Nat]
    BY LedgerValues DEF Types, AccountValues
<1> QED BY <1>1, <1>2, <1>3 DEF Types, TypeOK

LEMMA PutSubset ==
    ASSUME NEW cache, NEW tx, NEW max, NEW s \in Put(cache, tx, max)
    PROVE  s \subseteq cache \union {tx}
BY DEF Put

LEMMA WrittenAreKeys ==
    ASSUME NEW l, NEW tx \in Transactions, Succeeds(tx, l)
    PROVE  Written(tx) \subseteq Keys
<1>1. tx.type = "DELEGATE" => tx.name \in Names
    BY TransactionFields DEF Succeeds
<1> QED BY <1>1, TransactionFields, KeysAreKeys DEF Written

LEMMA SeenAreLedgers ==
    ASSUME Types, BlockTypes, NEW tx, NEW l \in Seen(tx)
    PROVE  IsLedger(l) /\ (~Phase("committing") => l = ledger)
<1>1. CASE ~Phase("committing")
    BY <1>1 DEF Seen, Types
<1>2. CASE Phase("committing")
    <2>1. IsLedger(ledger) /\ IsLedger(block.ledger)
        BY <1>2 DEF Phase, Types, BlockTypes, IsBlock
    <2> DEFINE changed == {k \in Written(tx) : block.ledger[k] # ledger[k]}
               Torn(new, torn) ==
                   [k \in Keys |-> IF k = torn THEN DefaultValue(k)
                                   ELSE IF k \in new THEN block.ledger[k] ELSE ledger[k]]
    <2>a. l \in {Torn(new, torn) : new \in SUBSET changed, torn \in changed \union {NoKey}}
        BY <1>2 DEF Seen
    <2>b. PICK new, torn : l = Torn(new, torn)
        <3> HIDE DEF Torn, changed
        <3> QED BY <2>a
    <2>2. l = [k \in Keys |-> IF k = torn THEN DefaultValue(k)
                              ELSE IF k \in new THEN block.ledger[k] ELSE ledger[k]]
        BY <2>b
    <2>3. \A k \in Keys : l[k] \in Values(k)
        BY <2>1, <2>2, DefaultIsValue DEF IsLedger
    <2> QED BY <1>2, <2>2, <2>3 DEF IsLedger
<1> QED BY <1>1, <1>2

----------------------------------------------------------------------------
LEMMA GenesisIsLedger == IsLedger(GenesisLedger) /\ NamesMatched(GenesisLedger)
<1>1. \A a \in Accounts :
        /\ GenesisLedger[AccountKey(a)] = [available |-> Premine[a], locked |-> 0, nonce |-> 0]
        /\ GenesisLedger[DelegateKey(a)] =
              IF \E n \in DOMAIN GenesisDelegates : GenesisDelegates[n] = a
              THEN [name |-> CHOOSE n \in DOMAIN GenesisDelegates : GenesisDelegates[n] = a,
                    votes |-> 0]
              ELSE None
    BY KeysAreKeys DEF GenesisLedger, AccountKey, DelegateKey
<1>2. \A n \in Names :
        GenesisLedger[NameKey(n)] = IF n \in DOMAIN GenesisDelegates THEN GenesisDelegates[n]
                                    ELSE None
    BY KeysAreKeys DEF GenesisLedger, NameKey
<1>3. \A d, v \in Accounts : GenesisLedger[VoteKey(d, v)] = 0
    BY KeysAreKeys DEF GenesisLedger, VoteKey
<1>4. ASSUME NEW a \in Accounts
      PROVE  /\ GenesisLedger[DelegateKey(a)] \in DelegateValues \union {None}
             /\ \A n \in Names :
                  GenesisLedger[NameKey(n)] = a <=>
                      /\ GenesisLedger[DelegateKey(a)] # None
                      /\ GenesisLedger[DelegateKey(a)].name = n
    <2>1. CASE \E n \in DOMAIN GenesisDelegates : GenesisDelegates[n] = a
        <3> DEFINE m == CHOOSE n \in DOMAIN GenesisDelegates : GenesisDelegates[n] = a
        <3>1. m \in DOMAIN GenesisDelegates /\ GenesisDelegates[m] = a
            BY <2>1
        <3>2. GenesisLedger[DelegateKey(a)] = [name |-> m, votes |-> 0]
            BY <1>1, <2>1
        <3> HIDE DEF m
        <3>3. GenesisLedger[DelegateKey(a)] \in [name : Names, votes : Int]
            BY <3>1, <3>2, PendingAssumption
        <3>4. \A n \in DOMAIN GenesisDelegates : GenesisDelegates[n] = a => n = m
            BY <3>1, PendingAssumption
        <3> QED BY <1>2, <3>1, <3>2, <3>3, <3>4, PendingAssumption DEF DelegateValues
    <2>2. CASE ~\E n \in DOMAIN GenesisDelegates : GenesisDelegates[n] = a
        <3>1. GenesisLedger[DelegateKey(a)] = None
            BY <1>1, <2>2
        <3>2. \A n \in Names : GenesisLedger[NameKey(n)] # a
            BY <1>2, <2>2, PendingAssumption
        <3> QED BY <3>1, <3>2
    <2> QED BY <2>1, <2>2
<1>5. \A k \in Keys : GenesisLedger[k] \in Values(k)
    <2> SUFFICES ASSUME NEW k \in Keys PROVE GenesisLedger[k] \in Values(k)
        OBVIOUS
    <2>1. CASE \E a \in Accounts : k = AccountKey(a)
        <3>1. PICK a \in Accounts : k = AccountKey(a)
            BY <2>1
        <3>2. Premine[a] \in Nat
            BY PendingAssumption
        <3>3. GenesisLedger[k] = [available |-> Premine[a], locked |-> 0, nonce |-> 0]
            BY <1>1, <3>1
        <3>4. GenesisLedger[k] \in AccountValues
            BY <3>2, <3>3 DEF AccountValues
        <3> QED BY <3>1, <3>4, KeyValues
    <2>2. CASE \E a \in Accounts : k = DelegateKey(a)
        BY <1>4, <2>2, KeyValues
    <2>3. CASE \E n \in Names : k = NameKey(n)
        BY <1>2, <2>3, KeyValues, PendingAssumption
    <2>4. CASE \E d, v \in Accounts : k = VoteKey(d, v)
        BY <1>3, <2>4, KeyValues
    <2> QED BY <2>1, <2>2, <2>3, <2>4 DEF Keys
<1>6. GenesisLedger = [k \in Keys |-> GenesisLedger[k]]
    <2> DEFINE T == UNION {Values(k) : k \in Keys}
    <2>1. GenesisLedger \in [Keys -> T]
        <3>1. \A k \in Keys : GenesisLedger[k] \in T
            BY <1>5
        <3> HIDE DEF T
        <3> QED BY <3>1 DEF GenesisLedger
    <2> HIDE DEF T
    <2> QED BY <2>1
<1>7. DOMAIN GenesisLedger = Keys
    BY DEF GenesisLedger
<1> QED BY <1>4, <1>5, <1>6, <1>7 DEF IsLedger, NamesMatched

LEMMA GenesisSums ==
    VotesMatched(GenesisLedger) /\ Held(GenesisLedger) = SumFunctionOnSet(Premine, Accounts)
<1>1. IsFiniteSet(Accounts) /\ \A a \in Accounts : Premine[a] \in Nat
    BY LedgerAssumption, PendingAssumption
<1>2. /\ \A a \in Accounts :
            GenesisLedger[AccountKey(a)]
            = [available |-> Premine[a], locked |-> 0, nonce |-> 0]
      /\ \A d, v \in Accounts : GenesisLedger[VoteKey(d, v)] = 0
    BY KeysAreKeys DEF GenesisLedger, AccountKey, VoteKey
<1>3. \A a \in Accounts : /\ Account(GenesisLedger, a).available = Premine[a]
                         /\ Account(GenesisLedger, a).locked = 0
    <2> SUFFICES ASSUME NEW a \in Accounts
                 PROVE  /\ Account(GenesisLedger, a).available = Premine[a]
                        /\ Account(GenesisLedger, a).locked = 0
        OBVIOUS
    <2>1. Account(GenesisLedger, a) = [available |-> Premine[a], locked |-> 0, nonce |-> 0]
        BY <1>2 DEF Account
    <2> QED BY <2>1
<1>4. \A a \in Accounts : GenesisLedger[DelegateKey(a)] # None
                         => GenesisLedger[DelegateKey(a)].votes = 0
    BY KeysAreKeys DEF GenesisLedger, DelegateKey
<1>5. Held(GenesisLedger) = SumFunctionOnSet(Premine, Accounts)
    <2> DEFINE f == [a \in Accounts |-> Account(GenesisLedger, a).available
                                       + Account(GenesisLedger, a).locked]
    <2>1. \A a \in Accounts : f[a] = Premine[a]
        BY <1>1, <1>3
    <2> HIDE DEF f
    <2>2. SumFunctionOnSet(f, Accounts) = SumFunctionOnSet(Premine, Accounts)
        BY <1>1, <2>1, SumSame
    <2> QED BY <2>2 DEF f, Held
<1>6. ASSUME NEW a \in Accounts
      PROVE  VotesBy(GenesisLedger, a) = 0 /\ VotesFor(GenesisLedger, a) = 0
    <2> DEFINE f == [d \in Accounts |-> GenesisLedger[VoteKey(d, a)]]
               g == [v \in Accounts |-> GenesisLedger[VoteKey(a, v)]]
    <2>1. \A b \in Accounts : f[b] = 0 /\ g[b] = 0
        BY <1>2
    <2> HIDE DEF f, g
    <2>2. SumFunctionOnSet(f, Accounts) = 0 /\ SumFunctionOnSet(g, Accounts) = 0
        BY <1>1, <2>1, SumZero
    <2> QED BY <2>2 DEF f, g, VotesBy, VotesFor
<1>7. VotesMatched(GenesisLedger)
    <2> QED BY <1>4, <1>6, <1>3 DEF VotesMatched
<1> QED BY <1>5, <1>7

LEMMA MintedNext ==
    ASSUME latest \in Nat
    PROVE  /\ Minted(latest) \in Int
           /\ Minted(latest + 1) = Minted(latest) + BlockReward
<1>1. SumFunctionOnSet(Premine, Accounts) \in Int
    BY SumType, LedgerAssumption, PendingAssumption
<1>2. BlockReward \in Int /\ latest \in Int
    BY PendingAssumption
<1>3. latest * BlockReward \in Int
    BY <1>2
<1>4. (latest + 1) * BlockReward = latest * BlockReward + BlockReward
    BY <1>2
<1> DEFINE p == SumFunctionOnSet(Premine, Accounts)
           q == latest * BlockReward
<1> HIDE DEF p, q
<1>5. /\ p \in Int /\ q \in Int
      /\ Minted(latest) = p + q /\ Minted(latest + 1) = p + (q + BlockReward)
    BY <1>1, <1>3, <1>4 DEF p, q, Minted
<1> QED BY <1>2, <1>5

LEMMA InitInv == Init => Inv
<1> SUFFICES ASSUME Init PROVE Inv
    OBVIOUS
<1>1. IsLedger(ledger) /\ NamesMatched(ledger)
    BY GenesisIsLedger DEF Init
<1>2. Types
    BY <1>1, PendingAssumption DEF Init, Types, Empty
<1>3. BlockTypes /\ Chained
    BY <1>1, GenesisSums DEF Init, BlockTypes, Chained, Spent, NoBlock
<1>5. Coined
    <2>1. IsFiniteSet(executed) /\ Burned(executed) = 0 /\ block.phase = "none"
        BY FS_EmptySet, SumEmpty DEF Init, Burned, NoBlock
    <2>2. SumFunctionOnSet(Premine, Accounts) \in Int
        BY SumType, LedgerAssumption, PendingAssumption
    <2>3. Minted(latest) = SumFunctionOnSet(Premine, Accounts)
        BY <2>2, PendingAssumption DEF Init, Minted
    <2> QED BY <2>1, <2>2, <2>3, GenesisSums DEF Init, Coined
<1>6. PoolExecutable
    <2>1. Overlay(pending, ledger) = ledger
        BY <1>1 DEF Init, Empty, Overlay, IsLedger
    <2> QED BY <2>1, ExecuteNone DEF Init, PoolExecutable
<1>4. Fresh
    <2>1. \A k \in Keys : Overlay(pending, ledger)[k] = ledger[k]
        BY DEF Init, Empty, Overlay
    <2>2. \A a \in Accounts : Nonce(ledger, a) \in Nat
                              /\ Nonce(Overlay(pending, ledger), a) = Nonce(ledger, a)
        BY <1>1, <2>1, LedgerValues, KeysAreKeys DEF Nonce, Account, AccountValues
    <2> QED BY <2>1, <2>2 DEF Init, Fresh
<1> QED BY <1>2, <1>3, <1>4, <1>5, <1>6 DEF Inv

----------------------------------------------------------------------------
\* One round of the loop, of which a transaction that succeeds is the only case that
\* touches the pool and the pending state.
Accepted ==
    \E l \in Seen(current) :
        LET view == Overlay(pending, l)
            after == Execute(current, view)
        IN
        /\ current.nonce = Nonce(view, current.from) /\ Succeeds(current, view)
        /\ pending' = [k \in DOMAIN pending \union Written(current) |-> after[k]]
        /\ pool' = Append(pool, current)

LEMMA IterateEffect ==
    ASSUME Types, BlockTypes, Iterate
    PROVE  /\ UNCHANGED <<chain, block, queue, processed>>
           /\ current \in Transactions
           /\ Accepted \/ UNCHANGED <<pending, pool>>
           /\ current' \in Transactions \union {NoTx} /\ delayed' \subseteq Transactions
           /\ toRevalidate' \in {toRevalidate, <<>>}
           /\ worker' \in {"idle", "busy", "dead", "stopped"}
           /\ worker = "stopped" <=> worker' = "stopped"
<1>1. current \in Transactions
    BY DEF Iterate, Types
<1>2. UNCHANGED <<chain, block, queue, processed>>
    BY DEF Iterate
<1>3. PICK l \in Seen(current) :
        LET view == Overlay(pending, l)
            nonce == Account(view, current.from).nonce
            next == {d \in delayed : d.from = current.from /\ d.nonce = nonce + 1}
        IN
        \/ /\ current.nonce = nonce /\ Succeeds(current, view)
           /\ LET after == Execute(current, view)
              IN pending' = [k \in DOMAIN pending \union Written(current) |-> after[k]]
           /\ pool' = Append(pool, current)
           /\ IF next = {} THEN Ends ELSE current' \in next /\ UNCHANGED worker
           /\ UNCHANGED <<delayed, toRevalidate>>
        \/ /\ current.nonce = nonce /\ ~Succeeds(current, view) /\ ~Throws(current, view)
           /\ Ends /\ UNCHANGED <<pending, pool, delayed, toRevalidate>>
        \/ /\ Throws(current, view)
           /\ current' = NoTx /\ toRevalidate' = <<>>
           /\ worker' = IF worker = "busy" THEN "dead" ELSE worker
           /\ UNCHANGED <<pending, pool, delayed>>
        \/ /\ current.nonce < nonce
           /\ Ends /\ UNCHANGED <<pending, pool, delayed, toRevalidate>>
        \/ /\ current.nonce > nonce
           /\ LET others == {d \in delayed : d.from # current.from \/ d.nonce # current.nonce}
              IN delayed' \in Put(others, current, DELAYED_MAX_SIZE)
           /\ Ends /\ UNCHANGED <<pending, pool, toRevalidate>>
    BY DEF Iterate
<1> DEFINE view == Overlay(pending, l)
           next == {d \in delayed : d.from = current.from
                                    /\ d.nonce = Account(view, current.from).nonce + 1}
           others == {d \in delayed : d.from # current.from \/ d.nonce # current.nonce}
<1>4. next \subseteq Transactions /\ others \subseteq Transactions
    BY DEF Types
<1>5. ASSUME Ends
      PROVE  /\ current' \in Transactions \union {NoTx}
             /\ worker' \in {"idle", "busy", "dead", "stopped"}
             /\ worker = "stopped" <=> worker' = "stopped"
    BY <1>5 DEF Ends, Types
<1>6. CASE /\ current.nonce = Nonce(view, current.from) /\ Succeeds(current, view)
           /\ pending' = [k \in DOMAIN pending \union Written(current)
                             |-> Execute(current, view)[k]]
           /\ pool' = Append(pool, current)
           /\ IF next = {} THEN Ends ELSE current' \in next /\ UNCHANGED worker
           /\ UNCHANGED <<delayed, toRevalidate>>
    <2>1. Accepted
        BY <1>6 DEF Accepted
    <2>2. /\ current' \in Transactions \union {NoTx}
          /\ worker' \in {"idle", "busy", "dead", "stopped"}
          /\ worker = "stopped" <=> worker' = "stopped"
        BY <1>4, <1>5, <1>6 DEF Types
    <2> QED BY <1>1, <1>2, <1>6, <2>1, <2>2 DEF Types
<1>7. CASE Ends /\ UNCHANGED <<pending, pool, delayed, toRevalidate>>
    BY <1>1, <1>2, <1>5, <1>7 DEF Types
<1>8. CASE /\ current' = NoTx /\ toRevalidate' = <<>>
           /\ worker' = IF worker = "busy" THEN "dead" ELSE worker
           /\ UNCHANGED <<pending, pool, delayed>>
    BY <1>1, <1>2, <1>8 DEF Types
<1>9. CASE /\ delayed' \in Put(others, current, DELAYED_MAX_SIZE)
           /\ Ends /\ UNCHANGED <<pending, pool, toRevalidate>>
    <2>1. delayed' \subseteq Transactions
        BY <1>1, <1>4, <1>9, PutSubset
    <2> QED BY <1>1, <1>2, <1>5, <1>9, <2>1
<1> QED BY <1>3, <1>6, <1>7, <1>8, <1>9 DEF Nonce

\* The pending state after a transaction that succeeds, on the state it looked at.
LEMMA AcceptedEffect ==
    ASSUME Types, BlockTypes, current \in Transactions, Accepted
    PROVE  /\ DOMAIN pending' \subseteq Keys
           /\ \A k \in DOMAIN pending' : pending'[k] \in Values(k)
           /\ pool' = Append(pool, current)
           /\ ~Phase("committing") =>
                /\ current.nonce = Nonce(Overlay(pending, ledger), current.from)
                /\ \A a \in Accounts :
                      Nonce(Overlay(pending', ledger), a)
                      = Nonce(Overlay(pending, ledger), a) + IF a = current.from THEN 1 ELSE 0
                /\ Succeeds(current, Overlay(pending, ledger))
                /\ Overlay(pending', ledger) = Execute(current, Overlay(pending, ledger))
<1>1. PICK l \in Seen(current) :
        /\ current.nonce = Nonce(Overlay(pending, l), current.from)
        /\ Succeeds(current, Overlay(pending, l))
        /\ pending' = [k \in DOMAIN pending \union Written(current)
                          |-> Execute(current, Overlay(pending, l))[k]]
        /\ pool' = Append(pool, current)
    BY DEF Accepted
<1>2. IsLedger(l) /\ (~Phase("committing") => l = ledger)
    BY SeenAreLedgers
<1> DEFINE view == Overlay(pending, l)
           after == Execute(current, view)
<1>3. IsLedger(view)
    BY <1>2, OverlayIsLedger DEF Types
<1> HIDE DEF view
<1>4. Succeeds(current, view)
    BY <1>1 DEF view
<1>5. /\ IsLedger(after)
      /\ \A a \in Accounts :
            Nonce(after, a) = Nonce(view, a) + IF a = current.from THEN 1 ELSE 0
      /\ \A k \in Keys : k \notin Written(current) => after[k] = view[k]
    BY <1>3, <1>4, ExecuteEffect
<1> HIDE DEF after
<1>6. pending' = [k \in DOMAIN pending \union Written(current) |-> after[k]]
    BY <1>1 DEF after, view
<1>7. Written(current) \subseteq Keys /\ DOMAIN pending \subseteq Keys
    BY <1>4, WrittenAreKeys DEF Types
<1>8. \A k \in DOMAIN pending' : k \in Keys /\ pending'[k] \in Values(k)
    BY <1>5, <1>6, <1>7 DEF IsLedger
<1>9. ASSUME ~Phase("committing")
      PROVE  /\ current.nonce = Nonce(Overlay(pending, ledger), current.from)
             /\ \A a \in Accounts :
                   Nonce(Overlay(pending', ledger), a)
                   = Nonce(Overlay(pending, ledger), a) + IF a = current.from THEN 1 ELSE 0
             /\ Succeeds(current, Overlay(pending, ledger))
             /\ Overlay(pending', ledger) = Execute(current, Overlay(pending, ledger))
    <2>1. l = ledger
        BY <1>2, <1>9
    <2>2. \A k \in Keys : Overlay(pending', ledger)[k] = after[k]
        <3>1. \A k \in Keys : k \notin DOMAIN pending => view[k] = ledger[k]
            BY <2>1 DEF view, Overlay
        <3>2. \A k \in Keys :
                Overlay(pending', ledger)[k]
                = IF k \in DOMAIN pending \union Written(current) THEN after[k] ELSE ledger[k]
            BY <1>6 DEF Overlay
        <3> QED BY <1>5, <3>1, <3>2
    <2>3. \A a \in Accounts : Nonce(Overlay(pending', ledger), a) = Nonce(after, a)
        BY <2>2, KeysAreKeys DEF Nonce, Account
    <2>4. Overlay(pending, ledger) = view
        BY <2>1 DEF view
    <2>5. Overlay(pending', ledger) = after
        <3>1. Overlay(pending', ledger) = [k \in Keys |-> Overlay(pending', ledger)[k]]
            BY DEF Overlay
        <3> QED BY <1>5, <2>2, <3>1 DEF IsLedger
    <2>6. Overlay(pending', ledger) = Execute(current, view)
        BY <2>5 DEF after
    <2> QED BY <1>1, <1>4, <1>5, <2>1, <2>3, <2>4, <2>6
<1> QED BY <1>1, <1>8, <1>9

----------------------------------------------------------------------------
LEMMA TypesStep == Types /\ BlockTypes /\ [Next]_vars => Types'
<1> SUFFICES ASSUME Types, BlockTypes, [Next]_vars PROVE Types'
    OBVIOUS
<1>1. ASSUME UNCHANGED <<chain, manager>> PROVE Types'
    BY <1>1 DEF Types, chain, manager
<1>2. ASSUME NEW c \in Coinbases, BeginBlock(c) PROVE Types'
    BY <1>1, <1>2 DEF BeginBlock
<1>3. ASSUME NEW tx \in Transactions, ExecuteInBlock(tx) PROVE Types'
    BY <1>1, <1>3 DEF ExecuteInBlock
<1>4. ASSUME NEW tx \in Transactions, AddTransaction(tx) PROVE Types'
    <2>1. queue' \in Seq(Transactions) /\ Len(queue') <= QUEUE_MAX_SIZE
        BY <1>4, PendingAssumption DEF AddTransaction, Types
    <2> QED BY <1>4, <2>1 DEF AddTransaction, Types, chain
<1>5. ASSUME NEW tx \in Transactions, AddTransactionSync(tx) PROVE Types'
    BY <1>5 DEF AddTransactionSync, ProcessTransaction, Types, chain
<1>6. CASE RewardBlock
    BY <1>1, <1>6 DEF RewardBlock
<1>7. CASE AddBlock
    <2>1. block # NoBlock /\ block.phase = "committing" /\ IsBlock(block)
        BY <1>7 DEF AddBlock, Phase, BlockTypes
    <2>2. latest' \in 0..MaxHeight
        BY <1>7, <2>1, PendingAssumption DEF AddBlock, Types, IsBlock
    <2>3. executed' \subseteq Transactions
        BY <1>7, <2>1 DEF AddBlock, Types, IsBlock
    <2>4. IsLedger(ledger')
        BY <1>7, <2>1 DEF AddBlock, IsBlock
    <2> QED BY <1>7, <2>2, <2>3, <2>4 DEF AddBlock, Types, manager
<1>8. CASE OnBlockAdded
    <2>1. CASE worker = "stopped"
        BY <1>8, <2>1 DEF OnBlockAdded, Types, chain
    <2>2. CASE worker # "stopped"
        BY <1>8, <2>2 DEF OnBlockAdded, Types, chain, Empty
    <2> QED BY <2>1, <2>2
<1>9. CASE Revalidate
    <2>1. CASE toRevalidate = <<>>
        BY <1>9, <2>1 DEF Revalidate, Types, chain
    <2>2. CASE toRevalidate # <<>>
        <3>1. Head(toRevalidate) \in Transactions /\ Tail(toRevalidate) \in Seq(Transactions)
            BY <2>2 DEF Types
        <3>2. current' \in {Head(toRevalidate), NoTx}
            BY <1>9, <2>2 DEF Revalidate, ProcessTransaction
        <3> QED BY <1>9, <2>2, <3>1, <3>2 DEF Revalidate, Types, chain
    <2> QED BY <2>1, <2>2
<1>10. CASE Run
    <2>1. /\ Head(queue) \in Transactions
          /\ Tail(queue) \in Seq(Transactions) /\ Len(Tail(queue)) <= QUEUE_MAX_SIZE
        <3>1. queue \in Seq(Transactions) /\ queue # <<>> /\ Len(queue) <= QUEUE_MAX_SIZE
            BY <1>10 DEF Run, Types
        <3>2. /\ Head(queue) \in Transactions
              /\ Tail(queue) \in Seq(Transactions) /\ Len(Tail(queue)) = Len(queue) - 1
            BY <3>1, HeadTailProperties
        <3> QED BY <3>1, <3>2, PendingAssumption
    <2>2. CASE Head(queue) \in processed
        BY <1>10, <2>1, <2>2 DEF Run, Types, chain
    <2>3. CASE Head(queue) \notin processed
        <3>1. processed' \subseteq Transactions
            BY <1>10, <2>1, <2>3, PutSubset DEF Run, Types
        <3>2. current' \in {Head(queue), NoTx} /\ worker' \in {"idle", "busy"}
            BY <1>10, <2>3 DEF Run, ProcessTransaction
        <3> QED BY <1>10, <2>1, <3>1, <3>2 DEF Run, Types, chain
    <2> QED BY <2>2, <2>3
<1>11. CASE Iterate
    <2>1. /\ UNCHANGED <<chain, queue, processed>> /\ current \in Transactions
          /\ Accepted \/ UNCHANGED <<pending, pool>>
          /\ current' \in Transactions \union {NoTx} /\ delayed' \subseteq Transactions
          /\ toRevalidate' \in {toRevalidate, <<>>}
          /\ worker' \in {"idle", "busy", "dead", "stopped"}
        BY <1>11, IterateEffect
    <2>2. /\ DOMAIN pending' \subseteq Keys
          /\ \A k \in DOMAIN pending' : pending'[k] \in Values(k)
          /\ pool' \in Seq(Transactions)
        <3>1. CASE Accepted
            <4>1. /\ DOMAIN pending' \subseteq Keys
                  /\ \A k \in DOMAIN pending' : pending'[k] \in Values(k)
                  /\ pool' = Append(pool, current)
                BY <2>1, <3>1, AcceptedEffect
            <4>2. Append(pool, current) \in Seq(Transactions)
                BY <2>1 DEF Types
            <4> QED BY <4>1, <4>2
        <3>2. CASE UNCHANGED <<pending, pool>>
            BY <3>2 DEF Types
        <3> QED BY <2>1, <3>1, <3>2
    <2>3. toRevalidate' \in Seq(Transactions)
        <3>1. toRevalidate \in Seq(Transactions) /\ <<>> \in Seq(Transactions)
            BY DEF Types
        <3> QED BY <2>1, <3>1
    <2>4. /\ latest' \in 0..MaxHeight /\ executed' \subseteq Transactions
          /\ queue' \in Seq(Transactions) /\ Len(queue') <= QUEUE_MAX_SIZE
          /\ processed' \subseteq Transactions /\ IsLedger(ledger')
        BY <2>1 DEF Types, chain
    <2> QED BY <2>1, <2>2, <2>3, <2>4 DEF Types
<1>12. CASE Stop
    BY <1>12 DEF Stop, Types, chain
<1>13. CASE UNCHANGED vars
    BY <1>1, <1>13 DEF vars
<1> QED BY <1>2, <1>3, <1>4, <1>5, <1>6, <1>7, <1>8, <1>9, <1>10, <1>11, <1>12, <1>13 DEF Next

\* What the manager does leaves the chain and the block being applied alone, but that
\* a block is over when the pool has been revalidated on it.
LEMMA ManagerStep ==
    ASSUME Types, BlockTypes, [Next]_vars
    PROVE  \/ \E c \in Coinbases : BeginBlock(c)
           \/ \E tx \in Transactions : ExecuteInBlock(tx)
           \/ RewardBlock \/ AddBlock \/ OnBlockAdded
           \/ UNCHANGED chain /\ block' \in {block, NoBlock}
<1>1. ASSUME NEW tx \in Transactions, AddTransaction(tx) \/ AddTransactionSync(tx)
      PROVE  UNCHANGED chain /\ block' = block
    BY <1>1 DEF AddTransaction, AddTransactionSync
<1>2. CASE Run \/ Stop
    BY <1>2 DEF Run, Stop
<1>3. CASE Revalidate
    BY <1>3 DEF Revalidate
<1>4. CASE Iterate
    BY <1>4 DEF Iterate
<1>5. CASE UNCHANGED vars
    BY <1>5 DEF vars
<1> QED BY <1>1, <1>2, <1>3, <1>4, <1>5 DEF Next

LEMMA BlockStep == Types /\ BlockTypes /\ [Next]_vars => BlockTypes'
<1> SUFFICES ASSUME Types, BlockTypes, [Next]_vars PROVE BlockTypes'
    OBVIOUS
<1>1. ASSUME NEW c \in Coinbases, BeginBlock(c) PROVE BlockTypes'
    BY <1>1 DEF BeginBlock, BlockTypes, IsBlock, Types, chain
<1>2. ASSUME NEW tx \in Transactions, ExecuteInBlock(tx) PROVE BlockTypes'
    <2>1. block # NoBlock /\ block.phase = "executing" /\ IsBlock(block)
        BY <1>2 DEF ExecuteInBlock, Phase, BlockTypes
    <2> DEFINE m == Execute(tx, block.ledger)
    <2>2. IsLedger(m)
        BY <1>2, <2>1, ExecuteEffect DEF ExecuteInBlock, IsBlock
    <2>3. block.fees + tx.fee \in Nat
        BY <2>1, TransactionFields DEF IsBlock
    <2>4. /\ block' = [block EXCEPT !.ledger = m, !.txs = block.txs \union {tx},
                                    !.fees = block.fees + tx.fee]
          /\ latest' = latest
        BY <1>2 DEF ExecuteInBlock, chain
    <2> HIDE DEF m
    <2> QED BY <2>1, <2>2, <2>3, <2>4 DEF IsBlock, BlockTypes
<1>3. CASE RewardBlock
    <2>1. block # NoBlock /\ block.phase = "executing" /\ IsBlock(block)
        BY <1>3 DEF RewardBlock, Phase, BlockTypes
    <2> DEFINE m == AdjustAvailable(block.ledger, block.coinbase, BlockReward + block.fees)
    <2>2. IsLedger(m)
        <3>1. /\ BlockReward + block.fees \in Nat /\ block.coinbase \in Accounts
              /\ IsLedger(block.ledger)
            BY <2>1, PendingAssumption DEF IsBlock
        <3>2. Account(block.ledger, block.coinbase).available + (BlockReward + block.fees) \in Nat
            BY <3>1, LedgerValues DEF AccountValues
        <3> QED BY <3>1, <3>2, AdjustAvailableEffect
    <2>3. /\ block' = [block EXCEPT !.phase = "committing", !.ledger = m]
          /\ latest' = latest
        BY <1>3 DEF RewardBlock, chain
    <2> HIDE DEF m
    <2> QED BY <2>1, <2>2, <2>3 DEF IsBlock, BlockTypes
<1>4. CASE AddBlock
    BY <1>4 DEF AddBlock, Phase, BlockTypes, IsBlock
<1>5. CASE OnBlockAdded
    BY <1>5 DEF OnBlockAdded, Phase, BlockTypes, IsBlock, chain
<1>6. CASE UNCHANGED chain /\ block' \in {block, NoBlock}
    BY <1>6 DEF BlockTypes, IsBlock, chain
<1> QED BY <1>1, <1>2, <1>3, <1>4, <1>5, <1>6, ManagerStep

\* A transaction of a block is matched with the state that it changes.
LEMMA ChainedStep == Types /\ BlockTypes /\ Chained /\ [Next]_vars => Chained'
<1> SUFFICES ASSUME Types, BlockTypes, Chained, [Next]_vars PROVE Chained'
    OBVIOUS
<1>1. ASSUME NEW c \in Coinbases, BeginBlock(c) PROVE Chained'
    BY <1>1 DEF BeginBlock, Chained, Spent, chain
<1>2. ASSUME NEW tx \in Transactions, ExecuteInBlock(tx) PROVE Chained'
    <2>1. block # NoBlock /\ block.phase = "executing" /\ IsBlock(block)
        BY <1>2 DEF ExecuteInBlock, Phase, BlockTypes
    <2>2. /\ NamesMatched(block.ledger) /\ VotesMatched(block.ledger)
          /\ Spent(executed \union block.txs, block.ledger)
        BY <2>1 DEF Chained
    <2> DEFINE m == Execute(tx, block.ledger)
    <2>3. /\ IsLedger(block.ledger) /\ Succeeds(tx, block.ledger)
          /\ block' = [block EXCEPT !.ledger = m, !.txs = block.txs \union {tx},
                                    !.fees = block.fees + tx.fee]
          /\ UNCHANGED chain
        BY <1>2, <2>1 DEF ExecuteInBlock, IsBlock
    <2>4. /\ NamesMatched(block.ledger) => NamesMatched(m)
          /\ VotesMatched(block.ledger) => VotesMatched(m)
          /\ \A a \in Accounts :
                Nonce(m, a) = Nonce(block.ledger, a) + IF a = tx.from THEN 1 ELSE 0
        BY <2>3, ExecuteEffect
    <2>5. tx.nonce = Nonce(block.ledger, tx.from)
        BY <2>3 DEF Succeeds, Nonce
    <2> HIDE DEF m
    <2>6. \A a \in Accounts : Nonce(block.ledger, a) \in Nat
        BY <2>3, LedgerValues DEF Nonce, AccountValues
    <2>7. Spent(executed \union block.txs \union {tx}, m)
        <3> SUFFICES ASSUME NEW t \in executed \union block.txs \union {tx}
                     PROVE  t.nonce < Nonce(m, t.from)
            BY DEF Spent
        <3>1. t \in Transactions
            BY <2>1 DEF IsBlock, Types
        <3>2. t.from \in Accounts /\ t.nonce \in Nat
            BY <3>1, TransactionFields
        <3>3. CASE t = tx
            BY <2>4, <2>5, <2>6, <3>2, <3>3
        <3>4. CASE t # tx
            BY <2>2, <2>4, <2>6, <3>2, <3>4 DEF Spent
        <3> QED BY <3>3, <3>4
    <2>8. /\ block'.ledger = m /\ block'.txs = block.txs \union {tx}
          /\ ledger' = ledger /\ executed' = executed
        BY <2>1, <2>3 DEF IsBlock, chain
    <2>9. executed' \union block'.txs = executed \union block.txs \union {tx}
        BY <2>8
    <2> QED BY <2>2, <2>4, <2>7, <2>8, <2>9 DEF Chained, Spent
<1>3. CASE RewardBlock
    <2>1. block # NoBlock /\ block.phase = "executing" /\ IsBlock(block)
        BY <1>3 DEF RewardBlock, Phase, BlockTypes
    <2>2. /\ NamesMatched(block.ledger) /\ VotesMatched(block.ledger)
          /\ Spent(executed \union block.txs, block.ledger)
        BY <2>1 DEF Chained
    <2> DEFINE m == AdjustAvailable(block.ledger, block.coinbase, BlockReward + block.fees)
    <2>3. /\ BlockReward + block.fees \in Nat /\ block.coinbase \in Accounts
          /\ IsLedger(block.ledger)
        BY <2>1, PendingAssumption DEF IsBlock
    <2>4. \A a \in Accounts : Account(block.ledger, a) \in AccountValues
        BY <2>3, LedgerValues
    <2>5. Account(block.ledger, block.coinbase).available + (BlockReward + block.fees) \in Nat
        BY <2>3, <2>4 DEF AccountValues
    <2>6. /\ Account(m, block.coinbase)
             = [Account(block.ledger, block.coinbase)
                  EXCEPT !.available = @ + (BlockReward + block.fees)]
          /\ \A j \in Keys : j # AccountKey(block.coinbase) => m[j] = block.ledger[j]
          /\ SameLocked(m, block.ledger)
        BY <2>3, <2>5, AdjustAvailableEffect
    <2>7. block' = [block EXCEPT !.phase = "committing", !.ledger = m] /\ UNCHANGED chain
        BY <1>3 DEF RewardBlock
    <2> HIDE DEF m
    <2>8. NamesMatched(m)
        <3>1. /\ \A a \in Accounts : m[DelegateKey(a)] = block.ledger[DelegateKey(a)]
              /\ \A n \in Names : m[NameKey(n)] = block.ledger[NameKey(n)]
            BY <2>6, KeysAreKeys, KeysApart
        <3> QED BY <2>2, <3>1 DEF NamesMatched
    <2>9. SameNonces(m, block.ledger)
        <3>1. Nonce(m, block.coinbase) = Nonce(block.ledger, block.coinbase)
            BY <2>3, <2>4, <2>6 DEF Nonce, AccountValues
        <3>2. \A a \in Accounts : a # block.coinbase => Account(m, a) = Account(block.ledger, a)
            BY <2>6, KeysAreKeys, KeysApart DEF Account
        <3> QED BY <3>1, <3>2 DEF SameNonces, Nonce
    <2>10. Spent(executed \union block.txs, m)
        <3>1. \A t \in executed \union block.txs : t \in Transactions
            BY <2>1 DEF IsBlock, Types
        <3>2. \A t \in Transactions : t.from \in Accounts
            BY TransactionFields
        <3> QED BY <2>2, <2>9, <3>1, <3>2 DEF Spent, SameNonces
    <2>12. VotesMatched(m)
        <3>1. \A a \in Accounts : m[DelegateKey(a)] = block.ledger[DelegateKey(a)]
            BY <2>6, KeysAreKeys, KeysApart
        <3>2. \A c, v \in Accounts : m[VoteKey(c, v)] = block.ledger[VoteKey(c, v)]
            BY <2>6, KeysAreKeys, KeysApart
        <3>3. \A a \in Accounts : /\ VotesBy(m, a) = VotesBy(block.ledger, a)
                                 /\ VotesFor(m, a) = VotesFor(block.ledger, a)
            BY <3>2, VotesSame
        <3> QED BY <2>2, <2>6, <3>1, <3>3 DEF VotesMatched, SameLocked
    <2>11. /\ block'.ledger = m /\ block'.txs = block.txs
           /\ ledger' = ledger /\ executed' = executed
        BY <2>1, <2>7 DEF IsBlock, chain
    <2> QED BY <2>8, <2>10, <2>11, <2>12 DEF Chained, Spent
<1>4. CASE AddBlock
    <2>1. block # NoBlock /\ block.phase = "committing" /\ IsBlock(block)
        BY <1>4 DEF AddBlock, Phase, BlockTypes
    <2>2. /\ ledger' = block.ledger /\ executed' = executed \union block.txs
          /\ block'.phase = "notifying"
        BY <1>4, <2>1 DEF AddBlock, IsBlock
    <2> QED BY <2>1, <2>2 DEF Chained, Spent
<1>5. CASE OnBlockAdded
    <2>1. block'.phase \in {"none", "revalidating"} /\ UNCHANGED chain
        <3>1. block # NoBlock /\ IsBlock(block)
            BY <1>5 DEF OnBlockAdded, Phase, BlockTypes
        <3> QED BY <1>5, <3>1 DEF OnBlockAdded, NoBlock, IsBlock
    <2> QED BY <2>1 DEF Chained, Spent, chain
<1>6. CASE UNCHANGED chain /\ block' \in {block, NoBlock}
    BY <1>6 DEF Chained, Spent, NoBlock, chain
<1> QED BY <1>1, <1>2, <1>3, <1>4, <1>5, <1>6, ManagerStep

\* What is taken from the accounts is burned or given to the coinbase.
LEMMA BurnedMore ==
    ASSUME NEW txs, IsFiniteSet(txs), txs \subseteq Transactions,
           NEW tx \in Transactions, tx \notin txs
    PROVE  Burned(txs) \in Int /\ Burned(txs \union {tx}) = Burned(txs) + Burn(tx)
<1> DEFINE more == txs \union {tx}
           f == [t \in txs |-> Burn(t)]
           g == [t \in more |-> Burn(t)]
<1>1. \A t \in Transactions : Burn(t) \in Int
    BY TransactionFields DEF Burn
<1>2. IsFiniteSet(more) /\ more \ {tx} = txs /\ tx \in more
    BY FS_AddElement
<1>3. /\ \A t \in txs : f[t] \in Int /\ f[t] = g[t]
      /\ \A t \in more : g[t] \in Int
      /\ g[tx] = Burn(tx)
    BY <1>1
<1>4. Burned(txs) = SumFunctionOnSet(f, txs) /\ Burned(more) = SumFunctionOnSet(g, more)
    BY DEF Burned, Burn
<1> HIDE DEF f, g, more
<1>5. SumFunctionOnSet(f, txs) = SumFunctionOnSet(g, txs)
    BY <1>3, SumSame
<1>6. SumFunctionOnSet(g, more) = g[tx] + SumFunctionOnSet(g, txs)
    BY <1>2, <1>3, SumRemove
<1>7. SumFunctionOnSet(f, txs) \in Int
    BY <1>3, SumType
<1>8. Burn(tx) \in Int
    BY <1>1
<1>9. Burned(more) = Burned(txs) + Burn(tx)
    BY <1>3, <1>4, <1>5, <1>6, <1>7, <1>8
<1> QED BY <1>4, <1>7, <1>9 DEF more

LEMMA CoinedStep == Types /\ BlockTypes /\ Coined /\ [Next]_vars => Coined'
<1> SUFFICES ASSUME Types, BlockTypes, Coined, [Next]_vars PROVE Coined'
    OBVIOUS
<1>0. /\ executed \subseteq Transactions /\ IsFiniteSet(executed)
      /\ Held(ledger) + Burned(executed) = Minted(latest)
      /\ latest \in Nat
    BY PendingAssumption DEF Types, Coined
<1>1. ASSUME NEW c \in Coinbases, BeginBlock(c) PROVE Coined'
    <2>1. /\ block'.phase = "executing" /\ block'.ledger = ledger
          /\ block'.txs = {} /\ block'.fees = 0 /\ UNCHANGED chain
        BY <1>1 DEF BeginBlock
    <2>2. executed \union {} = executed
        OBVIOUS
    <2>3. Minted(latest) \in Int
        BY <1>0, MintedNext
    <2> QED BY <1>0, <2>1, <2>2, <2>3, FS_EmptySet DEF Coined, chain
<1>2. ASSUME NEW tx \in Transactions, ExecuteInBlock(tx) PROVE Coined'
    <2>1. block # NoBlock /\ block.phase = "executing" /\ IsBlock(block)
        BY <1>2 DEF ExecuteInBlock, Phase, BlockTypes
    <2> DEFINE m == Execute(tx, block.ledger)
               txs == executed \union block.txs
    <2>2. /\ IsLedger(block.ledger) /\ Succeeds(tx, block.ledger) /\ tx \notin txs
          /\ block' = [block EXCEPT !.ledger = m, !.txs = block.txs \union {tx},
                                    !.fees = block.fees + tx.fee]
          /\ UNCHANGED chain
        BY <1>2, <2>1 DEF ExecuteInBlock, IsBlock
    <2>3. Held(m) = Held(block.ledger) - (tx.fee + Burn(tx))
        BY <2>2, ExecuteEffect
    <2> HIDE DEF m
    <2>4. /\ IsFiniteSet(block.txs) /\ IsFiniteSet(txs) /\ txs \subseteq Transactions
          /\ IsFiniteSet(block.txs \union {tx})
        <3>1. IsFiniteSet(block.txs) /\ block.txs \subseteq Transactions
            BY <2>1 DEF Coined, IsBlock
        <3> QED BY <1>0, <3>1, FS_Union, FS_AddElement
    <2>5. Held(block.ledger) + Burned(txs) + block.fees = Minted(latest)
        BY <2>1 DEF Coined
    <2>6. /\ block'.ledger = m /\ block'.txs = block.txs \union {tx}
          /\ block'.fees = block.fees + tx.fee /\ block'.phase = "executing"
        BY <2>1, <2>2 DEF IsBlock
    <2>7. Burned(txs) \in Int /\ Burned(txs \union {tx}) = Burned(txs) + Burn(tx)
        <3> HIDE DEF txs
        <3> QED BY <2>2, <2>4, BurnedMore
    <2>8. executed \union (block.txs \union {tx}) = txs \union {tx}
        OBVIOUS
    <2> HIDE DEF txs
    <2>9. /\ Held(block.ledger) \in Int /\ block.fees \in Int /\ tx.fee \in Int
          /\ Burn(tx) \in Int /\ Minted(latest) \in Int
        BY <1>0, <2>1, <2>2, LedgerSums, TransactionFields, MintedNext DEF IsBlock, Burn
    <2>10. Held(m) + Burned(txs \union {tx}) + (block.fees + tx.fee) = Minted(latest)
        BY <2>3, <2>5, <2>7, <2>9
    <2> QED BY <1>0, <2>2, <2>4, <2>6, <2>8, <2>10 DEF Coined, chain
<1>3. CASE RewardBlock
    <2>1. block # NoBlock /\ block.phase = "executing" /\ IsBlock(block)
        BY <1>3 DEF RewardBlock, Phase, BlockTypes
    <2> DEFINE m == AdjustAvailable(block.ledger, block.coinbase, BlockReward + block.fees)
               txs == executed \union block.txs
    <2>2. /\ BlockReward + block.fees \in Nat /\ block.coinbase \in Accounts
          /\ IsLedger(block.ledger) /\ BlockReward \in Nat /\ block.fees \in Nat
        BY <2>1, PendingAssumption DEF IsBlock
    <2>3. Account(block.ledger, block.coinbase).available + (BlockReward + block.fees) \in Nat
        BY <2>2, LedgerValues DEF AccountValues
    <2>4. Held(m) = Held(block.ledger) + (BlockReward + block.fees)
        BY <2>2, <2>3, AdjustAvailableEffect
    <2>5. block' = [block EXCEPT !.phase = "committing", !.ledger = m] /\ UNCHANGED chain
        BY <1>3 DEF RewardBlock
    <2> HIDE DEF m
    <2>6. /\ block'.ledger = m /\ block'.txs = block.txs /\ block'.phase = "committing"
          /\ executed' = executed /\ latest' = latest /\ ledger' = ledger
        BY <2>1, <2>5 DEF IsBlock, chain
    <2>7. /\ Held(block.ledger) + Burned(txs) + block.fees = Minted(latest)
          /\ IsFiniteSet(block.txs)
        BY <2>1 DEF Coined
    <2>8. Burned(txs) \in Int
        <3>1. IsFiniteSet(txs)
            BY <1>0, <2>7, FS_Union
        <3>2. \A t \in txs : t \in Transactions
            BY <1>0, <2>1 DEF IsBlock
        <3> DEFINE f == [t \in txs |-> IF t.type = "DELEGATE" THEN t.value ELSE 0]
        <3>3. \A t \in txs : f[t] \in Int
            BY <3>2, TransactionFields
        <3>4. Burned(txs) = SumFunctionOnSet(f, txs)
            BY DEF Burned
        <3> HIDE DEF f, txs
        <3> QED BY <3>1, <3>3, <3>4, SumType
    <2> HIDE DEF txs
    <2>9. Held(block.ledger) \in Int /\ Minted(latest) \in Int
          /\ Minted(latest + 1) = Minted(latest) + BlockReward
        BY <1>0, <2>2, LedgerSums, MintedNext
    <2>10. Held(m) + Burned(txs) = Minted(latest + 1)
        BY <2>2, <2>4, <2>7, <2>8, <2>9
    <2> QED BY <1>0, <2>6, <2>7, <2>10 DEF Coined, txs
<1>4. CASE AddBlock
    <2>1. block # NoBlock /\ block.phase = "committing" /\ IsBlock(block)
        BY <1>4 DEF AddBlock, Phase, BlockTypes
    <2>2. /\ ledger' = block.ledger /\ executed' = executed \union block.txs
          /\ latest' = latest + 1 /\ block'.phase = "notifying"
        BY <1>4, <2>1 DEF AddBlock, IsBlock
    <2>3. IsFiniteSet(executed')
        BY <1>0, <2>1, <2>2, FS_Union DEF Coined
    <2> QED BY <2>1, <2>2, <2>3 DEF Coined
<1>5. CASE OnBlockAdded
    <2>1. block'.phase \in {"none", "revalidating"} /\ UNCHANGED chain
        <3>1. block # NoBlock /\ IsBlock(block)
            BY <1>5 DEF OnBlockAdded, Phase, BlockTypes
        <3> QED BY <1>5, <3>1 DEF OnBlockAdded, NoBlock, IsBlock
    <2> QED BY <1>0, <2>1 DEF Coined, chain
<1>6. CASE UNCHANGED chain /\ block' \in {block, NoBlock}
    BY <1>6 DEF Coined, NoBlock, chain
<1> QED BY <1>1, <1>2, <1>3, <1>4, <1>5, <1>6, ManagerStep

\* The pool meets one state of the chain: a transaction is accepted on it, or the pool
\* starts anew on the state that a block left.
LEMMA SettledStep ==
    ASSUME Types, BlockTypes, [Next]_vars, Settled'
    PROVE  /\ ledger' = ledger
           /\ \/ Settled /\ UNCHANGED <<pending, pool>>
              \/ Settled /\ ~Phase("committing") /\ current \in Transactions /\ Accepted
              \/ pool' = <<>> /\ pending' = Empty
<1>2. ASSUME NEW c \in Coinbases, BeginBlock(c) PROVE Settled /\ UNCHANGED <<ledger, pending, pool>>
    BY <1>2 DEF BeginBlock, Settled, chain, manager
<1>3. ASSUME NEW tx \in Transactions, ExecuteInBlock(tx)
      PROVE  Settled /\ UNCHANGED <<ledger, pending, pool>>
    BY <1>3 DEF ExecuteInBlock, Phase, Settled, chain, manager
<1>4. ASSUME NEW tx \in Transactions, AddTransaction(tx) \/ AddTransactionSync(tx)
      PROVE  Settled /\ UNCHANGED <<ledger, pending, pool>>
    BY <1>4 DEF AddTransaction, AddTransactionSync, Settled, chain
<1>5. CASE RewardBlock \/ AddBlock
    <2>1. block # NoBlock /\ IsBlock(block)
        BY <1>5 DEF RewardBlock, AddBlock, Phase, BlockTypes
    <2>2. block'.phase \in {"committing", "notifying"}
        BY <1>5, <2>1 DEF RewardBlock, AddBlock, IsBlock
    <2> QED BY <2>2 DEF Settled, NoBlock
<1>6. CASE OnBlockAdded
    <2>1. worker # "stopped"
        BY <1>6 DEF OnBlockAdded, Settled
    <2> QED BY <1>6, <2>1 DEF OnBlockAdded, chain
<1>7. CASE Revalidate
    BY <1>7 DEF Revalidate, Phase, Settled, chain
<1>8. CASE Run
    BY <1>8 DEF Run, Settled, chain
<1>9. CASE Stop
    BY <1>9 DEF Stop, Settled
<1>10. CASE Iterate
    <2>1. /\ UNCHANGED <<chain, block>> /\ current \in Transactions
          /\ Accepted \/ UNCHANGED <<pending, pool>>
          /\ worker = "stopped" <=> worker' = "stopped"
        BY <1>10, IterateEffect
    <2>2. Settled
        BY <2>1 DEF Settled
    <2>3. ~Phase("committing")
        BY <2>2 DEF Settled, Phase
    <2> QED BY <2>1, <2>2, <2>3 DEF chain
<1>11. CASE UNCHANGED vars
    BY <1>11 DEF vars, chain, manager, Settled
<1> QED BY <1>2, <1>3, <1>4, <1>5, <1>6, <1>7, <1>8, <1>9, <1>10, <1>11 DEF Next

\* Once a block is added, the pool starts anew on the state that block left.
LEMMA FreshStep == Inv /\ [Next]_vars => Fresh'
<1> SUFFICES ASSUME Types, BlockTypes, Fresh, [Next]_vars, Settled' PROVE Fresh'
    BY DEF Inv, Fresh
<1>1. ledger' = ledger
    BY SettledStep
<1>2. CASE Settled /\ UNCHANGED <<pending, pool>>
    BY <1>1, <1>2 DEF Fresh
<1>3. CASE Settled /\ ~Phase("committing") /\ current \in Transactions /\ Accepted
    <2> DEFINE Before(a) == Nonce(Overlay(pending, ledger), a)
               After(a) == Nonce(Overlay(pending', ledger), a)
    <2>1. ~Phase("committing")
        BY <1>3
    <2>2. /\ pool' = Append(pool, current) /\ current.nonce = Before(current.from)
          /\ \A a \in Accounts : After(a) = Before(a) + IF a = current.from THEN 1 ELSE 0
        BY <1>3, AcceptedEffect
    <2>3. /\ \A a \in Accounts : Nonce(ledger, a) <= Before(a)
          /\ \A i \in DOMAIN pool : /\ Nonce(ledger, pool[i].from) <= pool[i].nonce
                                    /\ pool[i].nonce < Before(pool[i].from)
          /\ \A i, j \in DOMAIN pool :
                i < j /\ pool[i].from = pool[j].from => pool[i].nonce < pool[j].nonce
        BY <1>3 DEF Fresh
    <2>4. \A a \in Accounts : Nonce(ledger, a) \in Nat /\ Before(a) \in Nat
        <3>1. IsLedger(ledger) /\ IsLedger(Overlay(pending, ledger))
            BY OverlayIsLedger DEF Types
        <3> QED BY <3>1, LedgerValues DEF Nonce, AccountValues
    <2>5. /\ pool \in Seq(Transactions) /\ Len(pool) \in Nat
          /\ DOMAIN pool = 1..Len(pool) /\ DOMAIN pool' = 1..Len(pool) + 1
          /\ \A i \in DOMAIN pool : pool[i] \in Transactions /\ pool'[i] = pool[i]
          /\ pool'[Len(pool) + 1] = current
        BY <1>3, <2>2 DEF Types
    <2>6. \A t \in Transactions : t.from \in Accounts /\ t.nonce \in Nat
        BY TransactionFields
    <2> HIDE DEF Before, After
    <2>7. \A a \in Accounts : Nonce(ledger, a) <= After(a)
        BY <2>2, <2>3, <2>4
    <2>8. \A i \in DOMAIN pool' : /\ Nonce(ledger, pool'[i].from) <= pool'[i].nonce
                                  /\ pool'[i].nonce < After(pool'[i].from)
        <3> SUFFICES ASSUME NEW i \in DOMAIN pool'
                     PROVE  /\ Nonce(ledger, pool'[i].from) <= pool'[i].nonce
                            /\ pool'[i].nonce < After(pool'[i].from)
            OBVIOUS
        <3>1. CASE i = Len(pool) + 1
            <4>1. pool'[i] = current /\ current.from \in Accounts
                BY <1>3, <2>5, <2>6, <3>1
            <4>2. After(current.from) = current.nonce + 1 /\ current.nonce \in Nat
                BY <1>3, <2>2, <2>6, <4>1
            <4>3. Nonce(ledger, current.from) <= current.nonce
                BY <2>2, <2>3, <4>1
            <4> QED BY <4>1, <4>2, <4>3
        <3>2. CASE i \in DOMAIN pool
            BY <2>2, <2>3, <2>4, <2>5, <2>6, <3>2
        <3> QED BY <2>5, <3>1, <3>2
    <2>9. \A i, j \in DOMAIN pool' :
            i < j /\ pool'[i].from = pool'[j].from => pool'[i].nonce < pool'[j].nonce
        <3> SUFFICES ASSUME NEW i \in DOMAIN pool', NEW j \in DOMAIN pool', i < j,
                            pool'[i].from = pool'[j].from
                     PROVE  pool'[i].nonce < pool'[j].nonce
            OBVIOUS
        <3>1. i \in DOMAIN pool
            BY <2>5
        <3>2. CASE j = Len(pool) + 1
            BY <2>2, <2>3, <2>5, <3>1, <3>2
        <3>3. CASE j \in DOMAIN pool
            BY <2>3, <2>5, <3>1, <3>3
        <3> QED BY <2>5, <3>2, <3>3
    <2> QED BY <1>1, <2>7, <2>8, <2>9 DEF Fresh, After
<1>4. CASE pool' = <<>> /\ pending' = Empty
    <2>1. \A k \in Keys : Overlay(pending', ledger')[k] = ledger'[k]
        BY <1>4 DEF Empty, Overlay
    <2>2. \A a \in Accounts : Nonce(ledger', a) \in Nat
                              /\ Nonce(Overlay(pending', ledger'), a) = Nonce(ledger', a)
        BY <1>1, <2>1, LedgerValues, KeysAreKeys DEF Nonce, Account, AccountValues, Types
    <2>3. DOMAIN pool' = {}
        BY <1>4
    <2> QED BY <2>2, <2>3 DEF Fresh
<1> QED BY <1>2, <1>3, <1>4, SettledStep

LEMMA PoolStep == Inv /\ [Next]_vars => PoolExecutable'
<1> SUFFICES ASSUME Types, BlockTypes, PoolExecutable, [Next]_vars, Settled'
             PROVE  ExecuteAll(ledger', pool')
                    = [ok |-> TRUE, ledger |-> Overlay(pending', ledger')]
    BY DEF Inv, PoolExecutable
<1>1. ledger' = ledger
    BY SettledStep
<1>2. CASE Settled /\ UNCHANGED <<pending, pool>>
    BY <1>1, <1>2 DEF PoolExecutable
<1>3. CASE Settled /\ ~Phase("committing") /\ current \in Transactions /\ Accepted
    <2> DEFINE view == Overlay(pending, ledger)
    <2>1. /\ pool' = Append(pool, current) /\ Succeeds(current, view)
          /\ Overlay(pending', ledger) = Execute(current, view)
        BY <1>3, AcceptedEffect
    <2>2. ExecuteAll(ledger, pool) = [ok |-> TRUE, ledger |-> view]
        BY <1>3 DEF PoolExecutable
    <2>3. ExecuteAll(ledger, Append(pool, current))
          = TryExecute(ExecuteAll(ledger, pool), current)
        BY <1>3, ExecuteMore DEF Types
    <2> HIDE DEF view
    <2>4. TryExecute([ok |-> TRUE, ledger |-> view], current)
          = [ok |-> TRUE, ledger |-> Execute(current, view)]
        BY <2>1 DEF TryExecute
    <2> QED BY <1>1, <2>1, <2>2, <2>3, <2>4
<1>4. CASE pool' = <<>> /\ pending' = Empty
    <2>1. Overlay(pending', ledger') = ledger'
        BY <1>1, <1>4 DEF Types, Empty, Overlay, IsLedger
    <2> QED BY <1>4, <2>1, ExecuteNone
<1> QED BY <1>2, <1>3, <1>4, SettledStep

LEMMA Invariance == Spec => []Inv
<1>1. Init => Inv
    BY InitInv
<1>2. Inv /\ [Next]_vars => Inv'
    BY TypesStep, BlockStep, ChainedStep, CoinedStep, FreshStep, PoolStep DEF Inv
<1> QED BY <1>1, <1>2, PTL DEF Spec

----------------------------------------------------------------------------
\* The manager and the chain stay of their types: among others no balance of an account
\* is ever negative, and neither the queue nor the chain outgrows its bound.
THEOREM PendingTypeOK == Spec => []TypeOK
<1>1. Inv => TypeOK
    BY TypesImplyTypeOK DEF Inv
<1> QED BY <1>1, Invariance, PTL

\* However transactions that register, vote and unvote follow each other, over any
\* number of blocks, a name belongs to the delegate that has it and to no other.
THEOREM PendingNamesMatch == Spec => []NamesMatch
<1>1. Inv => NamesMatch
    BY DEF Inv, Chained, NamesMatched, NamesMatch
<1> QED BY <1>1, Invariance, PTL

\* A proposer never takes a transaction from the pool that its chain has executed, nor
\* one twice, and no block can execute one again.
THEOREM PendingExecutedOnce == Spec => []ExecutedOnce
<1>1. Inv => ExecutedOnce
    <2> SUFFICES ASSUME Inv, Settled
                 PROVE  /\ \A i \in DOMAIN pool : pool[i] \notin executed
                        /\ \A i, j \in DOMAIN pool : pool[i] = pool[j] => i = j
                        /\ \A t \in executed : t.nonce < Account(ledger, t.from).nonce
        BY DEF ExecutedOnce
    <2>1. \A t \in executed : t.nonce < Nonce(ledger, t.from)
        BY DEF Inv, Chained, Spent
    <2>2. \A i \in DOMAIN pool : /\ pool[i] \in Transactions /\ i \in Int
                                 /\ Nonce(ledger, pool[i].from) <= pool[i].nonce
        BY DEF Inv, Types, Fresh
    <2>3. \A t \in Transactions : t.nonce \in Nat /\ Nonce(ledger, t.from) \in Nat
        BY TransactionFields, LedgerValues DEF Inv, Types, Nonce, AccountValues
    <2>4. \A i \in DOMAIN pool : pool[i] \notin executed
        BY <2>1, <2>2, <2>3
    <2>5. \A i, j \in DOMAIN pool : i < j => pool[i] # pool[j]
        BY <2>2, <2>3 DEF Inv, Fresh
    <2>6. \A i, j \in DOMAIN pool : pool[i] = pool[j] => i = j
        BY <2>2, <2>5
    <2> QED BY <2>1, <2>4, <2>6 DEF Nonce
<1> QED BY <1>1, Invariance, PTL

\* However votes, unvotes, transfers and registrations follow each other, the coins an
\* account has locked are its votes and the votes of a delegate are those for it.
THEOREM PendingVotesMatch == Spec => []VotesMatch
<1>1. Inv => VotesMatch
    BY DEF Inv, Chained, VotesMatched, VotesMatch
<1> QED BY <1>1, Invariance, PTL

\* No sequence of blocks creates or loses a coin, but for what is burned.
THEOREM PendingCoinsConserved == Spec => []CoinsConserved
<1>1. Inv => CoinsConserved
    BY DEF Inv, Coined, Minted, CoinsConserved
<1> QED BY <1>1, Invariance, PTL

\* A proposer can put its pool into a block without executing it again, however long the
\* pool is and however many blocks it has been revalidated on.
THEOREM PendingPoolExecutable == Spec => []PoolExecutable
<1>1. Inv => PoolExecutable
    BY DEF Inv
<1> QED BY <1>1, Invariance, PTL
=============================================================================
