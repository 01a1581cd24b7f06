------------------------- MODULE OptLoader_proofs -------------------------
(***************************************************************************)
(* Proofs about OptLoader, for any options, command lines and struct: what *)
(* a load() has written when it returns.                                   *)
(***************************************************************************)
EXTENDS OptLoader, WellFoundedInduction, TLAPS

(* The options in front of the n-th fit, and have words they can use. *)
Passed(n) ==
  \A k \in 1..n - 1 : InBuf(opts[k]) /\ Accepts(opts[k], Meant(opts[k]))

(* The options in front of the n-th are written, and nothing else. *)
Written(n) ==
  \A a \in DOMAIN mem :
    \/ /\ \A k \in 1..n - 1 : opts[k].addr # a
       /\ mem[a] = before[a]
    \/ \E k \in 1..n - 1 :
         /\ opts[k].addr = a
         /\ \A j \in 1..n - 1 : opts[j].addr = a => j <= k
         /\ mem[a] = Loaded(opts[k], Meant(opts[k]))

(* Why a load() has ended in front of the i-th option. *)
Ended ==
  \/ err = 0 /\ (i \in DOMAIN opts => ~InBuf(opts[i]))
  \/ /\ err = EINVAL
     /\ i \in DOMAIN opts /\ InBuf(opts[i])
     /\ ~Accepts(opts[i], Meant(opts[i]))

LoadInv ==
  /\ opts \in Seq(OptDefs)
  /\ \A o \in OptDefs : o.addr \in DOMAIN mem
  /\ call \in {"load", "loaded"} =>
       argv \in Argvs /\ i \in 1..Len(opts) + 1 /\ Passed(i) /\ Written(i)
  /\ call = "load" => err = 0
  /\ call = "loaded" => Ended

-----------------------------------------------------------------------------
LEMMA LeastNumber ==
  ASSUME NEW I \in SUBSET Nat, I # {}
  PROVE  \E m \in I : \A j \in I : m <= j
<1> DEFINE Before == {ss \in Nat \X Nat : ss[1] < ss[2]}
<1>1. Before = OpToRel(<, Nat)
  BY Zenon DEF OpToRel
<1>2. IsWellFoundedOn(Before, Nat)
  BY <1>1, NatLessThanWellFounded, Zenon
<1>4. \A j, m \in Nat : j < m => <<j, m>> \in Before
  <2> SUFFICES ASSUME NEW j \in Nat, NEW m \in Nat, j < m
               PROVE  <<j, m>> \in {ss \in Nat \X Nat : ss[1] < ss[2]}
    BY DEF Before
  <2> QED OBVIOUS
<1> HIDE DEF Before
<1>3. \E m \in I : \A j \in I : ~(<<j, m>> \in Before)
  BY <1>2, WFMin, Zenon
<1>5. PICK m \in I : \A j \in I : ~(<<j, m>> \in Before)
  BY <1>3
<1>6. ASSUME NEW j \in I  PROVE m <= j
  <2>1. m \in Nat /\ j \in Nat
    OBVIOUS
  <2>2. ~(j < m)
    BY <1>4, <1>5, <2>1, Zenon
  <2> QED BY <2>1, <2>2
<1> QED BY <1>6

(* std::find() of the code: the first place of a word, or none. *)
LEMMA FindIsFirst ==
  ASSUME argv \in Argvs, NEW w
  PROVE  \/ Find(w) = 0 /\ \A k \in DOMAIN argv : argv[k] # w
         \/ /\ Find(w) \in DOMAIN argv /\ argv[Find(w)] = w
            /\ \A k \in 1..Find(w) - 1 : argv[k] # w
<1> DEFINE S == {k \in 1..Len(argv) : argv[k] = w}
<1>1. DOMAIN argv = 1..Len(argv) /\ Len(argv) \in Nat
  BY OptAssumption DEF OptAssumption
<1>2. Find(w) = IF S # {} THEN CHOOSE m \in S : \A j \in S : m <= j ELSE 0
  BY Zenon DEF Find, SelectInSeq, Min
<1>3. CASE S = {}
  BY <1>1, <1>2, <1>3
<1>4. CASE S # {}
  <2>1. S \in SUBSET Nat
    BY <1>1
  <2> HIDE DEF S
  <2>2. PICK m \in S : \A j \in S : m <= j
    BY <1>4, <2>1, LeastNumber, Zenon
  <2>3. Find(w) \in S /\ \A j \in S : Find(w) <= j
    BY <1>2, <1>4, <2>2, Zenon
  <2> USE DEF S
  <2>4. Find(w) \in 1..Len(argv) /\ argv[Find(w)] = w
    BY <2>3
  <2>5. ASSUME NEW k \in 1..Find(w) - 1  PROVE argv[k] # w
    BY <1>1, <2>3, <2>4, <2>5
  <2> QED BY <1>1, <2>4, <2>5
<1> QED BY <1>3, <1>4

(* The word behind the first appearance of a key is the word that the      *)
(* property means.                                                         *)
LEMMA SearchFindsMeant ==
  ASSUME argv \in Argvs, NEW o \in OptDefs
  PROVE  OptVal(o) = Meant(o)
<1> DEFINE given == {k \in DOMAIN argv : argv[k] = o.key /\ \A j \in 1..k - 1 : argv[j] # o.key}
           f == Find(o.key)
<1>1. DOMAIN argv = 1..Len(argv) /\ Len(argv) \in Nat /\ \A k \in DOMAIN argv : argv[k] # <<>>
  <2>1. argv \in Seq(Range(argv) \ {<<>>})
    BY OptAssumption DEF OptAssumption
  <2> QED BY <2>1
<1>2. o.key # NoWord
  BY OptAssumption DEF OptAssumption, NoWord
<1>3. given = IF f = 0 THEN {} ELSE {f}
  <2>1. CASE f = 0 /\ \A k \in DOMAIN argv : argv[k] # o.key
    BY <2>1
  <2>2. CASE f \in DOMAIN argv /\ argv[f] = o.key /\ \A k \in 1..f - 1 : argv[k] # o.key
    <3>1. f \in given /\ f # 0
      BY <1>1, <2>2
    <3>2. ASSUME NEW k \in given  PROVE k = f
      <4>1. k \in Nat /\ f \in Nat /\ 1 <= k /\ 1 <= f
        BY <1>1, <2>2
      <4>2. ~(k < f)
        BY <2>2, <4>1
      <4>3. ~(f < k)
        BY <2>2, <4>1
      <4> QED BY <4>1, <4>2, <4>3
    <3> QED BY <3>1, <3>2
  <2> QED BY <2>1, <2>2, FindIsFirst
<1>4. f = 0 \/ f \in 1..Len(argv)
  BY <1>1, FindIsFirst
<1> HIDE DEF given, f
<1>5. CASE o.none
  <2>1. Meant(o) = IF given # {} THEN o.key ELSE o.default
    BY <1>5 DEF Meant, given
  <2>2. OptVal(o) = IF f # 0 THEN o.key ELSE o.default
    BY <1>2, <1>5, Zenon DEF OptVal, isOptExisted, f
  <2> QED BY <1>3, <2>1, <2>2
<1>6. CASE ~o.none
  <2>1. Meant(o) = IF \E k \in given : k < Len(argv)
                   THEN argv[1 + CHOOSE k \in given : TRUE] ELSE o.default
    BY <1>6 DEF Meant, given
  <2>2. OptVal(o) = IF getOpt(o.key) # NoWord THEN getOpt(o.key) ELSE o.default
    BY <1>6 DEF OptVal
  <2>3. getOpt(o.key) = IF f \in 1..Len(argv) - 1 THEN argv[f + 1] ELSE NoWord
    BY DEF getOpt, f
  <2>4. CASE f \in 1..Len(argv) - 1
    <3>1. given = {f} /\ f < Len(argv) /\ f + 1 \in DOMAIN argv
      BY <1>1, <1>3, <2>4
    <3>2. (CHOOSE k \in given : TRUE) = f
      BY <3>1
    <3>3. argv[f + 1] # NoWord
      BY <1>1, <3>1 DEF NoWord
    <3>4. 1 + f = f + 1
      BY <2>4
    <3> QED BY <2>1, <2>2, <2>3, <2>4, <3>1, <3>2, <3>3, <3>4
  <2>5. CASE f \notin 1..Len(argv) - 1
    <3>1. ~\E k \in given : k < Len(argv)
      BY <1>1, <1>3, <1>4, <2>5
    <3> QED BY <2>1, <2>2, <2>3, <2>5, <3>1
  <2> QED BY <2>4, <2>5
<1> QED BY <1>5, <1>6

-----------------------------------------------------------------------------
LEMMA LoadInvInit == OptInit => LoadInv
  BY DEF OptInit, LoadInv

(* What a load() has done so far stays so while nothing it looks at moves. *)
LEMMA LoadStays ==
  ASSUME LoadInv, call \in {"load", "loaded"},
         UNCHANGED <<opts, mem, argv, bufSize, i, before>>
  PROVE  /\ (argv \in Argvs /\ i \in 1..Len(opts) + 1 /\ Passed(i) /\ Written(i))'
         /\ \A o \in OptDefs : Meant(o)' = Meant(o) /\ (InBuf(o) <=> InBuf(o)')
<1>1. \A o \in OptDefs : Meant(o)' = Meant(o) /\ (InBuf(o) <=> InBuf(o)')
  BY DEF Meant, InBuf
<1>2. /\ opts \in Seq(OptDefs) /\ i \in 1..Len(opts) + 1 /\ argv \in Argvs
      /\ Passed(i) /\ Written(i)
  BY DEF LoadInv
<1>3. \A k \in 1..i - 1 : opts[k] \in OptDefs
  BY <1>2
<1>4. Passed(i)'
  BY <1>1, <1>2, <1>3 DEF Passed
<1>5. Written(i)'
  <2>1. \A k \in 1..i - 1 : Loaded(opts[k], Meant(opts[k]))' = Loaded(opts[k], Meant(opts[k]))
    BY <1>1, <1>3
  <2>2. i' = i /\ opts' = opts /\ mem' = mem /\ before' = before
    OBVIOUS
  <2> QED BY <1>2, <2>1, <2>2 DEF Written
<1> QED BY <1>1, <1>2, <1>4, <1>5

(* One turn of the loop of load(). *)
LEMMA LoadOptKeeps == LoadInv /\ LoadOpt => LoadInv'
<1> SUFFICES ASSUME LoadInv, LoadOpt  PROVE LoadInv'
  OBVIOUS
<1> DEFINE o == opts[i]
           w == OptVal(o)
<1>1. /\ opts \in Seq(OptDefs) /\ (\A d \in OptDefs : d.addr \in DOMAIN mem)
      /\ call = "load" /\ err = 0 /\ argv \in Argvs /\ i \in 1..Len(opts) + 1
      /\ Passed(i) /\ Written(i) /\ i \in DOMAIN opts /\ InBuf(o)
      /\ UNCHANGED <<opts, argv, bufSize, lines, before>>
  BY DEF LoadInv, LoadOpt, Running
<1>2. o \in OptDefs /\ i \in 1..Len(opts) /\ Len(opts) \in Nat
  BY <1>1
<1>3. w = Meant(o)
  BY <1>1, <1>2, SearchFindsMeant
<1>4. CASE Accepts(o, w) /\ mem' = [mem EXCEPT ![o.addr] = Loaded(o, w)]
           /\ i' = i + 1 /\ UNCHANGED <<call, err>>
  <2>1. \A d \in OptDefs : Meant(d)' = Meant(d) /\ (InBuf(d) <=> InBuf(d)')
    BY <1>1 DEF Meant, InBuf
  <2>2. \A k \in 1..i : opts[k] \in OptDefs
    BY <1>1, <1>2
  <2>3. DOMAIN mem' = DOMAIN mem /\ o.addr \in DOMAIN mem
    BY <1>1, <1>2, <1>4
  <2>4. Passed(i)'
    <3> SUFFICES ASSUME NEW k \in 1..i
                 PROVE  InBuf(opts[k])' /\ Accepts(opts[k], Meant(opts[k]))'
      BY <1>2, <1>4 DEF Passed
    <3>1. InBuf(opts[k]) /\ Accepts(opts[k], Meant(opts[k]))
      BY <1>1, <1>2, <1>3, <1>4 DEF Passed
    <3> QED BY <1>1, <2>1, <2>2, <3>1
  <2>5. Written(i)'
    <3> SUFFICES ASSUME NEW a \in DOMAIN mem
                 PROVE  \/ /\ \A k \in 1..i : opts[k].addr # a
                           /\ mem'[a] = before[a]
                        \/ \E k \in 1..i :
                             /\ opts[k].addr = a
                             /\ \A j \in 1..i : opts[j].addr = a => j <= k
                             /\ mem'[a] = Loaded(opts[k], Meant(opts[k]))
      <4>1. /\ i' - 1 = i /\ opts' = opts /\ before' = before
            /\ \A k \in 1..i : Loaded(opts[k], Meant(opts[k]))' = Loaded(opts[k], Meant(opts[k]))
        BY <1>1, <1>2, <1>4, <2>1, <2>2
      <4> QED BY <2>3, <4>1 DEF Written
    <3>1. CASE a = o.addr
      <4>1. mem'[a] = Loaded(opts[i], Meant(opts[i])) /\ opts[i].addr = a /\ i \in 1..i
        BY <1>2, <1>3, <1>4, <2>3, <3>1
      <4> QED BY <4>1
    <3>2. CASE a # o.addr
      <4>1. mem'[a] = mem[a]
        BY <1>4, <3>2
      <4>2. CASE (\A k \in 1..i - 1 : opts[k].addr # a) /\ mem[a] = before[a]
        BY <1>2, <3>2, <4>1, <4>2
      <4>3. CASE \E k \in 1..i - 1 :
                   /\ opts[k].addr = a
                   /\ \A j \in 1..i - 1 : opts[j].addr = a => j <= k
                   /\ mem[a] = Loaded(opts[k], Meant(opts[k]))
        BY <1>2, <3>2, <4>1, <4>3
      <4> QED BY <1>1, <4>2, <4>3 DEF Written
    <3> QED BY <3>1, <3>2
  <2>6. i' \in 1..Len(opts) + 1
    BY <1>2, <1>4
  <2> QED BY <1>1, <1>4, <2>3, <2>4, <2>5, <2>6 DEF LoadInv
<1>5. CASE ~Accepts(o, w) /\ err' = EINVAL /\ call' = "loaded" /\ UNCHANGED <<mem, i>>
  <2>1. /\ (argv \in Argvs /\ i \in 1..Len(opts) + 1 /\ Passed(i) /\ Written(i))'
        /\ \A d \in OptDefs : Meant(d)' = Meant(d) /\ (InBuf(d) <=> InBuf(d)')
    BY <1>1, <1>5, LoadStays
  <2>2. Ended'
    BY <1>1, <1>2, <1>3, <1>5, <2>1 DEF Ended
  <2> QED BY <1>1, <1>5, <2>1, <2>2 DEF LoadInv
<1> QED BY <1>4, <1>5 DEF LoadOpt

LEMMA LoadInvNext == LoadInv /\ [OptNext]_optVars => LoadInv'
<1> SUFFICES ASSUME LoadInv, [OptNext]_optVars  PROVE LoadInv'
  OBVIOUS
<1>1. ASSUME NEW o \in OptDefs, regMetaOpt(o)  PROVE LoadInv'
  BY <1>1 DEF LoadInv, regMetaOpt
<1>2. ASSUME NEW c \in Changes, Change(c[1], c[2])  PROVE LoadInv'
  BY <1>2 DEF LoadInv, Change
<1>3. ASSUME NEW args \in Argvs, NEW size \in Sizes, Start("load", args, size)
      PROVE  LoadInv'
  <2>1. Len(opts) \in Nat /\ i' = 1 /\ argv' = args /\ err' = 0 /\ before' = mem
        /\ mem' = mem /\ opts' = opts /\ call' = "load"
    BY <1>3 DEF Start, LoadInv
  <2>2. Passed(i)' /\ Written(i)'
    BY <2>1 DEF Passed, Written
  <2> QED BY <1>3, <2>1, <2>2 DEF LoadInv
<1>4. ASSUME NEW size \in Sizes, Start("save", <<>>, size)  PROVE LoadInv'
  BY <1>4 DEF LoadInv, Start
<1>5. CASE LoadOpt
  BY <1>5, LoadOptKeeps
<1>6. CASE SaveOpt
  BY <1>6 DEF LoadInv, SaveOpt, Running
<1>7. CASE LoopEnds
  <2>1. CASE call = "load"
    <3>1. /\ UNCHANGED <<opts, mem, argv, bufSize, i, before, err>>
          /\ err = 0 /\ call' = "loaded" /\ ~Running(call)
      BY <1>7, <2>1 DEF LoopEnds, LoadInv
    <3>2. /\ (argv \in Argvs /\ i \in 1..Len(opts) + 1 /\ Passed(i) /\ Written(i))'
          /\ \A o \in OptDefs : InBuf(o) <=> InBuf(o)'
      BY <2>1, <3>1, LoadStays
    <3>3. Ended'
      BY <2>1, <3>1, <3>2 DEF Ended, Running, LoadInv
    <3> QED BY <3>1, <3>2, <3>3 DEF LoadInv
  <2>2. CASE call = "save"
    BY <1>7, <2>2 DEF LoopEnds, LoadInv
  <2> QED BY <1>7, <2>1, <2>2 DEF LoopEnds
<1>8. CASE Return
  BY <1>8 DEF LoadInv, Return
<1>9. CASE UNCHANGED optVars
  <2>1. UNCHANGED <<opts, mem, call, argv, bufSize, i, err, lines, before>>
    BY <1>9 DEF optVars
  <2>2. CASE call \in {"load", "loaded"}
    <3>1. /\ (argv \in Argvs /\ i \in 1..Len(opts) + 1 /\ Passed(i) /\ Written(i))'
          /\ \A o \in OptDefs : Meant(o)' = Meant(o) /\ (InBuf(o) <=> InBuf(o)')
      BY <2>1, <2>2, LoadStays
    <3>2. Ended => Ended'
      BY <2>1, <3>1 DEF Ended, LoadInv
    <3> QED BY <2>1, <3>1, <3>2 DEF LoadInv
  <2>3. CASE call \notin {"load", "loaded"}
    BY <2>1, <2>3 DEF LoadInv
  <2> QED BY <2>2, <2>3
<1> QED BY <1>1, <1>2, <1>3, <1>4, <1>5, <1>6, <1>7, <1>8, <1>9 DEF OptNext

(* A load() that has ended in front of the i-th option has done what the   *)
(* property says.                                                          *)
LEMMA EndedLoads == LoadInv => LoadsPrefix
<1> SUFFICES ASSUME LoadInv, call = "loaded"  PROVE LoadsPrefix
  BY DEF LoadsPrefix
<1> DEFINE bad == {k \in Reach : ~Accepts(opts[k], Meant(opts[k]))}
           done == {k \in Reach : \A j \in bad : k < j}
<1>1. /\ DOMAIN opts = 1..Len(opts) /\ Len(opts) \in Nat
      /\ i \in 1..Len(opts) + 1 /\ Passed(i) /\ Written(i) /\ Ended
  BY DEF LoadInv
<1>2. Reach = {k \in DOMAIN opts : \A j \in 1..k : InBuf(opts[j])}
  BY DEF Reach, InBuf
<1>3. \A k \in 1..i - 1 : k \in Reach /\ k \notin bad
  BY <1>1, <1>2 DEF Passed
<1>4. done = 1..i - 1 /\ (err < 0) = (bad # {})
  <2>1. CASE err = 0 /\ (i \in DOMAIN opts => ~InBuf(opts[i]))
    <3>1. \A k \in Reach : k \in 1..i - 1
      BY <1>1, <1>2, <2>1
    <3>2. bad = {}
      BY <1>3, <3>1
    <3> QED BY <1>3, <2>1, <3>1, <3>2
  <2>2. CASE /\ err = EINVAL /\ i \in DOMAIN opts /\ InBuf(opts[i])
             /\ ~Accepts(opts[i], Meant(opts[i]))
    <3>1. i \in Reach
      BY <1>1, <1>2, <2>2 DEF Passed
    <3>2. i \in bad
      BY <2>2, <3>1
    <3>3. Reach \subseteq Nat \ {0} /\ bad \subseteq Reach
      BY <1>1, <1>2
    <3>4. ASSUME NEW j \in bad  PROVE i <= j
      <4>1. j \in Nat \ {0} /\ j \notin 1..i - 1
        BY <1>3, <3>3, Zenon
      <4> QED BY <1>1, <4>1
    <3>5. \A k \in done : k \in 1..i - 1
      BY <1>1, <1>2, <3>2, <3>3
    <3>6. \A k \in 1..i - 1 : k \in done
      BY <1>1, <1>3, <3>3, <3>4
    <3> QED BY <2>2, <3>2, <3>5, <3>6 DEF EINVAL
  <2> QED BY <1>1, <2>1, <2>2 DEF Ended
<1> HIDE DEF bad, done
<1>5. ASSUME NEW a \in DOMAIN mem
      PROVE  LET writers == {k \in done : opts[k].addr = a}
             IN  IF writers = {} THEN mem[a] = before[a]
                 ELSE \E k \in writers :
                        /\ \A j \in writers : j <= k
                        /\ mem[a] = Loaded(opts[k], Meant(opts[k]))
  BY <1>1, <1>4 DEF Written
<1> QED BY <1>4, <1>5 DEF LoadsPrefix, bad, done

(* A load() that returns has written a front part of the options, each     *)
(* from the word behind the first appearance of its key or from its        *)
(* default, and nothing else of the struct; its error tells whether a word *)
(* was refused, and not whether the struct was too small (opt_loader.h,    *)
(* opt_loader::load and opt_parser).                                       *)
THEOREM LoadWritesAFront == OptSpec => []LoadsPrefix
<1>1. OptInit => LoadInv
  BY LoadInvInit
<1>2. LoadInv /\ [OptNext]_optVars => LoadInv'
  BY LoadInvNext
<1>3. LoadInv => LoadsPrefix
  BY EndedLoads
<1> QED BY <1>1, <1>2, <1>3, PTL DEF OptSpec
=============================================================================
