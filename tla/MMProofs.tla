------------------------------ MODULE MMProofs ------------------------------
(***************************************************************************)
(* What the functions of mm.c do with the words of the arena, for every    *)
(* arena and chunk size.                                                   *)
(***************************************************************************)
EXTENDS MM, WellFoundedInduction, TLAPS

-----------------------------------------------------------------------------
(* Induction without an operator parameter: a set of naturals that is not  *)
(* empty has a least element, a bounded one a greatest.                    *)
LEMMA LeastElement == \A T \in SUBSET Nat : T # {} => \E m \in T : \A n \in T : m <= n
<1> SUFFICES ASSUME NEW T \in SUBSET Nat, T # {} PROVE \E m \in T : \A n \in T : m <= n
  OBVIOUS
<1> DEFINE R == OpToRel(<, Nat)
<1>1. IsWellFoundedOn(R, Nat)
  BY NatLessThanWellFounded
<1>2. \A x, y \in Nat : x < y => <<x, y>> \in R
  BY DEF OpToRel
<1> HIDE DEF R
<1>3. PICK x \in T : \A y \in T : ~(<<y, x>> \in R)
  BY <1>1, WFMin
<1>4. \A y \in T : ~(y < x)
  BY <1>2, <1>3
<1> QED BY <1>4

LEMMA GreatestElement ==
    ASSUME NEW K \in Nat, NEW T \in SUBSET (0..K), T # {}
    PROVE  \E m \in T : \A n \in T : n <= m
<1> DEFINE U == {K - n : n \in T}
<1>1. U \in SUBSET Nat /\ U # {}
  <2>1. \A n \in T : K - n \in Nat
    OBVIOUS
  <2>2. PICK n \in T : TRUE
    OBVIOUS
  <2>3. K - n \in U
    OBVIOUS
  <2> QED BY <2>1, <2>3
<1>2. PICK u \in U : \A v \in U : u <= v
  BY <1>1, LeastElement
<1>3. PICK m \in T : u = K - m
  OBVIOUS
<1>4. \A n \in T : K - m <= K - n
  BY <1>2, <1>3
<1> QED BY <1>4

(* A recursive function exists if every call is on an argument of smaller  *)
(* order.  val is what it returns at once; where it collects or adds, it   *)
(* adds its argument, or the number val, to what the call returns.         *)
Descends(D, Ends, next, ord, K) ==
    /\ K \in Nat /\ ord \in [D -> 0..K]
    /\ \A x \in D \ Ends : next[x] \in D /\ ord[next[x]] < ord[x]

Solves(g, D, Ends, Collects, Adds, val, next) ==
    /\ g = [x \in D |-> g[x]]
    /\ \A x \in D : g[x] = IF x \in Ends THEN val[x]
                          ELSE IF x \in Collects THEN {x} \union g[next[x]]
                          ELSE IF x \in Adds THEN val[x] + g[next[x]] ELSE g[next[x]]

LEMMA RecursionExists ==
    \A D, Ends, next, ord, K : Descends(D, Ends, next, ord, K) =>
        \A Collects, Adds, val : \E g : Solves(g, D, Ends, Collects, Adds, val, next)
<1> SUFFICES ASSUME NEW D, NEW Ends, NEW next, NEW ord, NEW K, Descends(D, Ends, next, ord, K),
                    NEW Collects, NEW Adds, NEW val
             PROVE  \E g : Solves(g, D, Ends, Collects, Adds, val, next)
  OBVIOUS
<1> USE DEF Descends
<1> DEFINE Body(g, x) == IF x \in Ends THEN val[x]
                         ELSE IF x \in Collects THEN {x} \union g[next[x]]
                         ELSE IF x \in Adds THEN val[x] + g[next[x]] ELSE g[next[x]]
           Upto(g, n) == g = [x \in D |-> g[x]] /\ \A x \in D : ord[x] < n => g[x] = Body(g, x)
           T == {n \in Nat : ~\E g : Upto(g, n)}
<1>1. 0 \notin T
  <2>1. Upto([x \in D |-> x], 0)
    OBVIOUS
  <2> QED BY <2>1
<1>2. ASSUME NEW n \in Nat, n \notin T PROVE n + 1 \notin T
  <2>1. PICK g : Upto(g, n)
    BY <1>2
  <2> DEFINE g2 == [x \in D |-> IF ord[x] = n THEN Body(g, x) ELSE g[x]]
  <2>2. ASSUME NEW x \in D, ord[x] < n + 1 PROVE g2[x] = Body(g2, x)
    <3>0. ord[x] \in Nat
      OBVIOUS
    <3>1. x \notin Ends => g2[next[x]] = g[next[x]]
      <4> SUFFICES ASSUME x \notin Ends PROVE g2[next[x]] = g[next[x]]
        OBVIOUS
      <4>1. next[x] \in D /\ ord[next[x]] < ord[x] /\ ord[next[x]] \in Nat
        OBVIOUS
      <4>2. ord[next[x]] # n
        BY <4>1, <3>0, <2>2
      <4> QED BY <4>1, <4>2
    <3>2. Body(g2, x) = Body(g, x)
      BY <3>1
    <3>3. CASE ord[x] = n
      BY <3>2, <3>3
    <3>4. CASE ord[x] < n
      <4>1. g2[x] = g[x] /\ g[x] = Body(g, x)
        BY <3>4, <2>1, <3>0
      <4> QED BY <4>1, <3>2
    <3> QED BY <3>0, <3>3, <3>4, <2>2
  <2>3. g2 = [x \in D |-> g2[x]]
    OBVIOUS
  <2>4. Upto(g2, n + 1)
    <3> HIDE DEF g2, Body
    <3> QED BY <2>2, <2>3
  <2> HIDE DEF g2, Upto
  <2> QED BY <2>4
<1>3. T = {}
  <2> SUFFICES ASSUME T # {} PROVE FALSE
    OBVIOUS
  <2> HIDE DEF T
  <2>0. T \in SUBSET Nat
    BY DEF T
  <2>1. PICK m \in T : \A n \in T : m <= n
    BY <2>0, LeastElement
  <2>2. m \in Nat /\ m # 0
    BY <1>1, <2>0
  <2>3. m - 1 \in Nat /\ m - 1 \notin T /\ (m - 1) + 1 = m
    BY <2>1, <2>2
  <2> QED BY <2>3, <1>2
<1>4. PICK g : Upto(g, K + 1)
  <2>1. K + 1 \in Nat
    OBVIOUS
  <2>2. K + 1 \notin T
    <3> HIDE DEF T
    <3> QED BY <1>3
  <2> HIDE DEF Upto
  <2> QED BY <2>1, <2>2
<1>5. \A x \in D : g[x] = Body(g, x)
  <2> HIDE DEF Body
  <2>1. \A x \in D : ord[x] < K + 1
    OBVIOUS
  <2> QED BY <1>4, <2>1
<1>6. g = [x \in D |-> g[x]]
  BY <1>4
<1> QED BY <1>5, <1>6 DEF Solves

-----------------------------------------------------------------------------
(* Addresses, words and tags.                                              *)
Arena == [Words -> Nat]

LEMMA WordsType ==
    /\ MAX_HEAP \in Nat /\ MAX_HEAP % 8 = 0 /\ MAX_HEAP >= 24
    /\ \A a : a \in Words <=> a \in Nat /\ a < MAX_HEAP /\ a % 4 = 0
BY ArenaAssumption DEF Words, WSIZE

LEMMA TagType ==
    \A w \in Nat : /\ GET_SIZE(w) \in Nat /\ GET_SIZE(w) % 8 = 0 /\ GET_SIZE(w) <= w
                  /\ GET_ALLOC(w) \in {0, 1}
BY DEF GET_SIZE, GET_ALLOC

LEMMA Packed ==
    \A s \in Nat, a \in {0, 1} : s % 8 = 0 =>
        PACK(s, a) \in Nat /\ GET_SIZE(PACK(s, a)) = s /\ GET_ALLOC(PACK(s, a)) = a
BY DEF PACK, GET_SIZE, GET_ALLOC

-----------------------------------------------------------------------------
(* The walk of mm_malloc ends, in any arena: every step goes up.           *)
Fits(m, asize, bp) == GET_ALLOC(m[HDRP(bp)]) = 0 /\ GET_SIZE(m[HDRP(bp)]) >= asize

LEMMA FitWalk ==
    ASSUME NEW h, h.mem \in Arena, NEW asize
    PROVE  \E walk :
             /\ FirstFit(h, asize) = walk[h.heap_start_pos]
             /\ \A bp \in Nat :
                   walk[bp] = IF HDRP(bp) \notin Words THEN Wild
                              ELSE IF GET_SIZE(h.mem[HDRP(bp)]) = 0 THEN NULL
                              ELSE IF Fits(h.mem, asize, bp) THEN bp
                              ELSE walk[bp + GET_SIZE(h.mem[HDRP(bp)])]
<1> DEFINE Size(bp) == GET_SIZE(h.mem[HDRP(bp)])
           Body(g, bp) == IF HDRP(bp) \notin Words THEN Wild
                          ELSE IF Size(bp) = 0 THEN NULL
                          ELSE IF GET_ALLOC(h.mem[HDRP(bp)]) = 0 /\ Size(bp) >= asize THEN bp
                          ELSE g[bp + Size(bp)]
           Wide == {bp \in Nat : HDRP(bp) \in Words /\ Size(bp) > 0}
           Ends == {bp \in Nat : bp \notin Wide \/ Fits(h.mem, asize, bp)}
           val  == [bp \in Nat |-> IF HDRP(bp) \notin Words THEN Wild
                                   ELSE IF Size(bp) = 0 THEN NULL ELSE bp]
           next == [bp \in Nat |-> bp + Size(bp)]
           K    == MAX_HEAP + 4
           ord  == [bp \in Nat |-> IF bp <= K THEN K - bp ELSE 0]
           walk == CHOOSE g : g = [bp \in Nat |-> Body(g, bp)]
<1>1. FirstFit(h, asize) = walk[h.heap_start_pos]
  BY DEF FirstFit
<1>2. \A bp \in Wide : Size(bp) \in Nat /\ Size(bp) > 0 /\ bp < K
  BY WordsType, TagType DEF Arena, HDRP, WSIZE
<1>3. \A bp \in Nat : HDRP(bp) \in Words => Size(bp) \in Nat
  BY TagType DEF Arena
<1>4. K \in Nat /\ ord \in [Nat -> 0..K]
  BY WordsType
<1>5. Descends(Nat, Ends, next, ord, K)
  <2> SUFFICES ASSUME NEW bp \in Nat \ Ends PROVE next[bp] \in Nat /\ ord[next[bp]] < ord[bp]
    BY <1>4 DEF Descends
  <2>1. Size(bp) \in Nat /\ Size(bp) > 0 /\ bp < K
    BY <1>2
  <2>2. next[bp] = bp + Size(bp)
    OBVIOUS
  <2> HIDE DEF Size, next, K, Wide, Ends
  <2> QED BY <1>4, <2>1, <2>2
<1>6. PICK g : Solves(g, Nat, Ends, {}, {}, val, next)
  <2> HIDE DEF Ends, val, next, K, ord
  <2> QED BY <1>5, RecursionExists
<1>7. g = [bp \in Nat |-> Body(g, bp)]
  <2>1. ASSUME NEW bp \in Nat PROVE g[bp] = Body(g, bp)
    <3>0. g[bp] = IF bp \in Ends THEN val[bp] ELSE g[next[bp]]
      <4> HIDE DEF Ends, val, next
      <4> QED BY <1>6 DEF Solves
    <3>1. CASE HDRP(bp) \notin Words
      BY <3>0, <3>1
    <3>2. CASE HDRP(bp) \in Words /\ Size(bp) = 0
      BY <3>0, <3>2
    <3>3. CASE HDRP(bp) \in Words /\ Size(bp) > 0
      BY <3>0, <3>3 DEF Fits
    <3> QED BY <3>1, <3>2, <3>3, <1>3
  <2>2. g = [bp \in Nat |-> g[bp]]
    BY <1>6 DEF Solves
  <2> HIDE DEF Body
  <2> QED BY <2>1, <2>2
<1>8. walk = [bp \in Nat |-> Body(walk, bp)]
  <2> HIDE DEF Body
  <2> QED BY <1>7
<1>9. ASSUME NEW bp \in Nat
      PROVE  walk[bp] = IF HDRP(bp) \notin Words THEN Wild
                        ELSE IF Size(bp) = 0 THEN NULL
                        ELSE IF Fits(h.mem, asize, bp) THEN bp ELSE walk[bp + Size(bp)]
  <2>1. walk[bp] = Body(walk, bp)
    <3> HIDE DEF walk, Body
    <3> QED BY <1>8
  <2> HIDE DEF walk
  <2> QED BY <2>1, <1>3 DEF Fits
<1> HIDE DEF walk
<1> QED BY <1>1, <1>9

(* So does the walk that collects the list.                                *)
LEMMA ListWalk ==
    ASSUME NEW h, h.mem \in Arena
    PROVE  \E walk :
             /\ \A start : ListFrom(h, start) = walk[start]
             /\ \A bp \in Nat :
                   walk[bp] = IF HDRP(bp) \notin Words THEN {}
                              ELSE IF GET_SIZE(h.mem[HDRP(bp)]) = 0 THEN {}
                              ELSE {bp} \union walk[bp + GET_SIZE(h.mem[HDRP(bp)])]
<1> DEFINE Size(bp) == GET_SIZE(h.mem[HDRP(bp)])
           Body(g, bp) == IF HDRP(bp) \notin Words THEN {}
                          ELSE IF Size(bp) = 0 THEN {} ELSE {bp} \union g[bp + Size(bp)]
           Wide == {bp \in Nat : HDRP(bp) \in Words /\ Size(bp) > 0}
           Ends == {bp \in Nat : bp \notin Wide}
           val  == [bp \in Nat |-> {}]
           next == [bp \in Nat |-> bp + Size(bp)]
           K    == MAX_HEAP + 4
           ord  == [bp \in Nat |-> IF bp <= K THEN K - bp ELSE 0]
           walk == CHOOSE g : g = [bp \in Nat |-> Body(g, bp)]
<1>1. \A start : ListFrom(h, start) = walk[start]
  BY DEF ListFrom
<1>2. \A bp \in Wide : Size(bp) \in Nat /\ Size(bp) > 0 /\ bp < K
  BY WordsType, TagType DEF Arena, HDRP, WSIZE
<1>3. \A bp \in Nat : HDRP(bp) \in Words => Size(bp) \in Nat
  BY TagType DEF Arena
<1>4. K \in Nat /\ ord \in [Nat -> 0..K]
  BY WordsType
<1>5. Descends(Nat, Ends, next, ord, K)
  <2> SUFFICES ASSUME NEW bp \in Nat \ Ends PROVE next[bp] \in Nat /\ ord[next[bp]] < ord[bp]
    BY <1>4 DEF Descends
  <2>1. Size(bp) \in Nat /\ Size(bp) > 0 /\ bp < K
    BY <1>2
  <2>2. next[bp] = bp + Size(bp)
    OBVIOUS
  <2> HIDE DEF Size, next, K, Wide, Ends
  <2> QED BY <1>4, <2>1, <2>2
<1>6. PICK g : Solves(g, Nat, Ends, Nat, {}, val, next)
  <2> HIDE DEF Ends, val, next, K, ord
  <2> QED BY <1>5, RecursionExists
<1>7. g = [bp \in Nat |-> Body(g, bp)]
  <2>1. ASSUME NEW bp \in Nat PROVE g[bp] = Body(g, bp)
    <3>0. g[bp] = IF bp \in Ends THEN val[bp] ELSE {bp} \union g[next[bp]]
      <4> HIDE DEF Ends, val, next
      <4> QED BY <1>6 DEF Solves
    <3>1. CASE HDRP(bp) \notin Words
      BY <3>0, <3>1
    <3>2. CASE HDRP(bp) \in Words /\ Size(bp) = 0
      BY <3>0, <3>2
    <3>3. CASE HDRP(bp) \in Words /\ Size(bp) > 0
      BY <3>0, <3>3
    <3> QED BY <3>1, <3>2, <3>3, <1>3
  <2>2. g = [bp \in Nat |-> g[bp]]
    BY <1>6 DEF Solves
  <2> HIDE DEF Body
  <2> QED BY <2>1, <2>2
<1>8. walk = [bp \in Nat |-> Body(walk, bp)]
  <2> HIDE DEF Body
  <2> QED BY <1>7
<1>9. \A bp \in Nat : walk[bp] = Body(walk, bp)
  <2> HIDE DEF walk, Body
  <2> QED BY <1>8
<1> HIDE DEF walk
<1> QED BY <1>1, <1>9

(* mm_malloc's walk returns a block that fits, or that there is none, or   *)
(* leaves the arena.                                                       *)
LEMMA FitType ==
    ASSUME NEW h, h.mem \in Arena, h.heap_start_pos \in Nat, h.heap_start_pos % 8 = 0,
           NEW asize
    PROVE  \/ FirstFit(h, asize) \in {Wild, NULL}
           \/ /\ FirstFit(h, asize) \in Nat /\ HDRP(FirstFit(h, asize)) \in Words
              /\ FirstFit(h, asize) % 8 = 0 /\ Fits(h.mem, asize, FirstFit(h, asize))
<1>1. PICK walk :
         /\ FirstFit(h, asize) = walk[h.heap_start_pos]
         /\ \A bp \in Nat :
               walk[bp] = IF HDRP(bp) \notin Words THEN Wild
                          ELSE IF GET_SIZE(h.mem[HDRP(bp)]) = 0 THEN NULL
                          ELSE IF Fits(h.mem, asize, bp) THEN bp
                          ELSE walk[bp + GET_SIZE(h.mem[HDRP(bp)])]
  BY FitWalk
<1> DEFINE Good(r) == \/ r \in {Wild, NULL}
                      \/ /\ r \in Nat /\ HDRP(r) \in Words /\ r % 8 = 0
                         /\ Fits(h.mem, asize, r)
           T == {bp \in 0..(MAX_HEAP + 3) : bp % 8 = 0 /\ ~Good(walk[bp])}
<1>2. \A bp \in Nat : HDRP(bp) \in Words =>
         /\ bp <= MAX_HEAP + 3
         /\ GET_SIZE(h.mem[HDRP(bp)]) \in Nat /\ bp + GET_SIZE(h.mem[HDRP(bp)]) \in Nat
         /\ GET_SIZE(h.mem[HDRP(bp)]) % 8 = 0
  BY WordsType, TagType, SMTT(30) DEF HDRP, WSIZE, Arena
<1>3. MAX_HEAP + 3 \in Nat
  BY WordsType
<1> HIDE DEF Good
<1>4. \A bp \in Nat : bp \notin T /\ bp % 8 = 0 => Good(walk[bp])
  <2> SUFFICES ASSUME NEW bp \in Nat, bp \notin T, bp % 8 = 0, bp > MAX_HEAP + 3 PROVE Good(walk[bp])
    BY <1>3
  <2>1. HDRP(bp) \notin Words
    BY <1>2, <1>3
  <2> QED BY <2>1, <1>1 DEF Good
<1>5. T = {}
  <2> SUFFICES ASSUME T # {} PROVE FALSE
    OBVIOUS
  <2>1. PICK bp \in T : \A c \in T : c <= bp
    <3>1. T \in SUBSET (0..(MAX_HEAP + 3))
      OBVIOUS
    <3> HIDE DEF T
    <3> QED BY <1>3, <3>1, GreatestElement
  <2> DEFINE n == bp + GET_SIZE(h.mem[HDRP(bp)])
  <2>2. bp \in Nat /\ ~Good(walk[bp]) /\ bp % 8 = 0
    OBVIOUS
  <2>3. HDRP(bp) \in Words /\ GET_SIZE(h.mem[HDRP(bp)]) # 0 /\ ~Fits(h.mem, asize, bp)
    BY <2>2, <1>1 DEF Good
  <2>4. n \in Nat /\ n > bp /\ n % 8 = 0
    BY <2>2, <2>3, <1>2
  <2>5. walk[bp] = walk[n]
    BY <2>2, <2>3, <1>1
  <2>6. n \notin T
    <3> HIDE DEF T
    <3> QED BY <2>1, <2>2, <2>4
  <2> HIDE DEF T, n
  <2> QED BY <2>2, <2>4, <2>5, <2>6, <1>4
<1>6. Good(walk[h.heap_start_pos])
  <2> HIDE DEF T
  <2> QED BY <1>4, <1>5
<1> QED BY <1>1, <1>6 DEF Good

(* If the walk finds no block, none of the list fits.                      *)
LEMMA NoFit ==
    ASSUME NEW h, h.mem \in Arena, h.heap_start_pos \in Nat, NEW asize,
           FirstFit(h, asize) = NULL
    PROVE  \A b \in ListFrom(h, h.heap_start_pos) : HDRP(b) \in Words /\ ~Fits(h.mem, asize, b)
<1>1. PICK walk :
         /\ FirstFit(h, asize) = walk[h.heap_start_pos]
         /\ \A bp \in Nat :
               walk[bp] = IF HDRP(bp) \notin Words THEN Wild
                          ELSE IF GET_SIZE(h.mem[HDRP(bp)]) = 0 THEN NULL
                          ELSE IF Fits(h.mem, asize, bp) THEN bp
                          ELSE walk[bp + GET_SIZE(h.mem[HDRP(bp)])]
  BY FitWalk
<1>2. PICK list :
         /\ \A start : ListFrom(h, start) = list[start]
         /\ \A bp \in Nat :
               list[bp] = IF HDRP(bp) \notin Words THEN {}
                          ELSE IF GET_SIZE(h.mem[HDRP(bp)]) = 0 THEN {}
                          ELSE {bp} \union list[bp + GET_SIZE(h.mem[HDRP(bp)])]
  BY ListWalk
<1> DEFINE Good(bp) == walk[bp] = NULL => \A b \in list[bp] : HDRP(b) \in Words /\ ~Fits(h.mem, asize, b)
           T == {bp \in 0..(MAX_HEAP + 3) : ~Good(bp)}
<1>3. \A bp \in Nat : HDRP(bp) \in Words =>
         /\ bp <= MAX_HEAP + 3 /\ HDRP(bp) # -4
         /\ GET_SIZE(h.mem[HDRP(bp)]) \in Nat /\ bp + GET_SIZE(h.mem[HDRP(bp)]) \in Nat
  BY WordsType, TagType DEF HDRP, WSIZE, Arena
<1>4. MAX_HEAP + 3 \in Nat
  BY WordsType
<1> HIDE DEF Good
<1>5. \A bp \in Nat : bp \notin T => Good(bp)
  <2> SUFFICES ASSUME NEW bp \in Nat, bp \notin T, bp > MAX_HEAP + 3 PROVE Good(bp)
    BY <1>4
  <2>1. HDRP(bp) \notin Words
    BY <1>3, <1>4
  <2> QED BY <2>1, <1>2 DEF Good
<1>6. T = {}
  <2> SUFFICES ASSUME T # {} PROVE FALSE
    OBVIOUS
  <2>1. PICK bp \in T : \A c \in T : c <= bp
    <3>1. T \in SUBSET (0..(MAX_HEAP + 3))
      OBVIOUS
    <3> HIDE DEF T
    <3> QED BY <1>4, <3>1, GreatestElement
  <2> DEFINE n == bp + GET_SIZE(h.mem[HDRP(bp)])
  <2>2. bp \in Nat /\ ~Good(bp)
    OBVIOUS
  <2>3. HDRP(bp) \in Words /\ GET_SIZE(h.mem[HDRP(bp)]) # 0
    BY <2>2, <1>2 DEF Good
  <2>4. n \in Nat /\ n > bp
    BY <2>2, <2>3, <1>3
  <2>5. list[bp] = {bp} \union list[n]
    BY <2>2, <2>3, <1>2
  <2>6. bp # 0 /\ walk[bp] = IF Fits(h.mem, asize, bp) THEN bp ELSE walk[n]
    BY <2>2, <2>3, <1>1, WordsType DEF HDRP, WSIZE
  <2>7. n \notin T
    <3> HIDE DEF T
    <3> QED BY <2>1, <2>2, <2>4
  <2>8. Good(n)
    <3> HIDE DEF T, n
    <3> QED BY <2>4, <2>7, <1>5
  <2> HIDE DEF T, n
  <2>9. walk[bp] = NULL /\ ~Fits(h.mem, asize, bp) /\ walk[n] = NULL
    BY <2>2, <2>6 DEF Good, NULL
  <2> QED BY <2>2, <2>3, <2>5, <2>8, <2>9 DEF Good
<1>7. Good(h.heap_start_pos)
  <2> HIDE DEF T
  <2> QED BY <1>5, <1>6
<1> QED BY <1>1, <1>2, <1>7 DEF Good
-----------------------------------------------------------------------------
(* memcpy, whichever way it goes: words outside the target stay, and a word*)
(* whose source it has not written itself is copied.                       *)
Target(dst, n) == {a \in Words : dst <= a /\ a < dst + n}

LEMMA MemcpyIs ==
    ASSUME NEW m \in Arena, NEW dst \in Nat, NEW src \in Nat, NEW n \in Nat,
           dst % 4 = 0, src % 4 = 0, src + n <= MAX_HEAP,
           NEW r \in memcpy(m, dst, src, n)
    PROVE  /\ r \in Arena
           /\ \A a \in Words \ Target(dst, n) : r[a] = m[a]
           /\ \A a \in Target(dst, n) :
                 ~(src + (a - dst) \in Target(dst, n) /\ src + (a - dst) < a) =>
                     r[a] = m[src + (a - dst)]
<1> DEFINE s(a) == src + (a - dst)
           offset == {a - dst : a \in Target(dst, n)}
           atOnce == [a \in Words |-> IF a - dst \in offset THEN m[s(a)] ELSE m[a]]
           Body(g, a) == IF a - dst \in offset
                         THEN IF s(a) < a /\ s(a) >= dst THEN g[s(a)] ELSE m[s(a)]
                         ELSE m[a]
           upwards == CHOOSE g : g = [a \in Words |-> Body(g, a)]
<1>1. r \in {atOnce, upwards}
  BY DEF memcpy, Target
<1>2. \A a \in Words : a - dst \in offset <=> a \in Target(dst, n)
  BY WordsType DEF Target
<1>3. \A a \in Target(dst, n) : s(a) \in Words
  <2> SUFFICES ASSUME NEW a \in Target(dst, n) PROVE s(a) \in Words
    OBVIOUS
  <2>1. a \in Nat /\ a % 4 = 0 /\ dst <= a /\ a < dst + n
    BY WordsType DEF Target
  <2>2. s(a) \in Nat /\ s(a) % 4 = 0 /\ s(a) < MAX_HEAP
    BY <2>1, WordsType
  <2> QED BY <2>2, WordsType
<1> HIDE DEF offset
<1>4. CASE r = atOnce
  <2>1. \A a \in Words : r[a] = IF a \in Target(dst, n) THEN m[s(a)] ELSE m[a]
    BY <1>2, <1>4
  <2>2. r \in Arena
    BY <1>2, <1>3, <1>4 DEF Arena
  <2> QED BY <2>1, <2>2 DEF Target
<1>5. CASE r = upwards
  <2> DEFINE Moves == {a \in Target(dst, n) : s(a) < a /\ s(a) >= dst}
             Ends == Words \ Moves
             val  == [a \in Words |-> IF a \in Target(dst, n) THEN m[s(a)] ELSE m[a]]
             next == [a \in Words |-> s(a)]
             ord  == [a \in Words |-> a]
  <2>1. Descends(Words, Ends, next, ord, MAX_HEAP)
    <3>1. MAX_HEAP \in Nat /\ ord \in [Words -> 0..MAX_HEAP]
      BY WordsType
    <3> SUFFICES ASSUME NEW a \in Words \ Ends PROVE next[a] \in Words /\ ord[next[a]] < ord[a]
      BY <3>1 DEF Descends
    <3>2. a \in Words /\ s(a) \in Words /\ s(a) < a
      BY <1>3
    <3> QED BY <3>2
  <2>2. PICK g : Solves(g, Words, Ends, {}, {}, val, next)
    <3> HIDE DEF Ends, val, next, ord
    <3> QED BY <2>1, RecursionExists
  <2>3. g = [a \in Words |-> Body(g, a)]
    <3>1. ASSUME NEW a \in Words PROVE g[a] = Body(g, a)
      <4>1. g[a] = IF a \in Ends THEN val[a] ELSE g[next[a]]
        <5> HIDE DEF Ends, val, next
        <5> QED BY <2>2 DEF Solves
      <4> QED BY <4>1, <1>2
    <3>2. g = [a \in Words |-> g[a]]
      BY <2>2 DEF Solves
    <3> HIDE DEF Body
    <3> QED BY <3>1, <3>2
  <2>4. upwards = [a \in Words |-> Body(upwards, a)]
    <3> HIDE DEF Body
    <3> QED BY <2>3
  <2>5. \A a \in Words : r[a] = Body(r, a)
    <3> HIDE DEF Body, upwards
    <3> QED BY <2>4, <1>5
  <2>6. r = [a \in Words |-> r[a]]
    <3> HIDE DEF upwards
    <3>1. DOMAIN r = Words
      BY <2>4, <1>5
    <3> QED BY <2>4, <1>5
  <2> HIDE DEF upwards
  <2>7. \A a \in Words : r[a] \in Nat
    <3> SUFFICES ASSUME {a \in Words : r[a] \notin Nat} # {} PROVE FALSE
      OBVIOUS
    <3>1. PICK a \in {a \in Words : r[a] \notin Nat} :
             \A b \in {c \in Words : r[c] \notin Nat} : a <= b
      <4> DEFINE T == {c \in Words : r[c] \notin Nat}
      <4>1. T \in SUBSET Nat /\ T # {}
        BY WordsType
      <4> HIDE DEF T
      <4>2. \E a \in T : \A b \in T : a <= b
        BY <4>1, LeastElement
      <4> QED BY <4>2 DEF T
    <3>2. a \in Words /\ a \in Nat /\ r[a] \notin Nat
      BY <3>1, WordsType
    <3>3. a \in Target(dst, n) /\ s(a) < a /\ r[a] = r[s(a)] /\ s(a) \in Words
      BY <3>2, <2>5, <1>2, <1>3 DEF Arena
    <3>4. s(a) \in Nat /\ ~(a <= s(a))
      BY <3>2, <3>3, WordsType
    <3> QED BY <3>1, <3>2, <3>3, <3>4
  <2>8. r \in Arena
    BY <2>6, <2>7 DEF Arena
  <2>9. \A a \in Words \ Target(dst, n) : r[a] = m[a]
    BY <2>5, <1>2
  <2>10. ASSUME NEW a \in Target(dst, n), ~(s(a) \in Target(dst, n) /\ s(a) < a)
         PROVE  r[a] = m[s(a)]
    <3>1. a \in Words /\ s(a) \in Words /\ s(a) \in Nat /\ a \in Nat /\ a < dst + n
      BY <1>3, WordsType DEF Target
    <3>2. ~(s(a) < a /\ s(a) >= dst)
      BY <3>1, <2>10 DEF Target
    <3> QED BY <3>1, <3>2, <2>5, <1>2
  <2> QED BY <2>8, <2>9, <2>10
<1> QED BY <1>1, <1>4, <1>5
-----------------------------------------------------------------------------
(* Heaps.  From mm_init on the break is one word past a doubleword         *)
(* boundary, so that the epilogue header, AT the break, is in the arena.   *)
Typed(h) == h \in [mem : Arena, brk : Nat, heap_start_pos : Nat, lossless : BOOLEAN]

Ready(h) ==
    /\ Typed(h)
    /\ h.brk % 8 = 4 /\ 20 <= h.brk /\ h.brk + 4 <= MAX_HEAP
    /\ h.heap_start_pos = 16

Pointer(p) == p \in Nat /\ HDRP(p) \in Words /\ p % 8 = 0

(* The same heap with other words.                                         *)
With(h, m) == [h EXCEPT !.mem = m]

LEMMA WithType ==
    ASSUME NEW h, NEW m \in Arena
    PROVE  /\ Typed(h) => /\ Typed(With(h, m)) /\ With(h, m).mem = m
                          /\ With(h, m).brk = h.brk
                          /\ With(h, m).heap_start_pos = h.heap_start_pos
                          /\ With(h, m).lossless = h.lossless
           /\ Ready(h) => Ready(With(h, m))
<1>1. Typed(h) => /\ Typed(With(h, m)) /\ With(h, m).mem = m
                  /\ With(h, m).brk = h.brk
                  /\ With(h, m).heap_start_pos = h.heap_start_pos
                  /\ With(h, m).lossless = h.lossless
  BY DEF Typed, With
<1> QED BY <1>1 DEF Ready

LEMMA PointerType ==
    \A p : Pointer(p) => /\ p \in Nat /\ p % 4 = 0 /\ p >= 4 /\ p < MAX_HEAP + 4
                         /\ HDRP(p) = p - 4 /\ p # NULL /\ p # Wild
BY WordsType DEF Pointer, HDRP, WSIZE, NULL, Wild

LEMMA ResultIs == \A h, r : Result(h, r).heap = h /\ Result(h, r).ret = r
BY DEF Result

(* A frame: header and footer of one block.                                *)
LEMMA FrameIs ==
    ASSUME NEW h, Typed(h), NEW bp, NEW size \in Nat, NEW alloc \in {0, 1}
    PROVE  LET f == Frame(h, bp, size, alloc)
           IN  \/ /\ HDRP(bp) \in Words /\ bp + size - DSIZE \in Words /\ f.ret = bp
                  /\ \E m \in Arena :
                        /\ f.heap = With(h, m)
                        /\ m[HDRP(bp)] = size + alloc /\ m[bp + size - DSIZE] = size + alloc
                        /\ \A w \in Words \ {HDRP(bp), bp + size - DSIZE} : m[w] = h.mem[w]
               \/ /\ ~(HDRP(bp) \in Words /\ bp + size - DSIZE \in Words)
                  /\ f.ret = Wild /\ f.heap = h
<1> DEFINE top == HDRP(bp)
           foot == bp + size - DSIZE
           f == Frame(h, bp, size, alloc)
           m == [h.mem EXCEPT ![top] = PACK(size, alloc), ![foot] = PACK(size, alloc)]
<1>1. CASE {top, foot} \subseteq Words
  <2>1. f = Result([h EXCEPT !.mem[top] = PACK(size, alloc), !.mem[foot] = PACK(size, alloc)], bp)
    BY <1>1 DEF Frame
  <2>2. PACK(size, alloc) = size + alloc /\ PACK(size, alloc) \in Nat
    BY DEF PACK
  <2> HIDE DEF top, foot
  <2>3. m \in Arena
    BY <1>1, <2>2 DEF Typed, Arena
  <2>4. [h EXCEPT !.mem[top] = PACK(size, alloc), !.mem[foot] = PACK(size, alloc)] = With(h, m)
    BY DEF Typed, With
  <2>5. /\ m[top] = size + alloc /\ m[foot] = size + alloc
        /\ \A w \in Words \ {top, foot} : m[w] = h.mem[w]
    BY <1>1, <2>2 DEF Typed, Arena
  <2> HIDE DEF m, f
  <2>6. f.ret = bp /\ f.heap = With(h, m)
    BY <2>1, <2>4, ResultIs
  <2> QED BY <1>1, <2>3, <2>5, <2>6 DEF top, foot, f
<1>2. CASE ~({top, foot} \subseteq Words)
  <2>1. f = Result(h, Wild)
    BY <1>2 DEF Frame
  <2> QED BY <1>2, <2>1, ResultIs
<1> QED BY <1>1, <1>2

(* A merge: header of the first block, footer of the last one, found from  *)
(* the last one's header, which may be the one just written.               *)
LEMMA MergeIs ==
    ASSUME NEW h, Typed(h), NEW first, NEW last, NEW size \in Nat,
           HDRP(first) \in Words, HDRP(last) \in Words
    PROVE  LET r == Merge(h, first, last, size)
               s == IF HDRP(first) = HDRP(last) THEN PACK(size, 0) ELSE h.mem[HDRP(last)]
               foot == last + GET_SIZE(s) - DSIZE
           IN  \/ /\ foot \in Words /\ r.ret = first
                  /\ \E m \in Arena :
                        /\ r.heap = With(h, m)
                        /\ m[HDRP(first)] = size /\ m[foot] = size
                        /\ \A w \in Words \ {HDRP(first), foot} : m[w] = h.mem[w]
               \/ foot \notin Words /\ r.ret = Wild /\ r.heap = h
<1> DEFINE top == HDRP(first)
           s == IF HDRP(first) = HDRP(last) THEN PACK(size, 0) ELSE h.mem[HDRP(last)]
           foot == last + GET_SIZE(s) - DSIZE
           m1 == [h.mem EXCEPT ![top] = PACK(size, 0)]
           m == [m1 EXCEPT ![foot] = PACK(size, 0)]
           r == Merge(h, first, last, size)
<1>1. PACK(size, 0) = size /\ PACK(size, 0) \in Nat
  BY DEF PACK
<1>2. m1[HDRP(last)] = s
  BY DEF Typed, Arena
<1>3. FTRP(m1, last) = foot
  BY <1>2 DEF FTRP
<1>4. r = IF foot \in Words THEN Result([h EXCEPT !.mem = m], first) ELSE Result(h, Wild)
  BY <1>3 DEF Merge
<1> HIDE DEF top, foot
<1>5. CASE foot \in Words
  <2>1. m \in Arena
    BY <1>1, <1>5 DEF Typed, Arena
  <2>2. /\ m[top] = size /\ m[foot] = size
        /\ \A w \in Words \ {top, foot} : m[w] = h.mem[w]
    BY <1>1, <1>5 DEF Typed, Arena, top
  <2>3. r.ret = first /\ r.heap = With(h, m)
    BY <1>4, <1>5, ResultIs DEF With
  <2> HIDE DEF m, r
  <2> QED BY <1>5, <2>1, <2>2, <2>3 DEF top, foot, r
<1>6. CASE foot \notin Words
  <2>1. r.ret = Wild /\ r.heap = h
    BY <1>4, <1>6, ResultIs
  <2> HIDE DEF r
  <2> QED BY <1>6, <2>1 DEF foot, r
<1> QED BY <1>5, <1>6

-----------------------------------------------------------------------------
(***************************************************************************)
(* What the calls return, whatever the arena holds: after an extension has *)
(* lost memory too.                                                        *)
(***************************************************************************)
SameShape(h, g) == \E m \in Arena : g = With(h, m)

LEMMA ShapeType ==
    ASSUME NEW h, Typed(h)
    PROVE  /\ SameShape(h, h)
           /\ \A g : SameShape(h, g) =>
                 /\ Typed(g) /\ g.brk = h.brk /\ g.heap_start_pos = h.heap_start_pos
                 /\ g.lossless = h.lossless
                 /\ Ready(h) => Ready(g)
                 /\ \A f : SameShape(g, f) => SameShape(h, f)
<1>1. h = With(h, h.mem) /\ h.mem \in Arena
  BY DEF Typed, With
<1>2. \A m1, m2 : With(With(h, m1), m2) = With(h, m2)
  BY DEF Typed, With
<1> QED BY <1>1, <1>2, WithType DEF SameShape

LEMMA CoalesceType ==
    ASSUME NEW h, Typed(h), NEW bp \in Int, bp % 8 = 0
    PROVE  LET r == coalesce(h, bp)
           IN  SameShape(h, r.heap) /\ (r.ret = Wild \/ Pointer(r.ret))
<1> DEFINE m    == h.mem
           prev == PREV_BLKP(m, bp)
           next == NEXT_BLKP(m, bp)
           Size(b)    == GET_SIZE(m[HDRP(b)])
           prev_alloc == GET_ALLOC(m[FTRP(m, prev)]) = 1
           next_alloc == GET_ALLOC(m[HDRP(next)]) = 1
           readable   == /\ {HDRP(bp), bp - DSIZE} \subseteq Words
                         /\ {HDRP(prev), HDRP(next)} \subseteq Words
                         /\ FTRP(m, prev) \in Words
           r == coalesce(h, bp)
           Fine(q) == SameShape(h, q.heap) /\ (q.ret = Wild \/ Pointer(q.ret))
<1>1. CASE ~readable
  <2>1. r = Result(h, Wild)
    BY <1>1 DEF coalesce
  <2> QED BY <2>1, ShapeType, ResultIs
<1>2. CASE readable
  <2>1. /\ Pointer(bp) /\ prev \in Int /\ next \in Int /\ prev % 8 = 0 /\ next % 8 = 0
    <3>1. HDRP(bp) \in Words /\ bp - DSIZE \in Words /\ bp \in Nat
      BY <1>2, WordsType DEF HDRP, WSIZE
    <3>2. /\ GET_SIZE(m[HDRP(bp)]) \in Nat /\ GET_SIZE(m[bp - DSIZE]) \in Nat
          /\ GET_SIZE(m[HDRP(bp)]) % 8 = 0 /\ GET_SIZE(m[bp - DSIZE]) % 8 = 0
      BY <3>1, TagType DEF Typed, Arena
    <3> QED BY <3>1, <3>2 DEF PREV_BLKP, NEXT_BLKP, Pointer
  <2>2. Pointer(prev) /\ Pointer(next)
    <3> HIDE DEF prev, next
    <3> QED BY <1>2, <2>1, WordsType DEF Pointer, HDRP, WSIZE
  <2>3. Size(bp) \in Nat /\ Size(next) \in Nat /\ Size(prev) \in Nat
    BY <1>2, TagType DEF Typed, Arena
  <2>4. \A first, last, size : Pointer(first) /\ Pointer(last) /\ size \in Nat =>
            Fine(Merge(h, first, last, size))
    <3> SUFFICES ASSUME NEW first, NEW last, NEW size \in Nat, Pointer(first), Pointer(last)
                 PROVE  Fine(Merge(h, first, last, size))
      OBVIOUS
    <3>1. HDRP(first) \in Words /\ HDRP(last) \in Words
      BY DEF Pointer
    <3> QED BY <3>1, MergeIs, ShapeType DEF SameShape
  <2>5. \/ r = Result(h, bp) \/ r = Merge(h, bp, next, Size(bp) + Size(next))
        \/ r = Merge(h, prev, bp, Size(prev) + Size(bp))
        \/ r = Merge(h, prev, next, Size(prev) + Size(bp) + Size(next))
    <3>1. CASE prev_alloc /\ next_alloc
      BY <1>2, <3>1 DEF coalesce
    <3>2. CASE prev_alloc /\ ~next_alloc
      BY <1>2, <3>2 DEF coalesce
    <3>3. CASE ~prev_alloc /\ next_alloc
      BY <1>2, <3>3 DEF coalesce
    <3>4. CASE ~prev_alloc /\ ~next_alloc
      BY <1>2, <3>4 DEF coalesce
    <3> QED BY <3>1, <3>2, <3>3, <3>4
  <2>6. Fine(Result(h, bp))
    BY <2>1, ShapeType, ResultIs
  <2> HIDE DEF Fine, r, prev, next
  <2>7. Fine(r)
    <3> DEFINE sb == Size(bp)
               sn == Size(next)
               sp == Size(prev)
    <3>1. sb + sn \in Nat /\ sp + sb \in Nat /\ sp + sb + sn \in Nat
      BY <2>3
    <3>2. \/ r = Result(h, bp) \/ r = Merge(h, bp, next, sb + sn)
          \/ r = Merge(h, prev, bp, sp + sb) \/ r = Merge(h, prev, next, sp + sb + sn)
      BY <2>5
    <3> HIDE DEF sb, sn, sp
    <3> QED BY <3>1, <3>2, <2>1, <2>2, <2>4, <2>6
  <2> QED BY <2>7 DEF Fine, r
<1> QED BY <1>1, <1>2

(* The extension: a new block with header, footer and epilogue, which is   *)
(* then coalesced; or nothing at all.                                      *)
Extended(h, n, g) ==
    /\ Ready(g) /\ g.brk = h.brk + n /\ g.lossless = h.lossless
    /\ g.mem[h.brk] = n /\ g.mem[h.brk + n - 4] = n /\ g.mem[h.brk + n] = 1
    /\ \A w \in Words \ {h.brk, h.brk + n - 4, h.brk + n} : g.mem[w] = h.mem[w]

LEMMA ExtendIs ==
    ASSUME NEW h, Ready(h), NEW n \in Nat, n % 8 = 0, n >= CHUNKSIZE
    PROVE  LET e == extend_heap(h, n \div WSIZE)
           IN  \/ h.brk + n > MAX_HEAP /\ e.ret = NULL /\ e.heap = h
               \/ /\ h.brk + n <= MAX_HEAP
                  /\ \E g : Extended(h, n, g) /\ e = coalesce(g, h.brk + 4)
<1> DEFINE words == n \div WSIZE
           s == mem_sbrk(h, n)
           bp == s.ret + WSIZE
           framed == Frame(s.heap, bp, n, 0).heap
           g == [framed EXCEPT !.mem[s.ret + n] = PACK(0, 1)]
           e == extend_heap(h, words)
<1>1. CHUNKSIZE \in Nat /\ n >= 16
  BY ChunkAssumption
<1>2. /\ (IF words % 2 = 1 THEN words + 1 ELSE words) * WSIZE = n
      /\ ALIGN(Larger(n, CHUNKSIZE)) = n
  <2>1. words * 4 = n /\ words % 2 = 0 /\ words \in Nat
    BY DEF WSIZE
  <2>2. Larger(n, CHUNKSIZE) = n
    BY <1>1 DEF Larger
  <2>3. ALIGN(n) = n
    BY DEF ALIGN
  <2> QED BY <2>1, <2>2, <2>3 DEF WSIZE
<1>3. e = IF s.ret = Fail THEN Result(s.heap, NULL) ELSE coalesce(g, bp)
  BY <1>2 DEF extend_heap
<1>4. h.brk \in Nat /\ h.brk % 8 = 4 /\ h.brk >= 20
  BY DEF Ready, Typed
<1>5. CASE h.brk + n > MAX_HEAP
  <2>1. s.ret = Fail /\ s.heap = h
    BY <1>5, ResultIs DEF mem_sbrk
  <2> QED BY <1>3, <1>5, <2>1, ResultIs
<1>6. CASE h.brk + n <= MAX_HEAP
  <2>0. ~(n < 0 \/ h.brk + n > MAX_HEAP)
    BY <1>4, <1>6, WordsType
  <2> DEFINE grown == [h EXCEPT !.brk = h.brk + n]
  <2>1. s.ret = h.brk /\ s.heap = grown
    BY <2>0, ResultIs DEF mem_sbrk
  <2>2. Typed(grown) /\ grown.mem = h.mem /\ grown.brk = h.brk + n
        /\ grown.lossless = h.lossless /\ grown.heap_start_pos = 16
    BY <1>4 DEF Ready, Typed
  <2>3. bp = h.brk + 4 /\ HDRP(bp) = h.brk /\ bp + n - DSIZE = h.brk + n - 4
    BY <2>1, <1>4 DEF WSIZE, DSIZE, HDRP
  <2>4. h.brk \in Words /\ h.brk + n - 4 \in Words /\ h.brk + n \in Words
        /\ h.brk + n + 4 <= MAX_HEAP
    BY <1>1, <1>4, <1>6, WordsType
  <2> HIDE DEF s, grown, bp
  <2>5. PICK m \in Arena :
          /\ framed = With(grown, m) /\ m[h.brk] = n /\ m[h.brk + n - 4] = n
          /\ \A w \in Words \ {h.brk, h.brk + n - 4} : m[w] = h.mem[w]
    <3> DEFINE f == Frame(grown, bp, n, 0)
    <3>2. HDRP(bp) \in Words /\ bp + n - DSIZE \in Words
      BY <2>3, <2>4
    <3>a. Typed(grown) /\ 0 \in {0, 1}
      BY <2>2
    <3>b. \/ /\ HDRP(bp) \in Words /\ bp + n - DSIZE \in Words /\ f.ret = bp
             /\ \E m \in Arena :
                   /\ f.heap = With(grown, m)
                   /\ m[HDRP(bp)] = n + 0 /\ m[bp + n - DSIZE] = n + 0
                   /\ \A w \in Words \ {HDRP(bp), bp + n - DSIZE} : m[w] = grown.mem[w]
          \/ /\ ~(HDRP(bp) \in Words /\ bp + n - DSIZE \in Words)
             /\ f.ret = Wild /\ f.heap = grown
      BY <3>a, FrameIs, Zenon
    <3>1. \E m \in Arena :
             /\ f.heap = With(grown, m)
             /\ m[HDRP(bp)] = n + 0 /\ m[bp + n - DSIZE] = n + 0
             /\ \A w \in Words \ {HDRP(bp), bp + n - DSIZE} : m[w] = grown.mem[w]
      BY <3>2, <3>b, Zenon
    <3>3. framed = f.heap
      BY <2>1
    <3> HIDE DEF f, framed
    <3>4. n + 0 = n /\ grown.mem = h.mem
      BY <2>2
    <3> QED BY <3>1, <3>3, <3>4, <2>3
  <2> DEFINE m2 == [m EXCEPT ![h.brk + n] = 1]
  <2>6. g = With(grown, m2)
    <3>1. PACK(0, 1) = 1
      BY DEF PACK
    <3> HIDE DEF framed
    <3>2. framed \in [mem : Arena, brk : Nat, heap_start_pos : Nat, lossless : BOOLEAN]
          /\ framed.mem = m
      BY <2>5, <2>2, WithType DEF Typed
    <3>3. g = [framed EXCEPT !.mem = m2]
      BY <3>1, <3>2, <2>1
    <3> QED BY <3>3, <2>5, <2>2 DEF With, Typed
  <2>7. m2 \in Arena /\ m2[h.brk + n] = 1 /\ m2[h.brk] = n /\ m2[h.brk + n - 4] = n
        /\ \A w \in Words \ {h.brk, h.brk + n - 4, h.brk + n} : m2[w] = h.mem[w]
    <3>1. h.brk + n # h.brk /\ h.brk + n # h.brk + n - 4
      BY <1>1, <1>4
    <3> QED BY <2>4, <2>5, <3>1 DEF Arena
  <2> HIDE DEF g, m2
  <2>8. Typed(g) /\ g.mem = m2 /\ g.brk = h.brk + n /\ g.heap_start_pos = 16
        /\ g.lossless = h.lossless
    BY <2>2, <2>6, <2>7, WithType
  <2>9. Ready(g)
    BY <2>8, <2>4, <1>4, <1>1 DEF Ready
  <2>10. Extended(h, n, g)
    BY <2>7, <2>8, <2>9 DEF Extended
  <2>11. e = coalesce(g, h.brk + 4)
    <3>1. s.ret # Fail
      BY <2>1, <1>4 DEF Fail
    <3> QED BY <1>3, <3>1, <2>3 DEF g
  <2> QED BY <1>6, <2>10, <2>11
<1> QED BY <1>4, <1>5, <1>6, WordsType

LEMMA AdjustType ==
    ASSUME NEW size \in Nat
    PROVE  /\ Adjust(size) \in Nat /\ Adjust(size) % 8 = 0 /\ Adjust(size) >= 16
           /\ Adjust(size) >= size + 8
<1>1. CASE size <= 8
  BY <1>1 DEF Adjust, DSIZE
<1>2. CASE size > 8
  BY <1>2 DEF Adjust, DSIZE
<1> QED BY <1>1, <1>2

LEMMA FrameType ==
    ASSUME NEW h, Typed(h), NEW bp, NEW size \in Nat, NEW alloc \in {0, 1}
    PROVE  LET f == Frame(h, bp, size, alloc)
           IN  SameShape(h, f.heap) /\ f.ret \in {Wild, bp}
BY FrameIs, ShapeType DEF SameShape

LEMMA PlaceType ==
    ASSUME NEW h, Typed(h), NEW bp, Pointer(bp), NEW asize \in Nat,
           GET_SIZE(h.mem[HDRP(bp)]) >= asize
    PROVE  LET r == Place(h, bp, asize)
           IN  SameShape(h, r.heap) /\ r.ret \in {Wild, bp}
<1> DEFINE csize == GET_SIZE(h.mem[HDRP(bp)])
           front == Frame(h, bp, asize, 1)
           rest  == Frame(front.heap, bp + asize, csize - asize, 0)
           r == Place(h, bp, asize)
<1>1. csize \in Nat /\ csize - asize \in Nat
  BY TagType DEF Pointer, Typed, Arena
<1>2. r = IF csize - asize < 2 * DSIZE THEN Frame(h, bp, csize, 1)
          ELSE IF Wild \in {front.ret, rest.ret} THEN Result(h, Wild)
          ELSE Result(rest.heap, bp)
  BY <1>1 DEF Place, DSIZE
<1> HIDE DEF csize, r
<1>3. SameShape(h, front.heap) /\ SameShape(front.heap, rest.heap)
  <2>1. SameShape(h, front.heap) /\ Typed(front.heap)
    BY FrameType, ShapeType
  <2> HIDE DEF front
  <2> QED BY <2>1, <1>1, FrameType
<1> HIDE DEF front, rest
<1>4. SameShape(h, rest.heap) /\ SameShape(h, h)
  BY <1>3, ShapeType
<1>5. SameShape(h, Frame(h, bp, csize, 1).heap) /\ Frame(h, bp, csize, 1).ret \in {Wild, bp}
  BY <1>1, FrameType
<1>6. SameShape(h, r.heap) /\ r.ret \in {Wild, bp}
  BY <1>2, <1>4, <1>5, ResultIs
<1> QED BY <1>6 DEF r

(* What every call of the allocator keeps, and what its caller may rely on.*)
Grown(h, g) ==
    Ready(g) /\ g.brk \in Nat /\ g.brk >= h.brk /\ (g.lossless => h.lossless)

LEMMA ExtendAndPlaceType ==
    ASSUME NEW h, Ready(h), NEW asize \in Nat, asize % 8 = 0, asize >= 16
    PROVE  LET r == ExtendAndPlace(h, asize)
           IN  /\ Grown(h, r.heap) /\ (r.ret \in {NULL, Wild} \/ Pointer(r.ret))
               /\ r.ret = NULL => r.heap = h /\ h.brk + Larger(asize, CHUNKSIZE) > MAX_HEAP
<1> DEFINE n == Larger(asize, CHUNKSIZE)
           e == extend_heap(h, n \div WSIZE)
           exact  == GET_SIZE(e.heap.mem[HDRP(e.ret)]) = asize
           framed == Frame(e.heap, e.ret, asize, 1)
           r == ExtendAndPlace(h, asize)
<1>1. n \in Nat /\ n % 8 = 0 /\ n >= CHUNKSIZE
  BY ChunkAssumption DEF Larger
<1> HIDE DEF n
<1>2. r = IF e.ret \in {NULL, Wild} THEN e
          ELSE Result([framed.heap EXCEPT !.lossless = framed.heap.lossless /\ exact], framed.ret)
  BY DEF ExtendAndPlace, n
<1>3. Ready(h) /\ h.brk \in Nat /\ Grown(h, h)
  BY DEF Ready, Typed, Grown
<1>4. CASE h.brk + n > MAX_HEAP
  <2>1. e.ret = NULL /\ e.heap = h
    BY <1>1, <1>4, <1>3, WordsType, ExtendIs
  <2> QED BY <1>2, <1>3, <1>4, <2>1 DEF n
<1>5. CASE ~(h.brk + n > MAX_HEAP)
  <2>1. PICK g : Extended(h, n, g) /\ e = coalesce(g, h.brk + 4)
    BY <1>1, <1>5, ExtendIs
  <2>2. Ready(g) /\ Typed(g) /\ g.brk = h.brk + n /\ g.lossless = h.lossless
    BY <2>1 DEF Extended, Ready
  <2>3. SameShape(g, e.heap) /\ (e.ret = Wild \/ Pointer(e.ret))
    <3>1. h.brk + 4 \in Int /\ (h.brk + 4) % 8 = 0
      BY <1>3 DEF Ready
    <3> QED BY <2>1, <2>2, <3>1, CoalesceType
  <2> HIDE DEF e
  <2>4. Ready(e.heap) /\ Typed(e.heap) /\ e.heap.brk = h.brk + n /\ e.heap.lossless = h.lossless
    BY <2>2, <2>3, ShapeType
  <2>5. CASE e.ret = Wild
    <3>1. r = e
      BY <1>2, <2>5
    <3> HIDE DEF r
    <3>2. Grown(h, r.heap) /\ r.ret = Wild /\ r.ret # NULL
      BY <3>1, <2>4, <2>5, <1>1, <1>3 DEF Grown, Wild, NULL
    <3> QED BY <3>2 DEF r
  <2>6. CASE e.ret # Wild
    <3>1. Pointer(e.ret) /\ e.ret \notin {NULL, Wild}
      BY <2>3, <2>6, PointerType
    <3>2. SameShape(e.heap, framed.heap) /\ framed.ret \in {Wild, e.ret}
      BY <2>4, FrameType
    <3> HIDE DEF framed
    <3>3. Ready(framed.heap) /\ framed.heap.brk = h.brk + n /\ framed.heap.lossless = h.lossless
      BY <2>4, <3>2, ShapeType
    <3> DEFINE f == [framed.heap EXCEPT !.lossless = framed.heap.lossless /\ exact]
    <3>4. Ready(f) /\ f.brk = h.brk + n /\ (f.lossless => h.lossless)
      <4> HIDE DEF exact
      <4> QED BY <3>3 DEF Ready, Typed
    <3>5. r.heap = f /\ r.ret = framed.ret
      <4>1. r = Result(f, framed.ret)
        BY <1>2, <3>1
      <4> HIDE DEF r, f
      <4> QED BY <4>1, ResultIs
    <3> HIDE DEF r, f
    <3>6. Grown(h, r.heap) /\ (r.ret = Wild \/ Pointer(r.ret)) /\ r.ret # NULL
      BY <3>4, <3>5, <3>1, <3>2, <1>1, <1>3 DEF Grown, Wild, NULL
    <3> QED BY <3>6 DEF r
  <2> QED BY <2>5, <2>6
<1> QED BY <1>4, <1>5

(* mm_malloc returns no address, or one whose header is in the arena; it   *)
(* fails only if no block of the list fits and the arena has no room, and  *)
(* then it has changed nothing.                                            *)
LEMMA MallocType ==
    ASSUME NEW h, Ready(h), NEW size \in Nat, size > 0
    PROVE  LET r == mm_malloc(h, size)
           IN  /\ Grown(h, r.heap) /\ (r.ret \in {NULL, Wild} \/ Pointer(r.ret))
               /\ r.ret = NULL =>
                     /\ r.heap = h /\ h.brk + Larger(Adjust(size), CHUNKSIZE) > MAX_HEAP
                     /\ \A b \in ListFrom(h, 16) : HDRP(b) \in Words /\ ~Fits(h.mem, Adjust(size), b)
<1> DEFINE asize == Adjust(size)
           fit   == FirstFit(h, asize)
           r     == mm_malloc(h, size)
<1>1. asize \in Nat /\ asize % 8 = 0 /\ asize >= 16
  BY AdjustType
<1>2. Typed(h) /\ h.mem \in Arena /\ h.heap_start_pos \in Nat /\ h.heap_start_pos = 16
      /\ Grown(h, h)
  BY DEF Ready, Typed, Grown
<1> HIDE DEF asize
<1>3. r = IF fit = Wild THEN Result(h, Wild) ELSE IF fit = NULL THEN ExtendAndPlace(h, asize)
          ELSE Place(h, fit, asize)
  BY DEF mm_malloc, Wild, NULL, asize
<1>4. \/ fit \in {Wild, NULL}
      \/ fit \in Nat /\ HDRP(fit) \in Words /\ fit % 8 = 0 /\ Fits(h.mem, asize, fit)
  BY <1>2, FitType
<1>5. CASE fit = Wild
  BY <1>2, <1>3, <1>5, ResultIs DEF Wild, NULL
<1>6. CASE fit = NULL
  <2>1. r = ExtendAndPlace(h, asize)
    BY <1>3, <1>6 DEF Wild, NULL
  <2>2. \A b \in ListFrom(h, 16) : HDRP(b) \in Words /\ ~Fits(h.mem, asize, b)
    BY <1>2, <1>6, NoFit
  <2> QED BY <1>1, <2>1, <2>2, ExtendAndPlaceType DEF asize
<1>7. CASE fit \notin {Wild, NULL}
  <2>1. r = Place(h, fit, asize)
    BY <1>3, <1>7
  <2>2. Pointer(fit) /\ GET_SIZE(h.mem[HDRP(fit)]) >= asize
    BY <1>4, <1>7 DEF Pointer, Fits
  <2>3. fit # NULL
    BY <1>7
  <2> HIDE DEF fit
  <2>4. SameShape(h, r.heap) /\ r.ret \in {Wild, fit}
    BY <1>1, <1>2, <2>1, <2>2, PlaceType
  <2> HIDE DEF r
  <2>5. Ready(r.heap) /\ r.heap.brk = h.brk /\ r.heap.lossless = h.lossless
    BY <1>2, <2>4, ShapeType
  <2>6. Grown(h, r.heap) /\ (r.ret = Wild \/ Pointer(r.ret)) /\ r.ret # NULL
    BY <1>2, <2>2, <2>3, <2>4, <2>5 DEF Grown, Wild, NULL
  <2> QED BY <2>6 DEF r
<1> QED BY <1>5, <1>6, <1>7

(* mm_free returns, or leaves the arena.                                   *)
LEMMA FreeType ==
    ASSUME NEW h, Typed(h), NEW bp, Pointer(bp)
    PROVE  LET r == mm_free(h, bp)
           IN  SameShape(h, r.heap) /\ (r.ret = Wild \/ Pointer(r.ret))
<1> DEFINE framed == Frame(h, bp, GET_SIZE(h.mem[HDRP(bp)]), 0)
           r == mm_free(h, bp)
<1>1. GET_SIZE(h.mem[HDRP(bp)]) \in Nat /\ bp \in Int /\ bp % 8 = 0
  BY TagType DEF Pointer, Typed, Arena
<1>2. SameShape(h, framed.heap) /\ Typed(framed.heap)
  BY <1>1, FrameType, ShapeType
<1>3. r = IF framed.ret = Wild THEN framed ELSE coalesce(framed.heap, bp)
  BY DEF mm_free
<1> HIDE DEF framed, r
<1>4. SameShape(h, r.heap) /\ (r.ret = Wild \/ Pointer(r.ret))
  BY <1>1, <1>2, <1>3, CoalesceType, ShapeType
<1> QED BY <1>4 DEF r

(* mm_realloc up to its mm_free: mm_malloc, and a copy that changes words  *)
(* of the new payload only or leaves the arena.                            *)
Copied(h, old, size, n, r) ==
    LET q == mm_malloc(h, size)
    IN  /\ q.ret \notin {NULL, Wild}
        /\ n \in Nat /\ n <= size /\ (q.heap.mem[HDRP(old)] > 0 => n = size)
        /\ \/ old + n > MAX_HEAP /\ r = Result(q.heap, Wild)
           \/ /\ old + n <= MAX_HEAP
              /\ \E m \in memcpy(q.heap.mem, q.ret, old, n) :
                    m \in Arena /\ r = Result(With(q.heap, m), q.ret)

LEMMA ReallocIs ==
    ASSUME NEW h, Ready(h), NEW size \in Nat, size > 0, NEW old, Pointer(old), old % 8 = 0,
           NEW r \in ReallocCopies(h, old, size)
    PROVE  \/ r = mm_malloc(h, size) /\ r.ret \in {NULL, Wild}
           \/ \E n : Copied(h, old, size, n, r)
<1> DEFINE q == mm_malloc(h, size)
           n == CopySize(q.heap.mem, old, size)
<1>1. Ready(q.heap) /\ (q.ret \in {NULL, Wild} \/ Pointer(q.ret))
  BY MallocType DEF Grown
<1>2. r \in IF q.ret \in {NULL, Wild} THEN {q}
            ELSE IF old + n > MAX_HEAP THEN {Result(q.heap, Wild)}
            ELSE {Result([q.heap EXCEPT !.mem = m], q.ret) : m \in memcpy(q.heap.mem, q.ret, old, n)}
  BY DEF ReallocCopies
<1> HIDE DEF q
<1>3. CASE q.ret \in {NULL, Wild}
  BY <1>2, <1>3 DEF q
<1>4. CASE q.ret \notin {NULL, Wild}
  <2>1. Pointer(q.ret) /\ q.heap.mem \in Arena
    BY <1>1, <1>4 DEF Ready, Typed
  <2>2. old \in Nat /\ HDRP(old) \in Words /\ old - DSIZE \in Words /\ old % 4 = 0
    BY WordsType DEF Pointer, HDRP, WSIZE, DSIZE
  <2>3. n \in Nat /\ n <= size /\ (q.heap.mem[HDRP(old)] > 0 => n = size)
    <3>1. q.heap.mem[old - DSIZE] \in Nat
      BY <2>1, <2>2 DEF Arena
    <3> QED BY <3>1 DEF CopySize, Smaller
  <2> HIDE DEF n
  <2>4. CASE old + n > MAX_HEAP
    BY <1>2, <1>4, <2>3, <2>4 DEF Copied, q
  <2>5. CASE ~(old + n > MAX_HEAP)
    <3>1. PICK m \in memcpy(q.heap.mem, q.ret, old, n) : r = Result([q.heap EXCEPT !.mem = m], q.ret)
      BY <1>2, <1>4, <2>5
    <3>2. q.ret \in Nat /\ q.ret % 4 = 0 /\ old + n <= MAX_HEAP
      BY <2>1, <2>2, <2>3, <2>5, PointerType, WordsType
    <3>3. m \in Arena
      BY <2>1, <2>2, <2>3, <3>2, MemcpyIs
    <3>4. r = Result(With(q.heap, m), q.ret)
      BY <3>1 DEF With
    <3> QED BY <1>4, <2>3, <3>2, <3>3, <3>4 DEF Copied, q
  <2> QED BY <2>4, <2>5
<1> QED BY <1>3, <1>4

LEMMA ReallocType ==
    ASSUME NEW h, Ready(h), NEW size \in Nat, size > 0, NEW old, Pointer(old), old % 8 = 0,
           NEW r \in ReallocCopies(h, old, size)
    PROVE  /\ Grown(h, r.heap) /\ (r.ret \in {NULL, Wild} \/ Pointer(r.ret))
           /\ r.ret = NULL => r = mm_malloc(h, size)
<1> DEFINE q == mm_malloc(h, size)
<1>1. Grown(h, q.heap) /\ (q.ret \in {NULL, Wild} \/ Pointer(q.ret))
  BY MallocType
<1>2. \A m \in Arena : Grown(h, With(q.heap, m))
  <2> HIDE DEF q
  <2> QED BY <1>1, WithType DEF Grown, Ready
<1>3. CASE r = q /\ r.ret \in {NULL, Wild}
  BY <1>1, <1>3
<1>4. CASE \E n : Copied(h, old, size, n, r)
  <2>1. /\ q.ret \notin {NULL, Wild}
        /\ \/ r = Result(q.heap, Wild)
           \/ \E m \in Arena : r = Result(With(q.heap, m), q.ret)
    BY <1>4 DEF Copied
  <2> HIDE DEF q
  <2>2. r.ret # NULL
    BY <2>1, ResultIs DEF Wild, NULL
  <2> QED BY <1>1, <1>2, <2>1, <2>2, ResultIs
<1> QED BY <1>3, <1>4, ReallocIs

-----------------------------------------------------------------------------
(***************************************************************************)
(* The blocks of a heap that has lost no memory: z[b] is the size of the   *)
(* block at b, e the end of the list (the epilogue's block pointer), A the *)
(* blocks in use.                                                          *)
(***************************************************************************)
Blk(z) == {b \in 0..MAX_HEAP : z[b] > 0}

Chain(z, e) ==
    /\ z \in [0..MAX_HEAP -> Nat] /\ e \in Nat /\ e % 8 = 0 /\ 24 <= e /\ e <= MAX_HEAP
    /\ 24 \in Blk(z) \union {e}
    /\ \A b \in Blk(z) : /\ b % 8 = 0 /\ z[b] % 8 = 0 /\ z[b] >= 16 /\ b >= 24
                         /\ b + z[b] \in Blk(z) \union {e} /\ b + z[b] <= e
    /\ \A b, c \in Blk(z) : b < c => b + z[b] <= c
    /\ \A b \in Blk(z) \union {e} : b # 24 => \E a \in Blk(z) : a + z[a] = b

LEMMA BlkType ==
    \A z : \A b : b \in Blk(z) => b \in Nat /\ b \in 0..MAX_HEAP /\ b <= MAX_HEAP /\ z[b] > 0
BY WordsType DEF Blk

LEMMA ChainType ==
    ASSUME NEW z, NEW e, Chain(z, e)
    PROVE  /\ MAX_HEAP \in Nat /\ e \in Nat /\ e \in 0..MAX_HEAP /\ e % 8 = 0 /\ 24 <= e
           /\ e <= MAX_HEAP
           /\ \A b \in Blk(z) : /\ b \in Nat /\ b \in 0..MAX_HEAP /\ b % 8 = 0 /\ b >= 24
                                /\ z[b] \in Nat /\ z[b] % 8 = 0 /\ z[b] >= 16
                                /\ b + z[b] \in Blk(z) \union {e} /\ b + z[b] <= e /\ b < e
<1>1. MAX_HEAP \in Nat /\ e \in Nat /\ e \in 0..MAX_HEAP /\ e % 8 = 0 /\ 24 <= e /\ e <= MAX_HEAP
  <2>1. e \in Nat /\ e % 8 = 0 /\ 24 <= e /\ e <= MAX_HEAP
    BY DEF Chain
  <2> QED BY <2>1, WordsType
<1>2. ASSUME NEW b \in Blk(z)
      PROVE  /\ b \in Nat /\ b \in 0..MAX_HEAP /\ b % 8 = 0 /\ b >= 24
             /\ z[b] \in Nat /\ z[b] % 8 = 0 /\ z[b] >= 16
             /\ b + z[b] \in Blk(z) \union {e} /\ b + z[b] <= e /\ b < e
  <2>1. b \in Nat /\ b \in 0..MAX_HEAP
    BY BlkType
  <2>2. z[b] \in Nat
    BY <2>1 DEF Chain
  <2>3. b % 8 = 0 /\ z[b] % 8 = 0 /\ z[b] >= 16 /\ b >= 24
        /\ b + z[b] \in Blk(z) \union {e} /\ b + z[b] <= e
    BY DEF Chain
  <2> QED BY <1>1, <2>1, <2>2, <2>3
<1> QED BY <1>1, <1>2

(* A block is split.                                                       *)
Split(z, b, n) == [z EXCEPT ![b] = n, ![b + n] = z[b] - n]

LEMMA SplitChain ==
    ASSUME NEW z, NEW e, Chain(z, e), NEW b \in Blk(z), NEW n \in Nat, n % 8 = 0, n >= 16,
           z[b] - n >= 16
    PROVE  /\ Chain(Split(z, b, n), e) /\ Blk(Split(z, b, n)) = Blk(z) \union {b + n}
           /\ b + n \notin Blk(z) /\ b + n \in Nat
           /\ Split(z, b, n)[b] = n /\ Split(z, b, n)[b + n] = z[b] - n
           /\ \A c \in 0..MAX_HEAP : c # b /\ c # b + n => Split(z, b, n)[c] = z[c]
<1> DEFINE z2 == Split(z, b, n)
<1>0. /\ b \in Nat /\ b \in 0..MAX_HEAP /\ z[b] \in Nat
      /\ b + z[b] <= e /\ e <= MAX_HEAP /\ e \in Nat /\ MAX_HEAP \in Nat
  BY ChainType
<1>1. /\ b \in Nat /\ b \in 0..MAX_HEAP /\ z[b] \in Nat /\ b + n \in 0..MAX_HEAP /\ b + n # b
      /\ b + z[b] <= e /\ e <= MAX_HEAP /\ e \in Nat /\ MAX_HEAP \in Nat
      /\ z[b] - n \in Nat
  BY <1>0
<1>2. /\ z2[b] = n /\ z2[b + n] = z[b] - n /\ z2 \in [0..MAX_HEAP -> Nat]
      /\ \A c \in 0..MAX_HEAP : c # b /\ c # b + n => z2[c] = z[c]
  <2>1. z \in [0..MAX_HEAP -> Nat]
    BY DEF Chain
  <2> QED BY <1>1, <2>1 DEF Split
<1>3. b + n \notin Blk(z)
  <2> SUFFICES ASSUME b + n \in Blk(z) PROVE FALSE
    OBVIOUS
  <2>1. b < b + n => b + z[b] <= b + n
    BY DEF Chain
  <2> QED BY <1>1, <2>1
<1>4. Blk(z2) = Blk(z) \union {b + n}
  <2> HIDE DEF z2
  <2>1. \A c \in 0..MAX_HEAP : z2[c] > 0 <=> z[c] > 0 \/ c = b + n
    <3> SUFFICES ASSUME NEW c \in 0..MAX_HEAP PROVE z2[c] > 0 <=> z[c] > 0 \/ c = b + n
      OBVIOUS
    <3>1. CASE c = b + n
      BY <1>1, <1>2, <3>1
    <3>2. CASE c = b
      BY <1>1, <1>2, <3>2, BlkType
    <3> QED BY <1>2, <3>1, <3>2
  <2> QED BY <1>1, <2>1 DEF Blk
<1> HIDE DEF z2
<1>5. 24 \in Blk(z2) \union {e}
  BY <1>4 DEF Chain
<1>6. ASSUME NEW c \in Blk(z2)
      PROVE  /\ c % 8 = 0 /\ z2[c] % 8 = 0 /\ z2[c] >= 16 /\ c >= 24
             /\ c + z2[c] \in Blk(z2) \union {e} /\ c + z2[c] <= e
  <2>0. b % 8 = 0 /\ z[b] % 8 = 0 /\ b >= 24 /\ b + z[b] \in Blk(z) \union {e} /\ b + z[b] <= e
    BY DEF Chain
  <2>1. CASE c = b
    BY <1>1, <1>2, <1>4, <2>0, <2>1, SMTT(30)
  <2>2. CASE c = b + n
    <3>1. (b + n) + (z[b] - n) = b + z[b] /\ (b + n) % 8 = 0 /\ (z[b] - n) % 8 = 0 /\ b + n >= 24
      BY <1>1, <2>0
    <3> QED BY <1>2, <1>4, <2>0, <2>2, <3>1
  <2>3. CASE c # b /\ c # b + n
    <3>1. c \in Blk(z) /\ z2[c] = z[c]
      BY <1>2, <1>4, <2>3, BlkType
    <3> QED BY <1>4, <3>1 DEF Chain
  <2> QED BY <2>1, <2>2, <2>3
<1>7. ASSUME NEW c \in Blk(z2), NEW d \in Blk(z2), c < d PROVE c + z2[c] <= d
  <2>1. c \in Nat /\ d \in Nat /\ c \in 0..MAX_HEAP /\ d \in 0..MAX_HEAP
    BY BlkType
  <2>2. \A x, y \in Blk(z) : x < y => x + z[x] <= y
    BY DEF Chain
  <2>3. \A x \in Blk(z) : x \in Nat /\ z[x] \in Nat
    BY BlkType DEF Chain
  <2>4. CASE c = b
    <3>1. CASE d = b + n
      BY <2>4, <3>1, <1>2
    <3>2. CASE d # b + n
      <4>1. d \in Blk(z) /\ b + z[b] <= d
        BY <3>2, <2>4, <2>2, <1>4, <1>7
      <4> QED BY <4>1, <1>1, <1>2, <2>1, <2>4, SMTT(30)
    <3> QED BY <3>1, <3>2
  <2>5. CASE c = b + n
    <3>1. d \in Blk(z) /\ b < d
      BY <2>5, <2>1, <1>1, <1>4, <1>7
    <3>2. b + z[b] <= d
      BY <3>1, <2>2
    <3>3. (b + n) + (z[b] - n) <= d
      BY <3>2, <1>1, <2>1
    <3> QED BY <3>3, <1>2, <2>5
  <2>6. CASE c # b /\ c # b + n
    <3>1. c \in Blk(z) /\ z2[c] = z[c]
      BY <1>2, <1>4, <2>6, <2>1
    <3>2. CASE d = b + n
      <4>1. c < b
        <5> SUFFICES ASSUME b < c PROVE FALSE
          BY <2>1, <2>6, <1>1
        <5>1. b + z[b] <= c
          BY <3>1, <2>2
        <5> QED BY <5>1, <3>2, <1>1, <1>7, <2>1
      <4>2. c + z[c] <= b
        BY <4>1, <3>1, <2>2
      <4> QED BY <4>2, <3>1, <3>2, <1>1, <2>3
    <3>3. CASE d # b + n
      BY <3>1, <3>3, <2>2, <1>4, <1>7
    <3> QED BY <3>2, <3>3
  <2> QED BY <2>4, <2>5, <2>6
<1>8. ASSUME NEW c \in Blk(z2) \union {e}, c # 24 PROVE \E a \in Blk(z2) : a + z2[a] = c
  <2>1. CASE c = b + n
    BY <1>2, <1>4, <2>1
  <2>2. CASE c # b + n
    <3>1. PICK a \in Blk(z) : a + z[a] = c
      BY <1>4, <1>8, <2>2 DEF Chain
    <3>2. CASE a = b
      <4>1. (b + n) + z2[b + n] = c
        <5>1. (b + n) + (z[b] - n) = b + z[b]
          BY <1>1
        <5> QED BY <5>1, <1>2, <3>1, <3>2
      <4> QED BY <1>4, <4>1
    <3>3. CASE a # b
      <4>1. z2[a] = z[a]
        BY <3>3, <1>2, <1>3, BlkType
      <4> QED BY <1>4, <3>1, <4>1
    <3> QED BY <3>2, <3>3
  <2> QED BY <2>1, <2>2
<1>9. Chain(z2, e)
  BY <1>1, <1>2, <1>5, <1>6, <1>7, <1>8 DEF Chain
<1> QED BY <1>1, <1>2, <1>3, <1>4, <1>9 DEF z2

(* Two adjacent blocks become one.                                         *)
Join(z, a, b) == [z EXCEPT ![a] = z[a] + z[b], ![b] = 0]

LEMMA JoinChain ==
    ASSUME NEW z, NEW e, Chain(z, e), NEW a \in Blk(z), NEW b \in Blk(z), a + z[a] = b
    PROVE  /\ Chain(Join(z, a, b), e) /\ Blk(Join(z, a, b)) = Blk(z) \ {b}
           /\ Join(z, a, b)[a] = z[a] + z[b] /\ Join(z, a, b)[b] = 0
           /\ \A c \in 0..MAX_HEAP : c # a /\ c # b => Join(z, a, b)[c] = z[c]
<1> DEFINE z2 == Join(z, a, b)
<1>1. /\ a \in Nat /\ a \in 0..MAX_HEAP /\ z[a] \in Nat /\ b \in Nat /\ b \in 0..MAX_HEAP
      /\ z[b] \in Nat /\ a # b /\ a < b /\ z[a] >= 16 /\ z[b] >= 16
  <2>1. /\ a \in Nat /\ a \in 0..MAX_HEAP /\ z[a] \in Nat /\ b \in Nat /\ b \in 0..MAX_HEAP
        /\ z[b] \in Nat /\ z[a] >= 16 /\ z[b] >= 16
    BY ChainType
  <2> QED BY <2>1
<1>2. /\ z2[a] = z[a] + z[b] /\ z2[b] = 0 /\ z2 \in [0..MAX_HEAP -> Nat]
      /\ \A c \in 0..MAX_HEAP : c # a /\ c # b => z2[c] = z[c]
  <2>1. z \in [0..MAX_HEAP -> Nat]
    BY DEF Chain
  <2> QED BY <1>1, <2>1 DEF Join
<1>3. Blk(z2) = Blk(z) \ {b}
  <2> HIDE DEF z2
  <2>1. \A c \in 0..MAX_HEAP : z2[c] > 0 <=> z[c] > 0 /\ c # b
    BY <1>1, <1>2, BlkType
  <2> QED BY <1>1, <2>1 DEF Blk
<1> HIDE DEF z2
<1>4. 24 \in Blk(z2) \union {e}
  <2>1. b # 24
    BY <1>1 DEF Chain
  <2> QED BY <2>1, <1>3 DEF Chain
<1>5. ASSUME NEW c \in Blk(z2)
      PROVE  /\ c % 8 = 0 /\ z2[c] % 8 = 0 /\ z2[c] >= 16 /\ c >= 24
             /\ c + z2[c] \in Blk(z2) \union {e} /\ c + z2[c] <= e
  <2>1. CASE c = a
    <3>1. /\ b + z[b] \in Blk(z) \union {e} /\ b + z[b] <= e /\ b + z[b] # b
          /\ a % 8 = 0 /\ z[a] % 8 = 0 /\ z[b] % 8 = 0 /\ a >= 24
      BY <1>1, SMTT(30) DEF Chain
    <3>2. a + (z[a] + z[b]) = b + z[b] /\ (z[a] + z[b]) % 8 = 0
      BY <1>1, <3>1
    <3> QED BY <1>1, <1>2, <1>3, <2>1, <3>1, <3>2
  <2>2. CASE c # a
    <3>1. c \in Blk(z) /\ z2[c] = z[c] /\ c \in Nat /\ z[c] \in Nat /\ z[c] > 0
      BY <1>2, <1>3, <2>2, BlkType DEF Chain
    <3>2. c + z[c] # b
      <4>1. CASE c < a
        <5>1. c + z[c] <= a
          BY <3>1, <4>1 DEF Chain
        <5> QED BY <5>1, <1>1, <3>1
      <4>2. CASE a < c
        <5>1. b <= c
          BY <3>1, <4>2 DEF Chain
        <5> QED BY <5>1, <1>1, <3>1
      <4> QED BY <1>1, <2>2, <3>1, <4>1, <4>2
    <3>3. /\ c % 8 = 0 /\ z[c] % 8 = 0 /\ z[c] >= 16 /\ c >= 24
          /\ c + z[c] \in Blk(z) \union {e} /\ c + z[c] <= e
      BY <3>1 DEF Chain
    <3> QED BY <1>3, <3>1, <3>2, <3>3
  <2> QED BY <2>1, <2>2
<1>6. ASSUME NEW c \in Blk(z2), NEW d \in Blk(z2), c < d PROVE c + z2[c] <= d
  <2>1. c \in Nat /\ d \in Nat /\ c \in Blk(z) /\ d \in Blk(z) /\ c # b /\ d # b
        /\ c \in 0..MAX_HEAP
    BY <1>3, BlkType
  <2>2. CASE c = a
    <3>1. a + z[a] <= d
      BY <2>1, <2>2, <1>6 DEF Chain
    <3>2. b < d
      BY <3>1, <1>1, <2>1
    <3>3. b + z[b] <= d
      BY <3>2, <2>1 DEF Chain
    <3> QED BY <3>3, <1>1, <1>2, <2>2
  <2>3. CASE c # a
    BY <1>2, <1>6, <2>1, <2>3 DEF Chain
  <2> QED BY <2>2, <2>3
<1>7. ASSUME NEW c \in Blk(z2) \union {e}, c # 24 PROVE \E x \in Blk(z2) : x + z2[x] = c
  <2>1. PICK x \in Blk(z) : x + z[x] = c
    BY <1>3, <1>7 DEF Chain
  <2>2. CASE x = b
    <3>1. a + z2[a] = c
      BY <1>1, <1>2, <2>1, <2>2
    <3> QED BY <1>1, <1>3, <3>1
  <2>3. CASE x = a
    <3>1. c = b /\ b \notin Blk(z2)
      BY <1>3, <2>1, <2>3
    <3>2. e # b
      <4>1. b + z[b] <= e
        BY DEF Chain
      <4> QED BY <4>1, <1>1
    <3> QED BY <3>1, <3>2
  <2>4. CASE x # a /\ x # b
    <3>1. z2[x] = z[x]
      BY <1>2, <2>4, BlkType
    <3> QED BY <1>3, <2>1, <2>4, <3>1
  <2> QED BY <2>2, <2>3, <2>4
<1>8. Chain(z2, e)
  BY <1>2, <1>4, <1>5, <1>6, <1>7 DEF Chain
<1> QED BY <1>2, <1>3, <1>8 DEF z2

(* A block is added at the end.                                            *)
Longer(z, e, n) == [z EXCEPT ![e] = n]

LEMMA LongerChain ==
    ASSUME NEW z, NEW e, Chain(z, e), NEW n \in Nat, n % 8 = 0, n >= 16, e + n <= MAX_HEAP
    PROVE  /\ Chain(Longer(z, e, n), e + n) /\ Blk(Longer(z, e, n)) = Blk(z) \union {e}
           /\ e \notin Blk(z) /\ Longer(z, e, n)[e] = n
           /\ \A c \in 0..MAX_HEAP : c # e => Longer(z, e, n)[c] = z[c]
<1> DEFINE z2 == Longer(z, e, n)
<1>1. e \in Nat /\ e \in 0..MAX_HEAP /\ e % 8 = 0 /\ 24 <= e /\ e + n \in Nat /\ (e + n) % 8 = 0
  <2>1. e \in Nat /\ e \in 0..MAX_HEAP /\ e % 8 = 0 /\ 24 <= e
    BY ChainType
  <2> QED BY <2>1
<1>2. /\ z2[e] = n /\ z2 \in [0..MAX_HEAP -> Nat]
      /\ \A c \in 0..MAX_HEAP : c # e => z2[c] = z[c]
  BY <1>1 DEF Longer, Chain
<1>3. \A b \in Blk(z) : b \in Nat /\ z[b] \in Nat /\ b + z[b] <= e /\ b < e /\ z2[b] = z[b]
  BY <1>1, <1>2, BlkType DEF Chain
<1>4. Blk(z2) = Blk(z) \union {e} /\ e \notin Blk(z)
  <2> HIDE DEF z2
  <2>1. \A c \in 0..MAX_HEAP : z2[c] > 0 <=> z[c] > 0 \/ c = e
    BY <1>1, <1>2
  <2> QED BY <1>1, <1>3, <2>1 DEF Blk
<1> HIDE DEF z2
<1>5. ASSUME NEW c \in Blk(z2)
      PROVE  /\ c % 8 = 0 /\ z2[c] % 8 = 0 /\ z2[c] >= 16 /\ c >= 24
             /\ c + z2[c] \in Blk(z2) \union {e + n} /\ c + z2[c] <= e + n
  <2>1. CASE c = e
    BY <1>1, <1>2, <2>1
  <2>2. CASE c # e
    <3>1. c \in Blk(z) /\ z2[c] = z[c] /\ c + z[c] <= e /\ z[c] \in Nat /\ c \in Nat
      BY <1>3, <1>4, <2>2
    <3>2. c % 8 = 0 /\ z[c] % 8 = 0 /\ z[c] >= 16 /\ c >= 24 /\ c + z[c] \in Blk(z) \union {e}
      BY <3>1 DEF Chain
    <3> QED BY <1>1, <1>4, <3>1, <3>2
  <2> QED BY <2>1, <2>2
<1>6. ASSUME NEW c \in Blk(z2), NEW d \in Blk(z2), c < d PROVE c + z2[c] <= d
  <2>1. CASE d = e
    <3>1. c \in Blk(z)
      BY <1>4, <1>6, <2>1, <1>1
    <3> QED BY <1>3, <2>1, <3>1
  <2>2. CASE d # e
    <3>1. d \in Blk(z) /\ c # e
      BY <1>1, <1>3, <1>4, <1>6, <2>2
    <3> QED BY <1>3, <1>4, <1>6, <3>1 DEF Chain
  <2> QED BY <2>1, <2>2
<1>7. ASSUME NEW c \in Blk(z2) \union {e + n}, c # 24 PROVE \E x \in Blk(z2) : x + z2[x] = c
  <2>1. CASE c = e + n
    BY <1>2, <1>4, <2>1
  <2>2. CASE c # e + n
    <3>1. PICK x \in Blk(z) : x + z[x] = c
      BY <1>4, <1>7, <2>2 DEF Chain
    <3> QED BY <1>3, <1>4, <3>1
  <2> QED BY <2>1, <2>2
<1>8. 24 \in Blk(z2) \union {e + n}
  BY <1>4 DEF Chain
<1>9. Chain(z2, e + n)
  BY <1>1, <1>2, <1>5, <1>6, <1>7, <1>8 DEF Chain
<1> QED BY <1>2, <1>4, <1>9 DEF z2

-----------------------------------------------------------------------------
(***************************************************************************)
(* The words of such a heap: prologue, epilogue, and two equal tags for    *)
(* every block.                                                            *)
(***************************************************************************)
Tag(z, A, b) == z[b] + (IF b \in A THEN 1 ELSE 0)

Tagged(m, z, A) ==
    \A b \in Blk(z) : m[b - 4] = Tag(z, A, b) /\ m[b + z[b] - 8] = Tag(z, A, b)

Good(h, z, A) ==
    /\ Ready(h) /\ Chain(z, h.brk + 4) /\ A \subseteq Blk(z) /\ Tagged(h.mem, z, A)
    /\ h.mem[12] = 9 /\ h.mem[16] = 9 /\ h.mem[h.brk] = 1

(* The payload words of the blocks of B are as they were.                  *)
Keep(m, m2, z, B) ==
    \A b \in B : \A w \in Words : b <= w /\ w < b + z[b] - 8 => m2[w] = m[w]

TagWords(z, T) == {b - 4 : b \in T} \union {b + z[b] - 8 : b \in T}

LEMMA TagIs ==
    ASSUME NEW z, NEW e, Chain(z, e), NEW A, NEW b \in Blk(z)
    PROVE  /\ Tag(z, A, b) \in Nat /\ GET_SIZE(Tag(z, A, b)) = z[b]
           /\ GET_ALLOC(Tag(z, A, b)) = (IF b \in A THEN 1 ELSE 0)
           /\ Tag(z, A, b) > 0
<1>1. z[b] \in Nat /\ z[b] % 8 = 0 /\ z[b] >= 16
  BY ChainType
<1>2. CASE b \in A
  BY <1>1, <1>2 DEF Tag, GET_SIZE, GET_ALLOC
<1>3. CASE b \notin A
  <2>1. Tag(z, A, b) = z[b]
    BY <1>1, <1>3 DEF Tag
  <2> QED BY <1>1, <1>3, <2>1 DEF GET_SIZE, GET_ALLOC
<1> QED BY <1>2, <1>3

(* Where the tags of a block are: no two blocks share one, none is a       *)
(* payload word, and the prologue and the epilogue are outside.            *)
LEMMA TagPlaces ==
    ASSUME NEW z, NEW e, Chain(z, e), NEW b \in Blk(z)
    PROVE  /\ b - 4 \in Words /\ b + z[b] - 8 \in Words
           /\ b - 4 >= 20 /\ b + z[b] - 8 >= 32 /\ b + z[b] - 8 < e - 4 /\ b - 4 < e - 4
           /\ b - 4 # b + z[b] - 8
           /\ \A c \in Blk(z) : c # b =>
                 /\ c - 4 # b - 4 /\ c + z[c] - 8 # b - 4
                 /\ c - 4 # b + z[b] - 8 /\ c + z[c] - 8 # b + z[b] - 8
           /\ \A c \in Blk(z) : \A w \in Words : c <= w /\ w < c + z[c] - 8 =>
                 w # b - 4 /\ w # b + z[b] - 8
<1>1. /\ b \in Nat /\ b % 8 = 0 /\ b >= 24 /\ z[b] \in Nat /\ z[b] % 8 = 0 /\ z[b] >= 16
      /\ b + z[b] <= e /\ e \in Nat /\ e <= MAX_HEAP /\ MAX_HEAP \in Nat
  BY ChainType
<1>2. b - 4 \in Words /\ b + z[b] - 8 \in Words
  <2>1. /\ b - 4 \in Nat /\ (b - 4) % 4 = 0 /\ b - 4 < MAX_HEAP
        /\ b + z[b] - 8 \in Nat /\ (b + z[b] - 8) % 4 = 0 /\ b + z[b] - 8 < MAX_HEAP
    BY <1>1
  <2> QED BY <2>1, WordsType
<1>3. ASSUME NEW c \in Blk(z), c # b
      PROVE  c \in Nat /\ z[c] \in Nat /\ z[c] >= 16
             /\ (c + z[c] <= b \/ b + z[b] <= c)
  <2>1. c \in Nat /\ z[c] \in Nat /\ z[c] >= 16
    BY ChainType
  <2>2. c < b \/ b < c
    BY <1>1, <1>3, <2>1
  <2>3. (c < b => c + z[c] <= b) /\ (b < c => b + z[b] <= c)
    BY DEF Chain
  <2> QED BY <2>1, <2>2, <2>3
<1>4. \A c \in Blk(z) : c # b =>
                 /\ c - 4 # b - 4 /\ c + z[c] - 8 # b - 4
                 /\ c - 4 # b + z[b] - 8 /\ c + z[c] - 8 # b + z[b] - 8
  BY <1>1, <1>3
<1>5. \A c \in Blk(z) : \A w \in Words : c <= w /\ w < c + z[c] - 8 =>
                 w # b - 4 /\ w # b + z[b] - 8
  <2> SUFFICES ASSUME NEW c \in Blk(z), NEW w \in Words, c <= w, w < c + z[c] - 8
               PROVE  w # b - 4 /\ w # b + z[b] - 8
    OBVIOUS
  <2>1. w \in Nat
    BY WordsType
  <2>2. CASE c = b
    BY <1>1, <2>1, <2>2
  <2>3. CASE c # b
    BY <1>1, <1>3, <2>1, <2>3
  <2> QED BY <2>2, <2>3
<1>6. /\ b - 4 >= 20 /\ b + z[b] - 8 >= 32 /\ b + z[b] - 8 < e - 4 /\ b - 4 < e - 4
      /\ b - 4 # b + z[b] - 8
  BY <1>1
<1> QED BY <1>2, <1>4, <1>5, <1>6

(* New tags for the blocks of T and a new epilogue leave everything else as*)
(* it is.                                                                  *)
LEMMA Retag ==
    ASSUME NEW h, NEW z, NEW A, Good(h, z, A),
           NEW g, Ready(g), NEW z2, Chain(z2, g.brk + 4), NEW A2, A2 \subseteq Blk(z2),
           NEW T, T \subseteq Blk(z2),
           \A b \in Blk(z2) \ T : b \in Blk(z) /\ z2[b] = z[b] /\ (b \in A2 <=> b \in A),
           \A b \in T : g.mem[b - 4] = Tag(z2, A2, b) /\ g.mem[b + z2[b] - 8] = Tag(z2, A2, b),
           g.mem[g.brk] = 1,
           \A w \in Words \ TagWords(z2, T) : w # g.brk => g.mem[w] = h.mem[w]
    PROVE  Good(g, z2, A2) /\ Keep(h.mem, g.mem, z2, Blk(z2))
<1>1. g.brk \in Nat /\ g.brk + 4 \in Nat /\ g.brk >= 20 /\ g.brk + 4 <= MAX_HEAP
  BY DEF Ready, Typed
<1>2. \A w \in Words : w \in TagWords(z2, T) =>
         \E b \in T : w = b - 4 \/ w = b + z2[b] - 8
  BY DEF TagWords
<1>3. Tagged(g.mem, z2, A2)
  <2> SUFFICES ASSUME NEW b \in Blk(z2)
               PROVE  g.mem[b - 4] = Tag(z2, A2, b) /\ g.mem[b + z2[b] - 8] = Tag(z2, A2, b)
    BY DEF Tagged
  <2>1. CASE b \in T
    BY <2>1
  <2>2. CASE b \notin T
    <3>1. b \in Blk(z) /\ z2[b] = z[b] /\ (b \in A2 <=> b \in A)
      BY <2>2
    <3>2. h.mem[b - 4] = Tag(z, A, b) /\ h.mem[b + z[b] - 8] = Tag(z, A, b)
      BY <3>1 DEF Good, Tagged
    <3>3. Tag(z2, A2, b) = Tag(z, A, b)
      BY <3>1 DEF Tag
    <3>4. /\ b - 4 \in Words /\ b + z2[b] - 8 \in Words
          /\ b - 4 # g.brk /\ b + z2[b] - 8 # g.brk
      BY <1>1, TagPlaces
    <3>5. b - 4 \notin TagWords(z2, T) /\ b + z2[b] - 8 \notin TagWords(z2, T)
      <4>1. \A c \in T : c \in Blk(z2) /\ c # b
        BY <2>2
      <4>2. \A c \in T : /\ c - 4 # b - 4 /\ c + z2[c] - 8 # b - 4
                         /\ c - 4 # b + z2[b] - 8 /\ c + z2[c] - 8 # b + z2[b] - 8
        BY <4>1, TagPlaces
      <4> QED BY <4>2, <3>4, <1>2
    <3>6. g.mem[b - 4] = h.mem[b - 4] /\ g.mem[b + z2[b] - 8] = h.mem[b + z2[b] - 8]
      BY <3>4, <3>5
    <3> QED BY <3>1, <3>2, <3>3, <3>6
  <2> QED BY <2>1, <2>2
<1>4. g.mem[12] = 9 /\ g.mem[16] = 9
  <2>1. 12 \in Words /\ 16 \in Words
    BY WordsType
  <2>2. 12 \notin TagWords(z2, T) /\ 16 \notin TagWords(z2, T)
    <3>1. \A b \in T : b - 4 # 12 /\ b - 4 # 16 /\ b + z2[b] - 8 # 12 /\ b + z2[b] - 8 # 16
      <4> SUFFICES ASSUME NEW b \in T PROVE b - 4 # 12 /\ b - 4 # 16 /\ b + z2[b] - 8 # 12
                                             /\ b + z2[b] - 8 # 16
        OBVIOUS
      <4>1. b \in Blk(z2)
        OBVIOUS
      <4>2. b \in Nat /\ z2[b] \in Nat /\ b >= 24 /\ z2[b] >= 16
        BY <4>1, ChainType
      <4> QED BY <4>2
    <3> QED BY <2>1, <3>1, <1>2
  <2>3. g.brk # 12 /\ g.brk # 16
    BY <1>1
  <2> QED BY <2>1, <2>2, <2>3 DEF Good
<1>5. Keep(h.mem, g.mem, z2, Blk(z2))
  <2> SUFFICES ASSUME NEW b \in Blk(z2), NEW w \in Words, b <= w, w < b + z2[b] - 8
               PROVE  g.mem[w] = h.mem[w]
    BY DEF Keep
  <2>1. w \notin TagWords(z2, T)
    <3>1. \A c \in T : w # c - 4 /\ w # c + z2[c] - 8
      <4> SUFFICES ASSUME NEW c \in T PROVE w # c - 4 /\ w # c + z2[c] - 8
        OBVIOUS
      <4>1. c \in Blk(z2)
        OBVIOUS
      <4> QED BY <4>1, TagPlaces
    <3> QED BY <3>1, <1>2
  <2>2. w # g.brk
    <3>1. b \in Nat /\ z2[b] \in Nat /\ b + z2[b] <= g.brk + 4
      BY ChainType
    <3>2. w \in Nat
      BY WordsType
    <3> QED BY <1>1, <3>1, <3>2
  <2> QED BY <2>1, <2>2
<1> QED BY <1>3, <1>4, <1>5 DEF Good

(* What the walks read at a block, at the prologue and at the epilogue.    *)
LEMMA Reads ==
    ASSUME NEW h, NEW z, NEW A, Good(h, z, A)
    PROVE  /\ h.mem \in Arena /\ h.heap_start_pos = 16 /\ h.brk \in Nat
           /\ HDRP(16) = 12 /\ 12 \in Words /\ 16 \in Words
           /\ GET_SIZE(h.mem[12]) = 8 /\ GET_ALLOC(h.mem[12]) = 1
           /\ GET_SIZE(h.mem[16]) = 8 /\ GET_ALLOC(h.mem[16]) = 1
           /\ HDRP(h.brk + 4) = h.brk /\ h.brk \in Words
           /\ GET_SIZE(h.mem[h.brk]) = 0 /\ GET_ALLOC(h.mem[h.brk]) = 1
           /\ \A b \in Blk(z) :
                 /\ HDRP(b) = b - 4 /\ HDRP(b) \in Words
                 /\ GET_SIZE(h.mem[HDRP(b)]) = z[b]
                 /\ GET_ALLOC(h.mem[HDRP(b)]) = (IF b \in A THEN 1 ELSE 0)
                 /\ GET_SIZE(h.mem[b + z[b] - 8]) = z[b]
                 /\ GET_ALLOC(h.mem[b + z[b] - 8]) = (IF b \in A THEN 1 ELSE 0)
<1>1. h.mem \in Arena /\ h.heap_start_pos = 16 /\ h.brk \in Nat /\ h.brk % 8 = 4
      /\ h.brk + 4 <= MAX_HEAP
  BY DEF Good, Ready, Typed
<1>2. HDRP(16) = 12 /\ HDRP(h.brk + 4) = h.brk /\ 12 \in Words /\ 16 \in Words /\ h.brk \in Words
  <2>1. 12 \in Words /\ 16 \in Words
    BY WordsType
  <2>2. h.brk \in Words
    <3>1. h.brk % 4 = 0 /\ h.brk < MAX_HEAP
      BY <1>1, WordsType
    <3> QED BY <1>1, <3>1, WordsType
  <2> QED BY <1>1, <2>1, <2>2 DEF HDRP, WSIZE
<1>3. GET_SIZE(9) = 8 /\ GET_ALLOC(9) = 1 /\ GET_SIZE(1) = 0 /\ GET_ALLOC(1) = 1
  BY DEF GET_SIZE, GET_ALLOC
<1>4. h.mem[12] = 9 /\ h.mem[16] = 9 /\ h.mem[h.brk] = 1
  BY DEF Good
<1>5. ASSUME NEW b \in Blk(z)
      PROVE  /\ HDRP(b) = b - 4 /\ HDRP(b) \in Words
             /\ GET_SIZE(h.mem[HDRP(b)]) = z[b]
             /\ GET_ALLOC(h.mem[HDRP(b)]) = (IF b \in A THEN 1 ELSE 0)
             /\ GET_SIZE(h.mem[b + z[b] - 8]) = z[b]
             /\ GET_ALLOC(h.mem[b + z[b] - 8]) = (IF b \in A THEN 1 ELSE 0)
  <2>0. Chain(z, h.brk + 4)
    BY DEF Good
  <2>1. HDRP(b) = b - 4 /\ b - 4 \in Words
    BY <2>0, TagPlaces DEF HDRP, WSIZE
  <2>2. h.mem[b - 4] = Tag(z, A, b) /\ h.mem[b + z[b] - 8] = Tag(z, A, b)
    BY DEF Good, Tagged
  <2>3. GET_SIZE(Tag(z, A, b)) = z[b] /\ GET_ALLOC(Tag(z, A, b)) = (IF b \in A THEN 1 ELSE 0)
    BY <2>0, TagIs
  <2> QED BY <2>1, <2>2, <2>3
<1> QED BY <1>1, <1>2, <1>3, <1>4, <1>5

(* The list is the prologue and the blocks.                                *)
LEMMA ListIs ==
    ASSUME NEW h, NEW z, NEW A, Good(h, z, A)
    PROVE  ListFrom(h, h.heap_start_pos) = {16} \union Blk(z)
<1> DEFINE e == h.brk + 4
<1>0. Chain(z, e) /\ e \in Nat /\ e <= MAX_HEAP /\ MAX_HEAP \in Nat
  BY ChainType DEF Good
<1>1. PICK list :
         /\ \A start : ListFrom(h, start) = list[start]
         /\ \A bp \in Nat :
               list[bp] = IF HDRP(bp) \notin Words THEN {}
                          ELSE IF GET_SIZE(h.mem[HDRP(bp)]) = 0 THEN {}
                          ELSE {bp} \union list[bp + GET_SIZE(h.mem[HDRP(bp)])]
  <2>1. h.mem \in Arena
    BY Reads
  <2> QED BY <2>1, ListWalk
<1> DEFINE From(b) == {c \in Blk(z) : c >= b}
           T == {b \in Blk(z) \union {e} : list[b] # From(b)}
<1>2. T = {}
  <2> SUFFICES ASSUME T # {} PROVE FALSE
    OBVIOUS
  <2>1. PICK b \in T : \A c \in T : c <= b
    <3>1. T \in SUBSET (0..MAX_HEAP)
      BY <1>0, BlkType
    <3> HIDE DEF T
    <3> QED BY <1>0, <3>1, GreatestElement
  <2>2. CASE b = e
    <3>1. list[e] = {}
      <4>1. GET_SIZE(h.mem[HDRP(e)]) = 0
        BY Reads
      <4> HIDE DEF e
      <4> QED BY <1>0, <1>1, <4>1
    <3>2. From(e) = {}
      <4>1. \A c \in Blk(z) : c \in Nat /\ c < e
        BY <1>0, ChainType
      <4> QED BY <1>0, <4>1
    <3> QED BY <2>2, <3>1, <3>2
  <2>3. CASE b # e
    <3>1. b \in Blk(z) /\ list[b] # From(b)
      BY <2>3
    <3>2. b \in Nat /\ z[b] \in Nat /\ z[b] >= 16 /\ b + z[b] \in Blk(z) \union {e}
      BY <1>0, <3>1, ChainType
    <3>3. list[b] = {b} \union list[b + z[b]]
      <4>1. HDRP(b) \in Words /\ GET_SIZE(h.mem[HDRP(b)]) = z[b] /\ z[b] # 0
        BY <3>1, <3>2, Reads
      <4> QED BY <1>1, <3>2, <4>1
    <3>4. list[b + z[b]] = From(b + z[b])
      <4>1. ~(b + z[b] <= b)
        BY <3>2
      <4> QED BY <2>1, <3>2, <4>1
    <3>5. From(b) = {b} \union From(b + z[b])
      <4>1. \A c \in Blk(z) : c \in Nat /\ (c < b \/ c = b \/ b < c)
        BY <3>2, BlkType
      <4>2. \A c \in Blk(z) : b < c => b + z[b] <= c
        BY <1>0, <3>1 DEF Chain
      <4>3. \A c \in Blk(z) : c >= b <=> c = b \/ c >= b + z[b]
        BY <3>2, <4>1, <4>2
      <4> QED BY <3>1, <4>3
    <3> QED BY <3>1, <3>3, <3>4, <3>5
  <2> QED BY <2>2, <2>3
<1>3. list[24] = Blk(z)
  <2>1. 24 \in Blk(z) \union {e}
    BY <1>0 DEF Chain
  <2>2. list[24] = From(24)
    BY <1>2, <2>1
  <2>3. \A c \in Blk(z) : c >= 24
    BY <1>0, ChainType
  <2> QED BY <2>2, <2>3
<1>4. list[16] = {16} \union list[24]
  <2>1. 16 + 8 = 24 /\ 8 # 0 /\ 16 \in Nat
    OBVIOUS
  <2>2. HDRP(16) \in Words /\ GET_SIZE(h.mem[HDRP(16)]) = 8
    BY Reads
  <2> DEFINE p == 16
             s == GET_SIZE(h.mem[HDRP(p)])
  <2>3. p \in Nat /\ HDRP(p) \in Words /\ s # 0 /\ p + s = 24
    BY <2>1, <2>2
  <2> HIDE DEF p
  <2>4. list[p] = {p} \union list[p + s]
    BY <1>1, <2>3
  <2>5. list[p] = {p} \union list[24]
    BY <2>3, <2>4
  <2> QED BY <2>5 DEF p
<1> QED BY <1>1, <1>3, <1>4, Reads

(* The walk of mm_malloc finds the first free block that is large enough.  *)
LEMMA FitIs ==
    ASSUME NEW h, NEW z, NEW A, Good(h, z, A), NEW asize \in Nat
    PROVE  LET f == FirstFit(h, asize)
           IN  \/ f = NULL /\ \A c \in Blk(z) \ A : z[c] < asize
               \/ /\ f \in Blk(z) \ A /\ z[f] >= asize
                  /\ \A c \in Blk(z) \ A : c < f => z[c] < asize
<1> DEFINE e == h.brk + 4
<1>0. Chain(z, e) /\ e \in Nat /\ e <= MAX_HEAP /\ MAX_HEAP \in Nat
  BY ChainType DEF Good
<1>1. PICK walk :
         /\ FirstFit(h, asize) = walk[h.heap_start_pos]
         /\ \A bp \in Nat :
               walk[bp] = IF HDRP(bp) \notin Words THEN Wild
                          ELSE IF GET_SIZE(h.mem[HDRP(bp)]) = 0 THEN NULL
                          ELSE IF Fits(h.mem, asize, bp) THEN bp
                          ELSE walk[bp + GET_SIZE(h.mem[HDRP(bp)])]
  <2>1. h.mem \in Arena
    BY Reads
  <2> QED BY <2>1, FitWalk
<1> DEFINE Found(f, b) ==
             \/ f = NULL /\ \A c \in Blk(z) \ A : c >= b => z[c] < asize
             \/ /\ f \in Blk(z) \ A /\ f >= b /\ z[f] >= asize
                /\ \A c \in Blk(z) \ A : c >= b /\ c < f => z[c] < asize
           T == {b \in Blk(z) \union {e} : ~Found(walk[b], b)}
<1>2. T = {}
  <2> SUFFICES ASSUME T # {} PROVE FALSE
    OBVIOUS
  <2>1. PICK b \in T : \A c \in T : c <= b
    <3>1. T \in SUBSET (0..MAX_HEAP)
      BY <1>0, BlkType
    <3> HIDE DEF T
    <3> QED BY <1>0, <3>1, GreatestElement
  <2>2. CASE b = e
    <3>1. walk[e] = NULL
      BY <1>0, <1>1, Reads
    <3>2. \A c \in Blk(z) : c \in Nat /\ c < e
      BY <1>0, ChainType
    <3> QED BY <1>0, <2>2, <3>1, <3>2
  <2>3. CASE b # e
    <3>1. b \in Blk(z) /\ ~Found(walk[b], b)
      BY <2>3
    <3>2. b \in Nat /\ z[b] \in Nat /\ z[b] >= 16 /\ b + z[b] \in Blk(z) \union {e}
      BY <1>0, <3>1, ChainType
    <3>3. walk[b] = IF b \notin A /\ z[b] >= asize THEN b ELSE walk[b + z[b]]
      <4>1. /\ HDRP(b) \in Words /\ GET_SIZE(h.mem[HDRP(b)]) = z[b]
            /\ GET_ALLOC(h.mem[HDRP(b)]) = (IF b \in A THEN 1 ELSE 0)
        BY <3>1, Reads
      <4>2. Fits(h.mem, asize, b) <=> b \notin A /\ z[b] >= asize
        BY <4>1 DEF Fits
      <4> QED BY <1>1, <3>2, <4>1, <4>2
    <3>4. \A c \in Blk(z) : c \in Nat /\ (c >= b => c = b \/ c >= b + z[b])
      <4>1. \A c \in Blk(z) : c \in Nat /\ (c < b \/ c = b \/ b < c)
        BY <3>2, BlkType
      <4>2. \A c \in Blk(z) : b < c => b + z[b] <= c
        BY <1>0, <3>1 DEF Chain
      <4> QED BY <3>2, <4>1, <4>2
    <3>5. CASE b \notin A /\ z[b] >= asize
      <4>1. walk[b] = b
        BY <3>3, <3>5
      <4>2. b \in Blk(z) \ A /\ b >= b /\ \A c \in Blk(z) \ A : ~(c >= b /\ c < b)
        BY <3>1, <3>2, <3>4, <3>5
      <4> QED BY <3>1, <3>5, <4>1, <4>2
    <3>6. CASE ~(b \notin A /\ z[b] >= asize)
      <4>1. walk[b] = walk[b + z[b]]
        BY <3>3, <3>6
      <4>2. Found(walk[b + z[b]], b + z[b])
        <5>1. ~(b + z[b] <= b)
          BY <3>2
        <5> QED BY <2>1, <3>2, <5>1
      <4>3. b \in Blk(z) \ A => z[b] < asize
        BY <3>2, <3>6
      <4>4. CASE walk[b] = NULL /\ \A c \in Blk(z) \ A : c >= b + z[b] => z[c] < asize
        BY <3>1, <3>4, <4>3, <4>4
      <4>5. CASE /\ walk[b] \in Blk(z) \ A /\ walk[b] >= b + z[b] /\ z[walk[b]] >= asize
                 /\ \A c \in Blk(z) \ A : c >= b + z[b] /\ c < walk[b] => z[c] < asize
        <5>1. walk[b] >= b
          <6>1. walk[b] \in Nat
            BY <4>5, BlkType
          <6> QED BY <3>2, <4>5, <6>1
        <5> QED BY <3>1, <3>4, <4>3, <4>5, <5>1
      <4> QED BY <4>1, <4>2, <4>4, <4>5
    <3> QED BY <3>5, <3>6
  <2> QED BY <2>2, <2>3
<1>3. Found(walk[24], 24)
  <2>1. 24 \in Blk(z) \union {e}
    BY <1>0 DEF Chain
  <2> QED BY <1>2, <2>1
<1>4. walk[16] = walk[24]
  <2>1. 16 + 8 = 24 /\ 8 # 0 /\ 16 \in Nat
    OBVIOUS
  <2>2. ~Fits(h.mem, asize, 16)
    BY Reads DEF Fits
  <2> QED BY <1>1, <2>1, <2>2, Reads
<1>5. \A c \in Blk(z) : c >= 24
  BY <1>0, ChainType
<1>6. FirstFit(h, asize) = walk[24]
  BY <1>1, <1>4, Reads
<1> QED BY <1>3, <1>5, <1>6

-----------------------------------------------------------------------------
(***************************************************************************)
(* coalesce, by its four cases: what a free block at b becomes.            *)
(***************************************************************************)
FreeNext(z, A, b)    == b + z[b] \in Blk(z) \ A
FreePrev(z, A, a, b) == a \in Blk(z) \ A /\ a + z[a] = b
JoinAll(z, a, b, c)  == [z EXCEPT ![a] = z[a] + z[b] + z[c], ![b] = 0, ![c] = 0]

Coalescing(z, A, b, z2, ret) ==
    \/ /\ ~FreeNext(z, A, b) /\ \A a \in Blk(z) : ~FreePrev(z, A, a, b)
       /\ z2 = z /\ ret = b
    \/ /\ FreeNext(z, A, b) /\ \A a \in Blk(z) : ~FreePrev(z, A, a, b)
       /\ z2 = Join(z, b, b + z[b]) /\ ret = b
    \/ \E a \in Blk(z) : /\ ~FreeNext(z, A, b) /\ FreePrev(z, A, a, b)
                         /\ z2 = Join(z, a, b) /\ ret = a
    \/ \E a \in Blk(z) : /\ FreeNext(z, A, b) /\ FreePrev(z, A, a, b)
                         /\ z2 = JoinAll(z, a, b, b + z[b]) /\ ret = a

LEMMA JoinAllChain ==
    ASSUME NEW z, NEW e, Chain(z, e), NEW a \in Blk(z), NEW b \in Blk(z), NEW c \in Blk(z),
           a + z[a] = b, b + z[b] = c
    PROVE  /\ Chain(JoinAll(z, a, b, c), e) /\ Blk(JoinAll(z, a, b, c)) = Blk(z) \ {b, c}
           /\ JoinAll(z, a, b, c)[a] = z[a] + z[b] + z[c]
           /\ a # b /\ a # c /\ b # c
           /\ \A x \in 0..MAX_HEAP : x \notin {a, b, c} => JoinAll(z, a, b, c)[x] = z[x]
<1> DEFINE y == Join(z, a, b)
<1>1. /\ Chain(y, e) /\ Blk(y) = Blk(z) \ {b} /\ y[a] = z[a] + z[b] /\ y[b] = 0
      /\ \A x \in 0..MAX_HEAP : x # a /\ x # b => y[x] = z[x]
  BY JoinChain
<1>2. /\ a \in Nat /\ b \in Nat /\ z[a] \in Nat /\ z[b] \in Nat /\ z[c] \in Nat /\ z[a] >= 16
      /\ z[b] >= 16 /\ z[c] >= 16 /\ a \in 0..MAX_HEAP /\ b \in 0..MAX_HEAP /\ c \in 0..MAX_HEAP
  BY ChainType
<1>3. a # b /\ a # c /\ b # c
  BY <1>2
<1> HIDE DEF y
<1>4. y[c] = z[c] /\ a \in Blk(y) /\ c \in Blk(y) /\ a + y[a] = c
  BY <1>1, <1>2, <1>3
<1>5. /\ Chain(Join(y, a, c), e) /\ Blk(Join(y, a, c)) = Blk(y) \ {c}
      /\ Join(y, a, c)[a] = y[a] + y[c]
      /\ \A x \in 0..MAX_HEAP : x # a /\ x # c => Join(y, a, c)[x] = y[x]
  BY <1>1, <1>4, JoinChain
<1>6. Join(y, a, c) = JoinAll(z, a, b, c)
  <2>1. z \in [0..MAX_HEAP -> Nat]
    BY DEF Chain
  <2> QED BY <2>1, <1>2, <1>3, <1>4, <1>1 DEF Join, JoinAll, y
<1> QED BY <1>1, <1>2, <1>3, <1>4, <1>5, <1>6

(* All other blocks stay, and b is part of the block at ret.               *)
Others(z, z2, b, ret) ==
    Blk(z2) \subseteq Blk(z) /\ \A c \in Blk(z2) \ {ret} : z2[c] = z[c] /\ c # b

LEMMA CoalescingChain ==
    ASSUME NEW z, NEW e, Chain(z, e), NEW A, A \subseteq Blk(z), NEW b \in Blk(z) \ A,
           NEW z2, NEW ret, Coalescing(z, A, b, z2, ret)
    PROVE  /\ Chain(z2, e) /\ A \subseteq Blk(z2) /\ Blk(z2) \subseteq Blk(z)
           /\ ret \in Blk(z2) \ A /\ z2[ret] >= z[b]
           /\ Others(z, z2, b, ret)
           /\ (z2[ret] = z[b] => z2 = z /\ ret = b /\ \A a \in Blk(z) : ~FreePrev(z, A, a, b))
<1> USE DEF Others
<1>0. \A x \in Blk(z) : x \in 0..MAX_HEAP /\ x \in Nat /\ z[x] \in Nat /\ z[x] >= 16
  BY ChainType
<1>1. CASE z2 = z /\ ret = b /\ \A a \in Blk(z) : ~FreePrev(z, A, a, b)
  BY <1>0, <1>1
<1>2. CASE FreeNext(z, A, b) /\ z2 = Join(z, b, b + z[b]) /\ ret = b
  <2>1. b + z[b] \in Blk(z) /\ b + z[b] \notin A
    BY <1>2 DEF FreeNext
  <2>2. /\ Chain(z2, e) /\ Blk(z2) = Blk(z) \ {b + z[b]} /\ z2[b] = z[b] + z[b + z[b]]
        /\ \A c \in 0..MAX_HEAP : c # b /\ c # b + z[b] => z2[c] = z[c]
    BY <1>2, <2>1, JoinChain
  <2>3. b # b + z[b] /\ z2[b] > z[b]
    BY <1>0, <2>1, <2>2
  <2> QED BY <1>0, <1>2, <2>1, <2>2, <2>3
<1>3. ASSUME NEW a \in Blk(z), FreePrev(z, A, a, b), z2 = Join(z, a, b), ret = a
      PROVE  /\ Chain(z2, e) /\ A \subseteq Blk(z2) /\ Blk(z2) \subseteq Blk(z)
             /\ ret \in Blk(z2) \ A /\ z2[ret] > z[b]
             /\ Others(z, z2, b, ret)
  <2>1. a \notin A /\ a + z[a] = b
    BY <1>3 DEF FreePrev
  <2>2. /\ Chain(z2, e) /\ Blk(z2) = Blk(z) \ {b} /\ z2[a] = z[a] + z[b]
        /\ \A c \in 0..MAX_HEAP : c # a /\ c # b => z2[c] = z[c]
    BY <1>3, <2>1, JoinChain
  <2>3. a # b /\ z2[a] > z[b]
    BY <1>0, <2>1, <2>2
  <2> QED BY <1>0, <1>3, <2>1, <2>2, <2>3
<1>4. ASSUME NEW a \in Blk(z), FreePrev(z, A, a, b), FreeNext(z, A, b),
             z2 = JoinAll(z, a, b, b + z[b]), ret = a
      PROVE  /\ Chain(z2, e) /\ A \subseteq Blk(z2) /\ Blk(z2) \subseteq Blk(z)
             /\ ret \in Blk(z2) \ A /\ z2[ret] > z[b]
             /\ Others(z, z2, b, ret)
  <2> DEFINE n == b + z[b]
  <2>1. a \notin A /\ a + z[a] = b /\ n \in Blk(z) /\ n \notin A
    BY <1>4 DEF FreePrev, FreeNext
  <2>2. /\ Chain(z2, e) /\ Blk(z2) = Blk(z) \ {b, n} /\ z2[a] = z[a] + z[b] + z[n]
        /\ a # b /\ a # n /\ b # n
        /\ \A c \in 0..MAX_HEAP : c \notin {a, b, n} => z2[c] = z[c]
    BY <1>4, <2>1, JoinAllChain
  <2>3. z2[a] > z[b]
    BY <1>0, <2>1, <2>2
  <2> HIDE DEF n
  <2> QED BY <1>0, <1>4, <2>1, <2>2, <2>3
<1>5. z[b] \in Nat
  BY <1>0
<1> QED BY <1>1, <1>2, <1>3, <1>4, <1>5, <1>0, ChainType DEF Coalescing

(* No two free blocks touch.                                               *)
Apart(z, A) == \A a, b \in Blk(z) : a + z[a] = b => a \in A \/ b \in A

LEMMA CoalescingApart ==
    ASSUME NEW z, NEW e, Chain(z, e), NEW A, A \subseteq Blk(z), NEW b \in Blk(z) \ A,
           Apart(z, A \union {b}), NEW z2, NEW ret, Coalescing(z, A, b, z2, ret)
    PROVE  Apart(z2, A)
<1>a. /\ Chain(z2, e) /\ Blk(z2) \subseteq Blk(z)
      /\ \A u \in Blk(z2) \ {ret} : z2[u] = z[u] /\ u # b
  <2>0. b \in Blk(z) \ A /\ Chain(z, e) /\ A \subseteq Blk(z) /\ Coalescing(z, A, b, z2, ret)
    OBVIOUS
  <2>1. Chain(z2, e)
    BY <2>0, CoalescingChain
  <2>2. Others(z, z2, b, ret)
    BY <2>0, CoalescingChain
  <2> QED BY <2>1, <2>2 DEF Others
<1> SUFFICES ASSUME NEW x \in Blk(z2) \ A, NEW y \in Blk(z2) \ A, x + z2[x] = y PROVE FALSE
  BY DEF Apart
<1>0. /\ \A u \in Blk(z) : u \in Nat /\ z[u] \in Nat /\ z[u] >= 16
      /\ \A u \in Blk(z2) : u \in Nat /\ z2[u] \in Nat /\ z2[u] >= 16 /\ u \in Blk(z)
      /\ \A u \in Blk(z2) \ {ret} : z2[u] = z[u] /\ u # b
  <2>2. \A u \in Blk(z) : u \in Nat /\ z[u] \in Nat /\ z[u] >= 16
    BY ChainType
  <2>3. \A u \in Blk(z2) : u \in Nat /\ z2[u] \in Nat /\ z2[u] >= 16
    BY <1>a, ChainType
  <2> QED BY <1>a, <2>2, <2>3
<1>1. \A u, v \in Blk(z) \ A : u + z[u] = v => u = b \/ v = b
  BY DEF Apart
<1>2. x # y /\ x \in Blk(z) /\ y \in Blk(z) /\ x \in Nat /\ y \in Nat
  BY <1>0
<1>3. x = ret \/ y = ret
  <2> SUFFICES ASSUME x # ret, y # ret PROVE FALSE
    OBVIOUS
  <2>1. x # b /\ y # b /\ x + z[x] = y
    BY <1>0
  <2> QED BY <1>1, <1>2, <2>1
<1>4. CASE ret = b /\ \A a \in Blk(z) : ~FreePrev(z, A, a, b)
  <2>1. y # b
    <3> SUFFICES ASSUME y = b PROVE FALSE
      OBVIOUS
    <3>1. x # ret
      BY <1>2, <1>4
    <3>2. x + z[x] = b
      BY <1>0, <3>1
    <3> QED BY <1>2, <1>4, <3>2 DEF FreePrev
  <2>2. x = b
    BY <1>3, <1>4, <2>1
  <2>3. CASE z2 = z
    <3>1. ~FreeNext(z, A, b)
      <4> SUFFICES ASSUME FreeNext(z, A, b) PROVE FALSE
        OBVIOUS
      <4>1. b + z[b] \in Blk(z) /\ z[b] \in Nat /\ z[b] >= 16 /\ z[b + z[b]] >= 16
            /\ z[b + z[b]] \in Nat
        BY <1>0 DEF FreeNext
      <4>2. z2 = Join(z, b, b + z[b]) \/ \E a \in Blk(z) : FreePrev(z, A, a, b)
        BY DEF Coalescing
      <4>3. Join(z, b, b + z[b])[b] = z[b] + z[b + z[b]]
        BY <4>1, JoinChain
      <4> QED BY <1>4, <2>3, <4>1, <4>2, <4>3
    <3> QED BY <1>2, <2>2, <2>3, <3>1 DEF FreeNext
  <2>4. CASE FreeNext(z, A, b) /\ z2 = Join(z, b, b + z[b])
    <3> DEFINE n == b + z[b]
    <3>1. n \in Blk(z) \ A /\ n # b /\ n \in Nat
      BY <1>0, <2>4 DEF FreeNext
    <3>2. z2[b] = z[b] + z[n]
      BY <2>4, <3>1, JoinChain
    <3>3. n + z[n] = y
      <4>1. b \in Nat /\ z[b] \in Nat /\ z[n] \in Nat
        BY <1>0, <3>1
      <4> QED BY <2>2, <3>2, <4>1
    <3> HIDE DEF n
    <3> QED BY <1>1, <1>2, <2>1, <3>1, <3>3
  <2> QED BY <1>4, <2>3, <2>4 DEF Coalescing
<1>5. ASSUME NEW a \in Blk(z), FreePrev(z, A, a, b), ret = a,
             \/ ~FreeNext(z, A, b) /\ z2 = Join(z, a, b)
             \/ FreeNext(z, A, b) /\ z2 = JoinAll(z, a, b, b + z[b])
      PROVE  FALSE
  <2>1. a \notin A /\ a + z[a] = b /\ a \in Nat /\ z[a] \in Nat /\ z[a] >= 16 /\ b \in Nat
        /\ z[b] \in Nat /\ z[b] >= 16
    BY <1>0, <1>5 DEF FreePrev
  <2>2. CASE y = a
    <3>1. x # a
      BY <1>2, <2>2
    <3>2. x + z[x] = a /\ x # b
      BY <1>0, <1>5, <2>2, <3>1
    <3> QED BY <1>1, <1>2, <2>1, <2>2, <3>2
  <2>3. CASE x = a
    <3>0. y # b
      BY <1>0, <1>5, <2>3, <1>2
    <3>1. CASE ~FreeNext(z, A, b) /\ z2 = Join(z, a, b)
      <4>1. z2[a] = z[a] + z[b]
        BY <2>1, <3>1, JoinChain
      <4>2. b + z[b] = y
        BY <2>1, <2>3, <4>1
      <4> QED BY <1>2, <3>1, <4>2 DEF FreeNext
    <3>2. CASE FreeNext(z, A, b) /\ z2 = JoinAll(z, a, b, b + z[b])
      <4> DEFINE n == b + z[b]
      <4>1. n \in Blk(z) \ A /\ n # b /\ n \in Nat /\ z[n] \in Nat
        BY <1>0, <2>1, <3>2 DEF FreeNext
      <4>2. z2[a] = z[a] + z[b] + z[n]
        BY <2>1, <3>2, <4>1, JoinAllChain
      <4>3. n + z[n] = y
        BY <2>1, <2>3, <4>1, <4>2
      <4> HIDE DEF n
      <4> QED BY <1>1, <1>2, <3>0, <4>1, <4>3
    <3> QED BY <1>5, <3>1, <3>2
  <2> QED BY <1>3, <1>5, <2>2, <2>3
<1> QED BY <1>4, <1>5 DEF Coalescing

(* The body of coalesce_with_next, _prev and _both writes the tags of the  *)
(* joined block: the header of its first part, the footer of its last.     *)
LEMMA MergeTags ==
    ASSUME NEW h, NEW z, NEW A, Good(h, z, A),
           NEW z2, Chain(z2, h.brk + 4), A \subseteq Blk(z2), Blk(z2) \subseteq Blk(z),
           NEW a \in Blk(z2) \ A, NEW last \in Blk(z), last # a, last + z[last] = a + z2[a],
           \A c \in Blk(z2) \ {a} : z2[c] = z[c]
    PROVE  LET r == Merge(h, a, last, z2[a])
           IN  /\ r.ret = a /\ SameShape(h, r.heap) /\ Good(r.heap, z2, A)
               /\ Keep(h.mem, r.heap.mem, z, Blk(z))
<1> DEFINE r == Merge(h, a, last, z2[a])
           foot == a + z2[a] - 8
<1>0. Chain(z, h.brk + 4) /\ Typed(h) /\ Ready(h) /\ a \in Blk(z)
  BY DEF Good, Ready
<1>1. /\ a \in Nat /\ z2[a] \in Nat /\ last \in Nat /\ z[last] \in Nat /\ HDRP(a) = a - 4
      /\ HDRP(last) = last - 4 /\ HDRP(a) # HDRP(last)
  <2>1. a \in Nat /\ z2[a] \in Nat
    BY ChainType
  <2>2. last \in Nat /\ z[last] \in Nat
    BY <1>0, ChainType
  <2> QED BY <2>1, <2>2 DEF HDRP, WSIZE
<1>2. HDRP(a) \in Words /\ HDRP(last) \in Words /\ foot \in Words /\ foot # h.brk /\ a - 4 # h.brk
      /\ h.brk \in Nat
  <2>1. HDRP(a) \in Words /\ HDRP(last) \in Words /\ h.brk \in Nat
    BY <1>0, Reads
  <2> DEFINE e == h.brk + 4
  <2>2. Chain(z2, e) /\ a \in Blk(z2) /\ e - 4 = h.brk
    BY <2>1
  <2> HIDE DEF e
  <2>3. foot \in Words /\ foot < e - 4 /\ a - 4 < e - 4
    BY <2>2, TagPlaces
  <2> QED BY <2>1, <2>2, <2>3, <1>1
<1>3. last + GET_SIZE(h.mem[HDRP(last)]) - DSIZE = foot
  <2>1. GET_SIZE(h.mem[HDRP(last)]) = z[last]
    BY Reads
  <2> QED BY <2>1, <1>1 DEF DSIZE
<1>4. /\ r.ret = a
      /\ \E m \in Arena : /\ r.heap = With(h, m) /\ m[HDRP(a)] = z2[a] /\ m[foot] = z2[a]
                          /\ \A w \in Words \ {HDRP(a), foot} : m[w] = h.mem[w]
  <2> DEFINE s == IF HDRP(a) = HDRP(last) THEN PACK(z2[a], 0) ELSE h.mem[HDRP(last)]
             f == last + GET_SIZE(s) - DSIZE
  <2>1. s = h.mem[HDRP(last)]
    BY <1>1
  <2>2. f = foot
    BY <1>3, <2>1
  <2>3. \/ /\ f \in Words /\ r.ret = a
           /\ \E m \in Arena :
                 /\ r.heap = With(h, m) /\ m[HDRP(a)] = z2[a] /\ m[f] = z2[a]
                 /\ \A w \in Words \ {HDRP(a), f} : m[w] = h.mem[w]
        \/ f \notin Words /\ r.ret = Wild /\ r.heap = h
    <3> HIDE DEF r
    <3> QED BY <1>0, <1>1, <1>2, MergeIs DEF r
  <2> HIDE DEF r, foot, f
  <2> QED BY <2>2, <2>3, <1>2
<1> HIDE DEF r
<1>5. PICK m \in Arena : /\ r.heap = With(h, m) /\ m[HDRP(a)] = z2[a] /\ m[foot] = z2[a]
                         /\ \A w \in Words \ {HDRP(a), foot} : m[w] = h.mem[w]
  BY <1>4
<1>6. SameShape(h, r.heap) /\ Ready(r.heap) /\ r.heap.mem = m /\ r.heap.brk = h.brk
  BY <1>0, <1>5, WithType DEF SameShape
<1>7. Good(r.heap, z2, A)
  <2>1. Chain(z2, r.heap.brk + 4)
    BY <1>6
  <2>2. \A b \in Blk(z2) \ {a} : b \in Blk(z) /\ z2[b] = z[b] /\ (b \in A <=> b \in A)
    OBVIOUS
  <2>3. Tag(z2, A, a) = z2[a]
    BY <1>1 DEF Tag
  <2>4. \A b \in {a} : r.heap.mem[b - 4] = Tag(z2, A, b) /\ r.heap.mem[b + z2[b] - 8] = Tag(z2, A, b)
    BY <1>1, <1>5, <1>6, <2>3
  <2>5. r.heap.mem[r.heap.brk] = 1
    <3>1. h.mem[h.brk] = 1 /\ h.brk \in Words
      BY Reads, ZenonT(40) DEF Good
    <3> QED BY <1>1, <1>2, <1>5, <1>6, <3>1
  <2>6. TagWords(z2, {a}) = {a - 4, foot}
    BY DEF TagWords
  <2>7. \A w \in Words \ TagWords(z2, {a}) : w # r.heap.brk => r.heap.mem[w] = h.mem[w]
    BY <1>1, <1>5, <1>6, <2>6
  <2> HIDE DEF foot
  <2> QED BY <1>6, <2>1, <2>2, <2>4, <2>5, <2>7, Retag
<1>8. Keep(h.mem, r.heap.mem, z, Blk(z))
  <2> SUFFICES ASSUME NEW b \in Blk(z), NEW w \in Words, b <= w, w < b + z[b] - 8
               PROVE  m[w] = h.mem[w]
    BY <1>6 DEF Keep
  <2>1. w # a - 4
    BY <1>0, TagPlaces
  <2>2. w # last + z[last] - 8
    BY <1>0, TagPlaces
  <2> QED BY <1>1, <1>5, <2>1, <2>2
<1> QED BY <1>4, <1>6, <1>7, <1>8 DEF r

LEMMA CoalesceIs ==
    ASSUME NEW h, NEW z, NEW A, Good(h, z, A), NEW b \in Blk(z) \ A
    PROVE  LET r == coalesce(h, b)
           IN  \E z2 : /\ Coalescing(z, A, b, z2, r.ret) /\ Good(r.heap, z2, A)
                       /\ SameShape(h, r.heap) /\ Keep(h.mem, r.heap.mem, z, Blk(z))
<1> DEFINE m    == h.mem
           prev == PREV_BLKP(m, b)
           next == NEXT_BLKP(m, b)
           Size(c)    == GET_SIZE(m[HDRP(c)])
           prev_alloc == GET_ALLOC(m[FTRP(m, prev)]) = 1
           next_alloc == GET_ALLOC(m[HDRP(next)]) = 1
           readable   == /\ {HDRP(b), b - DSIZE} \subseteq Words
                         /\ {HDRP(prev), HDRP(next)} \subseteq Words
                         /\ FTRP(m, prev) \in Words
           r == coalesce(h, b)
           n == b + z[b]
<1>0. Chain(z, h.brk + 4) /\ Typed(h) /\ A \subseteq Blk(z) /\ Tagged(m, z, A)
  BY DEF Good, Ready
<1>1. /\ b \in Nat /\ z[b] \in Nat /\ z[b] >= 16 /\ b >= 24
      /\ HDRP(b) = b - 4 /\ HDRP(b) \in Words /\ Size(b) = z[b]
  BY <1>0, ChainType, Reads
(* The block behind: one of the list, or the epilogue.                     *)
<1>2. /\ next = n /\ HDRP(next) \in Words
      /\ ~next_alloc <=> FreeNext(z, A, b)
      /\ FreeNext(z, A, b) => Size(next) = z[n]
  <2>1. next = n
    BY <1>1 DEF NEXT_BLKP
  <2>2. n \in Blk(z) \union {h.brk + 4}
    BY <1>0, ChainType
  <2>3. CASE n \in Blk(z)
    <3>1. HDRP(n) \in Words /\ Size(n) = z[n] /\ GET_ALLOC(m[HDRP(n)]) = (IF n \in A THEN 1 ELSE 0)
      BY <2>3, Reads
    <3> HIDE DEF next, n
    <3> QED BY <2>1, <2>3, <3>1 DEF FreeNext, n
  <2>4. CASE n = h.brk + 4 /\ n \notin Blk(z)
    <3>1. HDRP(n) \in Words /\ GET_ALLOC(m[HDRP(n)]) = 1
      BY <2>4, Reads
    <3> HIDE DEF next
    <3> QED BY <2>1, <2>4, <3>1 DEF FreeNext
  <2> QED BY <2>2, <2>3, <2>4
(* The block before: one of the list, or the prologue.                     *)
<1>3. /\ b - DSIZE \in Words /\ HDRP(prev) \in Words /\ FTRP(m, prev) \in Words
      /\ \/ /\ prev_alloc /\ \A a \in Blk(z) : ~FreePrev(z, A, a, b)
         \/ /\ ~prev_alloc /\ prev \in Blk(z) /\ FreePrev(z, A, prev, b) /\ Size(prev) = z[prev]
  <2>1. CASE b = 24
    <3>1. b - DSIZE = 16 /\ prev = 16
      BY <2>1, Reads DEF DSIZE, PREV_BLKP
    <3>2. 16 \in Words /\ HDRP(16) \in Words /\ GET_SIZE(m[HDRP(16)]) = 8 /\ GET_ALLOC(m[16]) = 1
      BY Reads
    <3>3. FTRP(m, 16) = 16
      BY <3>2 DEF FTRP, DSIZE
    <3>4. \A a \in Blk(z) : a + z[a] # 24
      <4>1. \A a \in Blk(z) : a \in Nat /\ z[a] \in Nat /\ a >= 24 /\ z[a] >= 16
        BY <1>0, ChainType
      <4> QED BY <4>1
    <3> HIDE DEF prev
    <3> QED BY <2>1, <3>1, <3>2, <3>3, <3>4 DEF FreePrev
  <2>2. CASE b # 24
    <3>1. PICK a \in Blk(z) : a + z[a] = b
      BY <1>0, <2>2 DEF Chain
    <3>2. /\ a \in Nat /\ z[a] \in Nat /\ HDRP(a) \in Words /\ Size(a) = z[a]
          /\ a + z[a] - 8 \in Words
          /\ GET_SIZE(m[a + z[a] - 8]) = z[a]
          /\ GET_ALLOC(m[a + z[a] - 8]) = (IF a \in A THEN 1 ELSE 0)
      BY <1>0, ChainType, Reads, TagPlaces
    <3>3. b - DSIZE = a + z[a] - 8
      BY <3>1, <3>2 DEF DSIZE
    <3>4. prev = a
      <4>1. prev = b - z[a]
        BY <3>2, <3>3 DEF PREV_BLKP
      <4> QED BY <3>1, <3>2, <4>1
    <3>5. FTRP(m, a) = a + z[a] - 8
      BY <3>2 DEF FTRP, DSIZE
    <3>6. \A x \in Blk(z) : x + z[x] = b => x = a
      <4> SUFFICES ASSUME NEW x \in Blk(z), x + z[x] = b, x # a PROVE FALSE
        OBVIOUS
      <4>1. x \in Nat /\ z[x] \in Nat /\ z[x] >= 16 /\ z[a] >= 16
        BY <1>0, ChainType
      <4>2. (x < a => x + z[x] <= a) /\ (a < x => a + z[a] <= x)
        BY <1>0 DEF Chain
      <4> QED BY <3>1, <3>2, <4>1, <4>2
    <3> HIDE DEF prev
    <3>7. CASE a \in A
      BY <3>2, <3>3, <3>4, <3>5, <3>6, <3>7 DEF FreePrev
    <3>8. CASE a \notin A
      BY <3>1, <3>2, <3>3, <3>4, <3>5, <3>8 DEF FreePrev
    <3> QED BY <3>7, <3>8
  <2> QED BY <2>1, <2>2
<1>4. readable
  <2> HIDE DEF prev, next
  <2> QED BY <1>1, <1>2, <1>3
<1> DEFINE Fine(q, z2) == /\ Coalescing(z, A, b, z2, q.ret) /\ Good(q.heap, z2, A)
                          /\ SameShape(h, q.heap) /\ Keep(h.mem, q.heap.mem, z, Blk(z))
<1>5. CASE prev_alloc /\ next_alloc
  <2>1. r = Result(h, b)
    BY <1>4, <1>5 DEF coalesce
  <2>2. Coalescing(z, A, b, z, b)
    BY <1>2, <1>3, <1>5 DEF Coalescing
  <2>3. SameShape(h, h) /\ Keep(h.mem, h.mem, z, Blk(z))
    BY <1>0, ShapeType DEF Keep
  <2> HIDE DEF r
  <2>4. Fine(r, z)
    BY <2>1, <2>2, <2>3, ResultIs
  <2> QED BY <2>4 DEF r
<1>6. CASE prev_alloc /\ ~next_alloc
  <2> DEFINE z2 == Join(z, b, n)
  <2>1. r = Merge(h, b, n, z[b] + z[n])
    <3>1. r = Merge(h, b, next, Size(b) + Size(next))
      BY <1>4, <1>6 DEF coalesce
    <3> HIDE DEF r, next
    <3> QED BY <3>1, <1>1, <1>2, <1>6
  <2>2. FreeNext(z, A, b) /\ n \in Blk(z) \ A
    BY <1>2, <1>6 DEF FreeNext
  <2>3. /\ Chain(z2, h.brk + 4) /\ Blk(z2) = Blk(z) \ {n} /\ z2[b] = z[b] + z[n]
        /\ \A c \in 0..MAX_HEAP : c # b /\ c # n => z2[c] = z[c]
    BY <1>0, <2>2, JoinChain
  <2>4. Coalescing(z, A, b, z2, b)
    BY <1>3, <1>6, <2>2 DEF Coalescing
  <2> HIDE DEF z2, r
  <2>5. n \in Nat /\ z[n] \in Nat /\ n # b /\ n + z[n] = b + z2[b]
    <3>1. n \in Nat /\ z[n] \in Nat
      BY <1>0, <2>2, ChainType
    <3> QED BY <1>1, <2>3, <3>1
  <2>6. A \subseteq Blk(z2) /\ Blk(z2) \subseteq Blk(z) /\ b \in Blk(z2) \ A
        /\ \A c \in Blk(z2) \ {b} : z2[c] = z[c]
    BY <1>0, <2>2, <2>3, <2>5, BlkType
  <2> HIDE DEF n
  <2>7. Fine(r, z2)
    <3>1. r = Merge(h, b, n, z2[b])
      BY <2>1, <2>3
    <3>2. /\ r.ret = b /\ SameShape(h, r.heap) /\ Good(r.heap, z2, A)
          /\ Keep(h.mem, r.heap.mem, z, Blk(z))
      <4> DEFINE q == Merge(h, b, n, z2[b])
      <4>1. /\ q.ret = b /\ SameShape(h, q.heap) /\ Good(q.heap, z2, A)
            /\ Keep(h.mem, q.heap.mem, z, Blk(z))
        BY <2>1, <2>2, <2>3, <2>5, <2>6, MergeTags
      <4> QED BY <3>1, <4>1
    <3> QED BY <3>2, <2>4
  <2> QED BY <2>7 DEF r
<1>7. CASE ~prev_alloc /\ next_alloc
  <2> DEFINE a == prev
             z2 == Join(z, a, b)
  <2>1. a \in Blk(z) \ A /\ a + z[a] = b /\ FreePrev(z, A, a, b) /\ Size(a) = z[a]
    BY <1>3, <1>7 DEF FreePrev
  <2>2. r = Merge(h, a, b, z[a] + z[b])
    <3>1. r = Merge(h, prev, b, Size(prev) + Size(b))
      BY <1>4, <1>7 DEF coalesce
    <3> HIDE DEF r, prev
    <3> QED BY <3>1, <1>1, <2>1
  <2> HIDE DEF a, r
  <2>3. /\ Chain(z2, h.brk + 4) /\ Blk(z2) = Blk(z) \ {b} /\ z2[a] = z[a] + z[b]
        /\ \A c \in 0..MAX_HEAP : c # a /\ c # b => z2[c] = z[c]
    BY <1>0, <2>1, JoinChain
  <2>4. Coalescing(z, A, b, z2, a)
    BY <1>2, <1>7, <2>1 DEF Coalescing
  <2> HIDE DEF z2
  <2>5. a \in Nat /\ z[a] \in Nat /\ a # b /\ b + z[b] = a + z2[a]
    <3>1. a \in Nat /\ z[a] \in Nat /\ z[a] >= 16
      BY <1>0, <2>1, ChainType
    <3> QED BY <1>1, <2>1, <2>3, <3>1
  <2>6. A \subseteq Blk(z2) /\ Blk(z2) \subseteq Blk(z) /\ a \in Blk(z2) \ A
        /\ \A c \in Blk(z2) \ {a} : z2[c] = z[c]
    BY <1>0, <2>1, <2>3, <2>5, BlkType
  <2>7. Fine(r, z2)
    <3>1. r = Merge(h, a, b, z2[a])
      BY <2>2, <2>3
    <3>3. b \in Blk(z) /\ b # a /\ b + z[b] = a + z2[a]
      BY <2>5
    <3>2. /\ r.ret = a /\ SameShape(h, r.heap) /\ Good(r.heap, z2, A)
          /\ Keep(h.mem, r.heap.mem, z, Blk(z))
      <4> DEFINE q == Merge(h, a, b, z2[a])
      <4>1. /\ q.ret = a /\ SameShape(h, q.heap) /\ Good(q.heap, z2, A)
            /\ Keep(h.mem, q.heap.mem, z, Blk(z))
        BY <3>3, <2>3, <2>6, MergeTags
      <4> QED BY <3>1, <4>1
    <3> QED BY <3>2, <2>4
  <2> QED BY <2>7 DEF r
<1>8. CASE ~prev_alloc /\ ~next_alloc
  <2> DEFINE a == prev
             z2 == JoinAll(z, a, b, n)
  <2>1. a \in Blk(z) \ A /\ a + z[a] = b /\ FreePrev(z, A, a, b) /\ Size(a) = z[a]
        /\ FreeNext(z, A, b) /\ n \in Blk(z) \ A
    BY <1>2, <1>3, <1>8 DEF FreePrev, FreeNext
  <2>2. r = Merge(h, a, n, z[a] + z[b] + z[n])
    <3>1. r = Merge(h, prev, next, Size(prev) + Size(b) + Size(next))
      BY <1>4, <1>8 DEF coalesce
    <3> HIDE DEF r, prev, next
    <3> QED BY <3>1, <1>1, <1>2, <2>1
  <2> HIDE DEF a, r
  <2>3. /\ Chain(z2, h.brk + 4) /\ Blk(z2) = Blk(z) \ {b, n} /\ z2[a] = z[a] + z[b] + z[n]
        /\ a # b /\ a # n
        /\ \A c \in 0..MAX_HEAP : c \notin {a, b, n} => z2[c] = z[c]
    BY <1>0, <2>1, JoinAllChain
  <2>4. Coalescing(z, A, b, z2, a)
    BY <2>1 DEF Coalescing
  <2> HIDE DEF z2
  <2>5. a \in Nat /\ z[a] \in Nat /\ n + z[n] = a + z2[a]
    <3>1. a \in Nat /\ z[a] \in Nat /\ z[a] >= 16 /\ z[n] \in Nat
      BY <1>0, <2>1, ChainType
    <3> QED BY <1>1, <2>1, <2>3, <3>1
  <2>6. A \subseteq Blk(z2) /\ Blk(z2) \subseteq Blk(z) /\ a \in Blk(z2) \ A
        /\ \A c \in Blk(z2) \ {a} : z2[c] = z[c]
    <3> HIDE DEF n
    <3> QED BY <1>0, <2>1, <2>3, <2>5, BlkType
  <2> HIDE DEF n
  <2>7. Fine(r, z2)
    <3>1. r = Merge(h, a, n, z2[a])
      BY <2>2, <2>3
    <3>2. /\ r.ret = a /\ SameShape(h, r.heap) /\ Good(r.heap, z2, A)
          /\ Keep(h.mem, r.heap.mem, z, Blk(z))
      <4> DEFINE q == Merge(h, a, n, z2[a])
      <4>1. /\ q.ret = a /\ SameShape(h, q.heap) /\ Good(q.heap, z2, A)
            /\ Keep(h.mem, q.heap.mem, z, Blk(z))
        BY <2>1, <2>2, <2>3, <2>5, <2>6, MergeTags
      <4> QED BY <3>1, <4>1
    <3> QED BY <3>2, <2>4
  <2> QED BY <2>7 DEF r
<1> QED BY <1>5, <1>6, <1>7, <1>8

-----------------------------------------------------------------------------
(***************************************************************************)
(* mm_free, mm_malloc, the copy of mm_realloc and mm_init on such a heap.  *)
(***************************************************************************)
LEMMA KeepBoth ==
    ASSUME NEW m1, NEW m2, NEW m3, NEW z, NEW B, Keep(m1, m2, z, B), Keep(m2, m3, z, B)
    PROVE  Keep(m1, m3, z, B)
BY DEF Keep

(* Both tags of a block are written anew.                                  *)
LEMMA FrameGood ==
    ASSUME NEW h, NEW z, NEW A, Good(h, z, A), NEW b \in Blk(z), NEW alloc \in {0, 1}
    PROVE  LET f == Frame(h, b, z[b], alloc)
           IN  /\ f.ret = b /\ f.ret # Wild /\ SameShape(h, f.heap)
               /\ Good(f.heap, z, IF alloc = 1 THEN A \union {b} ELSE A \ {b})
               /\ Keep(h.mem, f.heap.mem, z, Blk(z))
<1> DEFINE f  == Frame(h, b, z[b], alloc)
           A2 == IF alloc = 1 THEN A \union {b} ELSE A \ {b}
           foot == b + z[b] - 8
<1>0. /\ Chain(z, h.brk + 4) /\ Typed(h) /\ Ready(h) /\ A \subseteq Blk(z)
      /\ h.brk \in Nat /\ h.brk \in Words /\ h.mem[h.brk] = 1
  BY Reads DEF Good, Ready
<1>1. /\ b \in Nat /\ z[b] \in Nat /\ HDRP(b) = b - 4 /\ HDRP(b) \in Words /\ b + z[b] - DSIZE = foot
      /\ foot \in Words
  BY <1>0, ChainType, TagPlaces DEF HDRP, WSIZE, DSIZE
<1>2. foot # h.brk /\ b - 4 # h.brk
  <2> DEFINE e == h.brk + 4
  <2>1. Chain(z, e) /\ e - 4 = h.brk
    BY <1>0
  <2> HIDE DEF e
  <2>2. foot < e - 4 /\ b - 4 < e - 4
    BY <2>1, TagPlaces
  <2> QED BY <1>0, <2>1, <2>2
<1>3. /\ f.ret = b
      /\ \E m \in Arena : /\ f.heap = With(h, m)
                          /\ m[b - 4] = z[b] + alloc /\ m[foot] = z[b] + alloc
                          /\ \A w \in Words \ {b - 4, foot} : m[w] = h.mem[w]
  <2> HIDE DEF f, foot
  <2> QED BY <1>0, <1>1, FrameIs DEF f
<1> HIDE DEF f
<1>4. PICK m \in Arena : /\ f.heap = With(h, m)
                         /\ m[b - 4] = z[b] + alloc /\ m[foot] = z[b] + alloc
                         /\ \A w \in Words \ {b - 4, foot} : m[w] = h.mem[w]
  BY <1>3
<1>5. SameShape(h, f.heap) /\ Ready(f.heap) /\ f.heap.mem = m /\ f.heap.brk = h.brk
  BY <1>0, <1>4, WithType DEF SameShape
<1>6. Good(f.heap, z, A2) /\ Keep(h.mem, f.heap.mem, z, Blk(z))
  <2>1. Chain(z, f.heap.brk + 4)
    BY <1>0, <1>5
  <2>2. \A c \in Blk(z) \ {b} : c \in Blk(z) /\ z[c] = z[c] /\ (c \in A2 <=> c \in A)
    OBVIOUS
  <2>3. Tag(z, A2, b) = z[b] + alloc
    BY DEF Tag
  <2>4. \A c \in {b} : f.heap.mem[c - 4] = Tag(z, A2, c) /\ f.heap.mem[c + z[c] - 8] = Tag(z, A2, c)
    BY <1>4, <1>5, <2>3
  <2>5. f.heap.mem[f.heap.brk] = 1
    BY <1>0, <1>2, <1>4, <1>5
  <2>6. TagWords(z, {b}) = {b - 4, foot}
    BY DEF TagWords
  <2>7. \A w \in Words \ TagWords(z, {b}) : w # f.heap.brk => f.heap.mem[w] = h.mem[w]
    BY <1>4, <1>5, <2>6
  <2>8. A2 \subseteq Blk(z) /\ {b} \subseteq Blk(z)
    BY <1>0
  <2> HIDE DEF foot, A2
  <2> QED BY <1>5, <2>1, <2>2, <2>4, <2>5, <2>7, <2>8, Retag
<1>7. b # Wild
  BY <1>1 DEF Wild
<1> QED BY <1>3, <1>5, <1>6, <1>7 DEF f

LEMMA FrameInUse ==
    ASSUME NEW h, NEW z, NEW A, Good(h, z, A), NEW b \in Blk(z),
           NEW f, f = Frame(h, b, z[b], 1)
    PROVE  /\ f.ret = b /\ SameShape(h, f.heap) /\ Good(f.heap, z, A \union {b})
           /\ Keep(h.mem, f.heap.mem, z, Blk(z))
<1> DEFINE q == Frame(h, b, z[b], 1)
<1>1. /\ q.ret = b /\ q.ret # Wild /\ SameShape(h, q.heap)
      /\ Good(q.heap, z, IF 1 = 1 THEN A \union {b} ELSE A \ {b})
      /\ Keep(h.mem, q.heap.mem, z, Blk(z))
  BY 1 \in {0, 1}, FrameGood, Zenon
<1>2. Good(q.heap, z, A \union {b})
  BY <1>1
<1>3. f = q
  OBVIOUS
<1> HIDE DEF q
<1> QED BY <1>1, <1>2, <1>3

LEMMA FreeIs ==
    ASSUME NEW h, NEW z, NEW A, Good(h, z, A), NEW b \in A
    PROVE  LET r == mm_free(h, b)
           IN  \E z2 : /\ Coalescing(z, A \ {b}, b, z2, r.ret) /\ Good(r.heap, z2, A \ {b})
                       /\ SameShape(h, r.heap) /\ Keep(h.mem, r.heap.mem, z, Blk(z))
<1> DEFINE f == Frame(h, b, z[b], 0)
           r == mm_free(h, b)
<1>a. b \in Blk(z) /\ Typed(h)
  BY DEF Good, Ready
<1>0. b \in Blk(z) /\ GET_SIZE(h.mem[HDRP(b)]) = z[b] /\ Typed(h)
  BY <1>a, Reads
<1>1. r = IF f.ret = Wild THEN f ELSE coalesce(f.heap, b)
  BY <1>0 DEF mm_free
<1>2. /\ f.ret # Wild /\ SameShape(h, f.heap) /\ Good(f.heap, z, A \ {b})
      /\ Keep(h.mem, f.heap.mem, z, Blk(z))
  BY <1>0, FrameGood
<1>3. r = coalesce(f.heap, b)
  BY <1>1, <1>2
<1> HIDE DEF f, r
<1>4. PICK z2 : /\ Coalescing(z, A \ {b}, b, z2, r.ret) /\ Good(r.heap, z2, A \ {b})
                /\ SameShape(f.heap, r.heap) /\ Keep(f.heap.mem, r.heap.mem, z, Blk(z))
  <2>1. b \in Blk(z) \ (A \ {b})
    BY <1>0
  <2> QED BY <1>2, <1>3, <2>1, CoalesceIs
<1>5. SameShape(h, r.heap) /\ Keep(h.mem, r.heap.mem, z, Blk(z))
  BY <1>0, <1>2, <1>4, ShapeType, KeepBoth
<1> QED BY <1>4, <1>5 DEF r

(* How a block comes into use: a free one as a whole or its first asize    *)
(* bytes, or the whole of an extension.                                    *)
Placing(z, A, e, asize, z2, e2, ret) ==
    \/ /\ ret \in Blk(z) \ A /\ z[ret] >= asize /\ e2 = e
       /\ \A c \in Blk(z) \ A : c < ret => z[c] < asize
       /\ \/ z[ret] - asize < 16 /\ z2 = z
          \/ z[ret] - asize >= 16 /\ z2 = Split(z, ret, asize)
    \/ /\ ret = e /\ asize >= CHUNKSIZE /\ e2 = e + asize /\ e2 <= MAX_HEAP
       /\ \A c \in Blk(z) \ A : z[c] < asize /\ c + z[c] # e
       /\ z2 = Longer(z, e, asize)

LEMMA PlaceIs ==
    ASSUME NEW h, NEW z, NEW A, Good(h, z, A), NEW b \in Blk(z) \ A,
           NEW asize \in Nat, asize % 8 = 0, asize >= 16, z[b] >= asize
    PROVE  LET r  == Place(h, b, asize)
               z2 == IF z[b] - asize < 16 THEN z ELSE Split(z, b, asize)
           IN  /\ r.ret = b /\ SameShape(h, r.heap) /\ Good(r.heap, z2, A \union {b})
               /\ Keep(h.mem, r.heap.mem, z, A)
<1> DEFINE r == Place(h, b, asize)
<1>a. /\ Chain(z, h.brk + 4) /\ Typed(h) /\ Ready(h) /\ A \subseteq Blk(z) /\ h.mem[h.brk] = 1
  BY DEF Good, Ready
<1>b. b \in Blk(z)
  OBVIOUS
<1>0. /\ Chain(z, h.brk + 4) /\ Typed(h) /\ Ready(h) /\ A \subseteq Blk(z)
      /\ h.brk \in Nat /\ h.brk \in Words /\ h.mem[h.brk] = 1
      /\ GET_SIZE(h.mem[HDRP(b)]) = z[b] /\ h.brk + 4 \in Nat
  BY <1>a, <1>b, Reads
<1>1. /\ b \in Nat /\ z[b] \in Nat /\ z[b] - asize \in Nat /\ z[b] % 8 = 0
  BY <1>0, ChainType
<1>2. CASE z[b] - asize < 16
  <2>1. r = Frame(h, b, z[b], 1)
    BY <1>0, <1>1, <1>2 DEF Place, DSIZE
  <2>2. /\ r.ret = b /\ SameShape(h, r.heap) /\ Good(r.heap, z, A \union {b})
        /\ Keep(h.mem, r.heap.mem, z, Blk(z))
    BY <2>1, FrameGood
  <2> QED BY <1>0, <1>2, <2>2 DEF Keep
<1>3. CASE ~(z[b] - asize < 16)
  <2> DEFINE z2    == Split(z, b, asize)
             b2    == b + asize
             A2    == A \union {b}
             front == Frame(h, b, asize, 1)
             rest  == Frame(front.heap, b2, z[b] - asize, 0)
  <2>1. /\ Chain(z2, h.brk + 4) /\ Blk(z2) = Blk(z) \union {b2} /\ b2 \notin Blk(z)
        /\ b2 \in Nat /\ z2[b] = asize /\ z2[b2] = z[b] - asize
        /\ \A c \in 0..MAX_HEAP : c # b /\ c # b2 => z2[c] = z[c]
    <3>1. z[b] - asize >= 16 /\ b \in Blk(z)
      BY <1>1, <1>3
    <3> QED BY <1>0, <3>1, SplitChain
  <2>2. r = IF Wild \in {front.ret, rest.ret} THEN Result(h, Wild) ELSE Result(rest.heap, b)
    BY <1>0, <1>1, <1>3 DEF Place, DSIZE
  <2> HIDE DEF z2, r, b2
  <2>3. b \in Blk(z2) /\ b2 \in Blk(z2) /\ b # b2
    BY <2>1
  <2>4. /\ HDRP(b) = b - 4 /\ HDRP(b2) = b2 - 4 /\ b - 4 \in Words /\ b2 - 4 \in Words
        /\ b + asize - DSIZE = b + z2[b] - 8 /\ b2 + (z[b] - asize) - DSIZE = b2 + z2[b2] - 8
        /\ b + z2[b] - 8 \in Words /\ b2 + z2[b2] - 8 \in Words
        /\ b - 4 # b2 - 4 /\ b - 4 # b2 + z2[b2] - 8 /\ b + z2[b] - 8 # b2 - 4
        /\ b + z2[b] - 8 # b2 + z2[b2] - 8
    BY <2>1, <2>3, TagPlaces DEF HDRP, WSIZE, DSIZE
  <2>5. /\ front.ret = b
        /\ \E m \in Arena : /\ front.heap = With(h, m)
                            /\ m[b - 4] = asize + 1 /\ m[b + z2[b] - 8] = asize + 1
                            /\ \A w \in Words \ {b - 4, b + z2[b] - 8} : m[w] = h.mem[w]
    <3> HIDE DEF front
    <3> QED BY <1>0, <2>4, FrameIs DEF front
  <2>6. PICK m1 \in Arena : /\ front.heap = With(h, m1)
                            /\ m1[b - 4] = asize + 1 /\ m1[b + z2[b] - 8] = asize + 1
                            /\ \A w \in Words \ {b - 4, b + z2[b] - 8} : m1[w] = h.mem[w]
    BY <2>5
  <2>7. Typed(front.heap) /\ front.heap.mem = m1 /\ SameShape(h, front.heap)
    BY <1>0, <2>6, WithType DEF SameShape
  <2> HIDE DEF front
  <2>8. /\ rest.ret = b2
        /\ \E m \in Arena : /\ rest.heap = With(front.heap, m)
                            /\ m[b2 - 4] = z[b] - asize /\ m[b2 + z2[b2] - 8] = z[b] - asize
                            /\ \A w \in Words \ {b2 - 4, b2 + z2[b2] - 8} : m[w] = m1[w]
    <3>1. z[b] - asize + 0 = z[b] - asize
      BY <1>1
    <3> DEFINE s == z[b] - asize
    <3>2. s \in Nat /\ s + 0 = s /\ b2 + s - DSIZE = b2 + z2[b2] - 8
      BY <1>1, <2>4
    <3> HIDE DEF s, rest
    <3>3. /\ rest.ret = b2
          /\ \E m \in Arena : /\ rest.heap = With(front.heap, m)
                              /\ m[b2 - 4] = s /\ m[b2 + z2[b2] - 8] = s
                              /\ \A w \in Words \ {b2 - 4, b2 + z2[b2] - 8} : m[w] = m1[w]
      BY <2>4, <2>7, <3>2, FrameIs DEF rest, s
    <3> QED BY <3>3 DEF s
  <2>9. PICK m \in Arena : /\ rest.heap = With(front.heap, m)
                           /\ m[b2 - 4] = z[b] - asize /\ m[b2 + z2[b2] - 8] = z[b] - asize
                           /\ \A w \in Words \ {b2 - 4, b2 + z2[b2] - 8} : m[w] = m1[w]
    BY <2>8
  <2> DEFINE g == rest.heap
  <2>10. SameShape(h, g) /\ g.mem = m
    <3>1. SameShape(front.heap, g) /\ g.mem = m
      BY <2>7, <2>9, WithType DEF SameShape
    <3> HIDE DEF g
    <3> QED BY <1>0, <2>7, <3>1, ShapeType
  <2>11. /\ m[b - 4] = asize + 1 /\ m[b + z2[b] - 8] = asize + 1
         /\ \A w \in Words \ {b - 4, b + z2[b] - 8, b2 - 4, b2 + z2[b2] - 8} : m[w] = h.mem[w]
    BY <2>4, <2>6, <2>9
  <2>12. r.ret = b /\ r.heap = g
    <3>1. Wild \notin {front.ret, rest.ret}
      BY <2>1, <2>5, <2>8, <1>1 DEF Wild
    <3> QED BY <2>2, <3>1, ResultIs
  <2> HIDE DEF rest
  <2>13. Ready(g) /\ g.brk = h.brk
    BY <1>0, <2>10, ShapeType
  <2>14. Good(g, z2, A2) /\ Keep(h.mem, g.mem, z2, Blk(z2))
    <3> DEFINE T == {b, b2}
    <3>1. Chain(z2, g.brk + 4) /\ A2 \subseteq Blk(z2) /\ T \subseteq Blk(z2)
      BY <1>0, <2>1, <2>3, <2>13
    <3>2. \A c \in Blk(z2) \ T : c \in Blk(z) /\ z2[c] = z[c] /\ (c \in A2 <=> c \in A)
      BY <2>1, BlkType
    <3>3. Tag(z2, A2, b) = asize + 1 /\ Tag(z2, A2, b2) = z[b] - asize
      <4>1. b \in A2 /\ b2 \notin A2
        BY <1>0, <2>1, <2>3
      <4> QED BY <1>1, <2>1, <4>1 DEF Tag
    <3>4. \A c \in T : g.mem[c - 4] = Tag(z2, A2, c) /\ g.mem[c + z2[c] - 8] = Tag(z2, A2, c)
      BY <2>9, <2>10, <2>11, <3>3
    <3>5. TagWords(z2, T) = {b - 4, b + z2[b] - 8, b2 - 4, b2 + z2[b2] - 8}
      BY DEF TagWords
    <3>6. \A w \in Words \ TagWords(z2, T) : w # g.brk => g.mem[w] = h.mem[w]
      BY <2>10, <2>11, <3>5
    <3>7. g.mem[g.brk] = 1
      <4> DEFINE e == h.brk + 4
      <4>1. Chain(z2, e) /\ e - 4 = h.brk
        BY <1>0, <2>1
      <4> HIDE DEF e
      <4>2. b + z2[b] - 8 < e - 4 /\ b - 4 < e - 4 /\ b2 + z2[b2] - 8 < e - 4 /\ b2 - 4 < e - 4
        BY <2>3, <4>1, TagPlaces
      <4>3. b - 4 # h.brk /\ b + z2[b] - 8 # h.brk /\ b2 - 4 # h.brk /\ b2 + z2[b2] - 8 # h.brk
        BY <1>0, <4>1, <4>2
      <4> QED BY <1>0, <2>10, <2>11, <2>13, <4>3
    <3> HIDE DEF T, A2, g
    <3>8. Ready(g) /\ A2 \subseteq Blk(z2) /\ T \subseteq Blk(z2)
      BY <2>13, <3>1
    <3> QED BY <3>8, <3>1, <3>2, <3>4, <3>6, <3>7, Retag
  <2>15. Keep(h.mem, g.mem, z, A)
    <3>1. \A c \in A : c \in Blk(z2) /\ z2[c] = z[c]
      BY <1>0, <2>1, BlkType
    <3> QED BY <2>14, <3>1 DEF Keep
  <2> HIDE DEF g
  <2> QED BY <1>3, <2>10, <2>12, <2>14, <2>15 DEF r, z2
<1> QED BY <1>2, <1>3

(* The flag is not part of what the words say.                             *)
LEMMA GoodWords ==
    ASSUME NEW h, NEW z, NEW A, Good(h, z, A), NEW g, Ready(g), g.mem = h.mem, g.brk = h.brk
    PROVE  Good(g, z, A)
BY DEF Good

(* The arena has grown by a free block at the old end of the list.         *)
LEMMA ExtendedIs ==
    ASSUME NEW h, NEW z, NEW A, Good(h, z, A), NEW n \in Nat, n % 8 = 0, n >= 16,
           h.brk + n <= MAX_HEAP, NEW g, Extended(h, n, g)
    PROVE  LET e  == h.brk + 4
               z2 == Longer(z, e, n)
           IN  /\ Good(g, z2, A) /\ Keep(h.mem, g.mem, z, Blk(z))
               /\ Chain(z2, e + n) /\ Blk(z2) = Blk(z) \union {e} /\ e \notin Blk(z) /\ z2[e] = n
               /\ \A c \in Blk(z) : z2[c] = z[c]
<1> DEFINE e  == h.brk + 4
           z2 == Longer(z, e, n)
<1>1. /\ Chain(z, e) /\ Ready(g) /\ A \subseteq Blk(z) /\ g.brk = h.brk + n
      /\ h.brk \in Nat /\ g.brk \in Nat
      /\ g.mem[h.brk] = n /\ g.mem[h.brk + n - 4] = n /\ g.mem[h.brk + n] = 1
      /\ \A w \in Words \ {h.brk, h.brk + n - 4, h.brk + n} : g.mem[w] = h.mem[w]
  BY DEF Good, Ready, Typed, Extended
<1>2. e + n <= MAX_HEAP
  <2>1. g.brk + 4 <= MAX_HEAP
    BY <1>1 DEF Ready
  <2> QED BY <1>1, <2>1, WordsType
<1>3. e \in Nat /\ h.brk = e - 4 /\ h.brk + n - 4 = e + n - 8 /\ g.brk + 4 = e + n
  BY <1>1
<1> HIDE DEF e
<1>4. /\ Chain(z2, e + n) /\ Blk(z2) = Blk(z) \union {e} /\ e \notin Blk(z) /\ z2[e] = n
      /\ \A c \in 0..MAX_HEAP : c # e => z2[c] = z[c]
  BY <1>1, <1>2, LongerChain
<1> HIDE DEF z2
<1>5. \A c \in Blk(z) : z2[c] = z[c]
  BY <1>4, BlkType
<1>6. Good(g, z2, A) /\ Keep(h.mem, g.mem, z2, Blk(z2))
  <2> DEFINE T == {e}
  <2>1. Chain(z2, g.brk + 4) /\ A \subseteq Blk(z2) /\ T \subseteq Blk(z2)
    BY <1>1, <1>3, <1>4
  <2>2. \A c \in Blk(z2) \ T : c \in Blk(z) /\ z2[c] = z[c] /\ (c \in A <=> c \in A)
    BY <1>4, <1>5
  <2>3. Tag(z2, A, e) = n
    BY <1>1, <1>4 DEF Tag
  <2>4. \A c \in T : g.mem[c - 4] = Tag(z2, A, c) /\ g.mem[c + z2[c] - 8] = Tag(z2, A, c)
    BY <1>1, <1>3, <1>4, <2>3
  <2>5. g.mem[g.brk] = 1
    BY <1>1
  <2>6. TagWords(z2, T) = {e - 4, e + n - 8}
    BY <1>4 DEF TagWords
  <2>7. \A w \in Words \ TagWords(z2, T) : w # g.brk => g.mem[w] = h.mem[w]
    BY <1>1, <1>3, <2>6
  <2>8. Ready(g)
    BY <1>1
  <2> DEFINE A2 == A
  <2>9. A2 \subseteq Blk(z2) /\ \A c \in Blk(z2) \ T : c \in Blk(z) /\ z2[c] = z[c] /\ (c \in A2 <=> c \in A)
    BY <2>1, <2>2
  <2>10. \A c \in T : g.mem[c - 4] = Tag(z2, A2, c) /\ g.mem[c + z2[c] - 8] = Tag(z2, A2, c)
    BY <2>4
  <2> HIDE DEF T, A2
  <2>11. Good(g, z2, A2) /\ Keep(h.mem, g.mem, z2, Blk(z2))
    BY <2>1, <2>5, <2>7, <2>8, <2>9, <2>10, Retag
  <2> QED BY <2>11 DEF A2
<1>7. Keep(h.mem, g.mem, z, Blk(z))
  BY <1>4, <1>5, <1>6 DEF Keep
<1> QED BY <1>4, <1>5, <1>6, <1>7 DEF e, z2

LEMMA ExtendPlaceIs ==
    ASSUME NEW h, NEW z, NEW A, Good(h, z, A),
           NEW asize \in Nat, asize % 8 = 0, asize >= 16
    PROVE  LET r == ExtendAndPlace(h, asize)
               e == h.brk + 4
           IN  r.ret # NULL /\ r.heap.lossless =>
                 /\ r.ret = e /\ asize >= CHUNKSIZE /\ r.heap.brk = h.brk + asize
                 /\ r.heap.brk + 4 <= MAX_HEAP
                 /\ \A c \in Blk(z) \ A : c + z[c] # e
                 /\ Good(r.heap, Longer(z, e, asize), A \union {e})
                 /\ Keep(h.mem, r.heap.mem, z, Blk(z))
<1> DEFINE n == Larger(asize, CHUNKSIZE)
           x == extend_heap(h, n \div WSIZE)
           exact  == GET_SIZE(x.heap.mem[HDRP(x.ret)]) = asize
           framed == Frame(x.heap, x.ret, asize, 1)
           r == ExtendAndPlace(h, asize)
           e == h.brk + 4
<1>1. n \in Nat /\ n % 8 = 0 /\ n >= CHUNKSIZE /\ n >= asize /\ n >= 16
      /\ (n = asize => asize >= CHUNKSIZE)
  BY ChunkAssumption DEF Larger
<1> HIDE DEF n
<1>2. r = IF x.ret \in {NULL, Wild} THEN x
          ELSE Result([framed.heap EXCEPT !.lossless = framed.heap.lossless /\ exact], framed.ret)
  BY DEF ExtendAndPlace, n
<1>3. Ready(h) /\ h.brk \in Nat /\ MAX_HEAP \in Nat /\ Chain(z, e) /\ A \subseteq Blk(z)
  BY WordsType DEF Ready, Typed, Good
<1> SUFFICES ASSUME r.ret # NULL, r.heap.lossless
             PROVE  /\ r.ret = e /\ asize >= CHUNKSIZE /\ r.heap.brk = h.brk + asize
                    /\ r.heap.brk + 4 <= MAX_HEAP
                    /\ \A c \in Blk(z) \ A : c + z[c] # e
                    /\ Good(r.heap, Longer(z, e, asize), A \union {e})
                    /\ Keep(h.mem, r.heap.mem, z, Blk(z))
  OBVIOUS
<1>4. h.brk + n <= MAX_HEAP
  <2> SUFFICES ASSUME h.brk + n > MAX_HEAP PROVE FALSE
    BY <1>1, <1>3
  <2>1. x.ret = NULL
    BY <1>1, <1>3, ExtendIs
  <2> HIDE DEF r, x
  <2> QED BY <1>2, <2>1
<1>5. PICK g : Extended(h, n, g) /\ x = coalesce(g, e)
  BY <1>1, <1>3, <1>4, ExtendIs
<1> HIDE DEF x, r, e
<1> DEFINE y == Longer(z, e, n)
<1>6. /\ Good(g, y, A) /\ Keep(h.mem, g.mem, z, Blk(z))
      /\ Chain(y, e + n) /\ Blk(y) = Blk(z) \union {e} /\ e \notin Blk(z) /\ y[e] = n
      /\ \A c \in Blk(z) : y[c] = z[c]
  BY <1>1, <1>4, <1>5, ExtendedIs DEF e
<1> HIDE DEF y
<1>7. e \in Blk(y) \ A /\ A \subseteq Blk(y)
  BY <1>3, <1>6
<1>8. PICK z2 : /\ Coalescing(y, A, e, z2, x.ret) /\ Good(x.heap, z2, A)
                /\ SameShape(g, x.heap) /\ Keep(g.mem, x.heap.mem, y, Blk(y))
  BY <1>5, <1>6, <1>7, CoalesceIs
<1>9. /\ x.ret \in Blk(z2) \ A /\ z2[x.ret] >= y[e]
      /\ (z2[x.ret] = y[e] => z2 = y /\ x.ret = e /\ \A a \in Blk(y) : ~FreePrev(y, A, a, e))
      /\ Chain(z2, e + n)
  <2>1. Chain(y, e + n) /\ A \subseteq Blk(y) /\ e \in Blk(y) \ A /\ Coalescing(y, A, e, z2, x.ret)
    BY <1>6, <1>7, <1>8
  <2> DEFINE t   == e + n
             ret == x.ret
  <2> HIDE DEF t, ret
  <2>2. Chain(y, t) /\ A \subseteq Blk(y) /\ e \in Blk(y) \ A /\ Coalescing(y, A, e, z2, ret)
    BY <2>1 DEF t, ret
  <2>3. /\ ret \in Blk(z2) \ A /\ z2[ret] >= y[e]
        /\ (z2[ret] = y[e] => z2 = y /\ ret = e /\ \A a \in Blk(y) : ~FreePrev(y, A, a, e))
        /\ Chain(z2, t)
    BY <2>2, CoalescingChain
  <2> QED BY <2>3 DEF t, ret
<1>10. x.ret \notin {NULL, Wild} /\ x.ret \in Nat /\ HDRP(x.ret) \in Words
       /\ GET_SIZE(x.heap.mem[HDRP(x.ret)]) = z2[x.ret] /\ z2[x.ret] \in Nat
  <2>1. x.ret \in Blk(z2)
    BY <1>9
  <2>2. x.ret \in Nat /\ x.ret >= 24 /\ z2[x.ret] \in Nat
    BY <1>9, <2>1, ChainType
  <2>3. HDRP(x.ret) \in Words /\ GET_SIZE(x.heap.mem[HDRP(x.ret)]) = z2[x.ret]
    BY <1>8, <2>1, Reads
  <2> QED BY <2>2, <2>3 DEF NULL, Wild
<1>11. Typed(x.heap) /\ Ready(x.heap) /\ Ready(g) /\ Typed(g) /\ g.brk = h.brk + n
  BY <1>5, <1>6, <1>8 DEF Good, Ready, Extended
<1>12. SameShape(x.heap, framed.heap) /\ Ready(framed.heap) /\ Typed(framed.heap)
  <2>1. SameShape(x.heap, framed.heap)
    BY <1>11, FrameType
  <2> HIDE DEF framed
  <2> QED BY <1>11, <2>1, ShapeType DEF Ready
<1> HIDE DEF framed
<1> DEFINE f == [framed.heap EXCEPT !.lossless = framed.heap.lossless /\ exact]
<1>13. r.heap = f /\ r.ret = framed.ret
  <2>1. r = Result(f, framed.ret)
    BY <1>2, <1>10
  <2> HIDE DEF f
  <2> QED BY <2>1, ResultIs
<1>14. /\ exact /\ Ready(f) /\ f.mem = framed.heap.mem /\ f.brk = framed.heap.brk
  <2>1. f.lossless
    BY <1>13
  <2>2. f.lossless = (framed.heap.lossless /\ exact)
    <3> HIDE DEF exact
    <3> QED BY <1>12 DEF Typed
  <2>3. exact
    BY <2>1, <2>2
  <2> HIDE DEF exact
  <2> QED BY <2>3, <1>12 DEF Ready, Typed
<1> HIDE DEF f
(* Only an exact block loses nothing: then nothing was coalesced.          *)
<1>15. /\ z2[x.ret] = asize /\ n = asize /\ z2 = y /\ x.ret = e
       /\ \A a \in Blk(y) : ~FreePrev(y, A, a, e)
  <2>1. z2[x.ret] = asize
    BY <1>10, <1>14
  <2>2. n = asize
    BY <1>1, <1>6, <1>9, <2>1
  <2> QED BY <1>6, <1>9, <2>1, <2>2
<1>16. /\ framed.ret = e /\ Good(framed.heap, y, A \union {e})
       /\ Keep(x.heap.mem, framed.heap.mem, y, Blk(y))
  <2>1. Good(x.heap, y, A) /\ e \in Blk(y) /\ framed = Frame(x.heap, e, y[e], 1)
    BY <1>6, <1>7, <1>8, <1>15 DEF framed
  <2> QED BY <2>1, FrameInUse
<1>17. f.brk = h.brk + asize
  <2>1. framed.heap.brk = x.heap.brk /\ x.heap.brk = g.brk
    BY <1>8, <1>11, <1>12, ShapeType
  <2> QED BY <1>11, <1>14, <1>15, <2>1
<1>18. Good(f, y, A \union {e})
  BY <1>14, <1>16, GoodWords
<1>19. Keep(h.mem, f.mem, z, Blk(z))
  <2>1. Keep(g.mem, f.mem, y, Blk(y))
    BY <1>8, <1>14, <1>16, KeepBoth
  <2>2. Keep(g.mem, f.mem, z, Blk(z))
    BY <1>6, <2>1 DEF Keep
  <2> QED BY <1>6, <2>2, KeepBoth
<1>20. \A c \in Blk(z) \ A : c + z[c] # e
  BY <1>6, <1>15 DEF FreePrev
<1>21. f.brk + 4 <= MAX_HEAP
  BY <1>14 DEF Ready
<1> QED BY <1>1, <1>13, <1>15, <1>16, <1>17, <1>18, <1>19, <1>20, <1>21 DEF y, r, e

(* mm_malloc, as long as no memory is lost.                                *)
LEMMA MallocIs ==
    ASSUME NEW h, NEW z, NEW A, Good(h, z, A), NEW size \in Nat, size > 0
    PROVE  LET r == mm_malloc(h, size)
           IN  r.ret # NULL /\ r.heap.lossless =>
                 \E z2 : /\ Placing(z, A, h.brk + 4, Adjust(size), z2, r.heap.brk + 4, r.ret)
                         /\ Good(r.heap, z2, A \union {r.ret}) /\ Keep(h.mem, r.heap.mem, z, A)
<1> DEFINE asize == Adjust(size)
           fit   == FirstFit(h, asize)
           r     == mm_malloc(h, size)
<1>1. asize \in Nat /\ asize % 8 = 0 /\ asize >= 16
  BY AdjustType
<1>2. Typed(h) /\ Ready(h) /\ h.mem \in Arena /\ Chain(z, h.brk + 4) /\ A \subseteq Blk(z)
      /\ h.brk \in Nat
  BY DEF Good, Ready, Typed
<1> HIDE DEF asize
<1>3. r = IF fit = Wild THEN Result(h, Wild) ELSE IF fit = NULL THEN ExtendAndPlace(h, asize)
          ELSE Place(h, fit, asize)
  BY DEF mm_malloc, Wild, NULL, asize
<1>4. \/ fit = NULL /\ \A c \in Blk(z) \ A : z[c] < asize
      \/ /\ fit \in Blk(z) \ A /\ z[fit] >= asize
         /\ \A c \in Blk(z) \ A : c < fit => z[c] < asize
  BY <1>1, FitIs
<1> SUFFICES ASSUME r.ret # NULL, r.heap.lossless
             PROVE \E z2 : /\ Placing(z, A, h.brk + 4, asize, z2, r.heap.brk + 4, r.ret)
                           /\ Good(r.heap, z2, A \union {r.ret}) /\ Keep(h.mem, r.heap.mem, z, A)
  BY DEF asize
<1> HIDE DEF r
<1>5. CASE fit = NULL /\ \A c \in Blk(z) \ A : z[c] < asize
  <2> DEFINE e == h.brk + 4
             z2 == Longer(z, e, asize)
  <2>1. r = ExtendAndPlace(h, asize)
    BY <1>3, <1>5 DEF Wild, NULL
  <2>2. /\ r.ret = e /\ asize >= CHUNKSIZE /\ r.heap.brk = h.brk + asize
        /\ r.heap.brk + 4 <= MAX_HEAP
        /\ \A c \in Blk(z) \ A : c + z[c] # e
        /\ Good(r.heap, z2, A \union {e})
        /\ Keep(h.mem, r.heap.mem, z, Blk(z))
    <3> DEFINE q == ExtendAndPlace(h, asize)
    <3>1. q.ret # NULL /\ q.heap.lossless =>
             /\ q.ret = e /\ asize >= CHUNKSIZE /\ q.heap.brk = h.brk + asize
             /\ q.heap.brk + 4 <= MAX_HEAP
             /\ \A c \in Blk(z) \ A : c + z[c] # e
             /\ Good(q.heap, z2, A \union {e})
             /\ Keep(h.mem, q.heap.mem, z, Blk(z))
      BY <1>1, ExtendPlaceIs
    <3>2. r = q
      BY <2>1
    <3> HIDE DEF q, e, z2
    <3> QED BY <3>1, <3>2
  <2> HIDE DEF e, z2
  <2>3. r.heap.brk + 4 = e + asize
    BY <1>1, <1>2, <2>2 DEF e
  <2>4. Placing(z, A, e, asize, z2, r.heap.brk + 4, r.ret)
    BY <1>5, <2>2, <2>3 DEF Placing, z2
  <2>5. Keep(h.mem, r.heap.mem, z, A)
    BY <1>2, <2>2 DEF Keep
  <2> QED BY <2>2, <2>4, <2>5 DEF e
<1>6. CASE /\ fit \in Blk(z) \ A /\ z[fit] >= asize
           /\ \A c \in Blk(z) \ A : c < fit => z[c] < asize
  <2> DEFINE z2 == IF z[fit] - asize < 16 THEN z ELSE Split(z, fit, asize)
  <2>1. fit \in Nat /\ fit >= 24 /\ z[fit] \in Nat
    BY <1>2, <1>6, ChainType
  <2>2. r = Place(h, fit, asize)
    BY <1>3, <2>1 DEF Wild, NULL
  <2> HIDE DEF fit
  <2>3. /\ r.ret = fit /\ SameShape(h, r.heap) /\ Good(r.heap, z2, A \union {fit})
        /\ Keep(h.mem, r.heap.mem, z, A)
    <3> HIDE DEF r
    <3> QED BY <1>1, <1>6, <2>2, PlaceIs
  <2>4. r.heap.brk = h.brk
    BY <1>2, <2>3, ShapeType
  <2>5. \/ z[fit] - asize < 16 /\ z2 = z
        \/ z[fit] - asize >= 16 /\ z2 = Split(z, fit, asize)
    BY <1>1, <2>1
  <2> HIDE DEF z2
  <2>6. Placing(z, A, h.brk + 4, asize, z2, r.heap.brk + 4, r.ret)
    BY <1>6, <2>3, <2>4, <2>5 DEF Placing
  <2> QED BY <2>3, <2>6
<1> QED BY <1>4, <1>5, <1>6

(* What the caller of mm_malloc gets: a block of its own, which holds the  *)
(* request and is less than 16 bytes larger than it need be; the blocks in *)
(* use stay, and no two free blocks touch.                                 *)
LEMMA PlacingType ==
    ASSUME NEW z, NEW e, Chain(z, e), NEW A, A \subseteq Blk(z),
           NEW asize \in Nat, asize % 8 = 0, asize >= 16,
           NEW z2, NEW e2, NEW ret, Placing(z, A, e, asize, z2, e2, ret)
    PROVE  /\ ret \notin A /\ ret \in Blk(z2) /\ A \subseteq Blk(z2)
           /\ ret \in Nat /\ ret >= 24 /\ ret % 8 = 0
           /\ \A c \in A : z2[c] = z[c]
           /\ asize <= z2[ret] /\ z2[ret] < asize + 16
           /\ Chain(z2, e2)
           /\ Apart(z, A) => Apart(z2, A \union {ret})
<1>1. /\ \A c \in Blk(z) : c \in Nat /\ c \in 0..MAX_HEAP /\ z[c] \in Nat /\ z[c] >= 16
                           /\ z[c] % 8 = 0 /\ c >= 24 /\ c % 8 = 0 /\ c < e
      /\ e \in Nat /\ e >= 24 /\ e % 8 = 0
  BY ChainType
<1>2. CASE ret \in Blk(z) \ A /\ z[ret] >= asize /\ z[ret] - asize < 16 /\ z2 = z /\ e2 = e
  <2>1. z[ret] < asize + 16
    BY <1>1, <1>2
  <2> QED BY <1>1, <1>2, <2>1 DEF Apart
<1>3. CASE /\ ret \in Blk(z) \ A /\ z[ret] >= asize /\ z[ret] - asize >= 16
           /\ z2 = Split(z, ret, asize) /\ e2 = e
  <2> DEFINE n == ret + asize
  <2>1. /\ Chain(z2, e) /\ Blk(z2) = Blk(z) \union {n} /\ n \notin Blk(z) /\ n \in Nat
        /\ z2[ret] = asize /\ z2[n] = z[ret] - asize
        /\ \A c \in 0..MAX_HEAP : c # ret /\ c # n => z2[c] = z[c]
    BY <1>3, SplitChain
  <2>2. n + z2[n] = ret + z[ret] /\ ret # n
    BY <1>1, <1>3, <2>1
  <2> HIDE DEF n
  <2>3. ASSUME Apart(z, A), NEW x \in Blk(z2), NEW y \in Blk(z2), x + z2[x] = y,
               x \notin A \union {ret}, y \notin A \union {ret}
        PROVE  FALSE
    <3>1. CASE x = n
      <4>1. y = ret + z[ret]
        BY <2>2, <2>3, <3>1
      <4>2. y \in Blk(z)
        <5>1. n # y
          <6>1. n < ret + z[ret]
            BY <1>1, <1>3 DEF n
          <6> QED BY <4>1, <6>1, <1>1, <1>3, <2>1
        <5> QED BY <2>1, <2>3, <5>1
      <4> QED BY <1>3, <2>3, <4>1, <4>2 DEF Apart
    <3>2. CASE x # n /\ y = n
      <4>1. x \in Blk(z) /\ z2[x] = z[x] /\ x # ret
        BY <2>1, <2>3, <3>2, <1>1
      <4>2. (x < ret => x + z[x] <= ret) /\ (ret < x => ret + z[ret] <= x)
        BY <1>3, <4>1 DEF Chain
      <4> QED BY <1>1, <1>3, <2>3, <3>2, <4>1, <4>2 DEF n
    <3>3. CASE x # n /\ y # n
      <4>1. x \in Blk(z) /\ y \in Blk(z) /\ z2[x] = z[x]
        BY <2>1, <2>3, <3>3, <1>1
      <4> QED BY <2>3, <4>1 DEF Apart
    <3> QED BY <3>1, <3>2, <3>3
  <2>4. Apart(z, A) => Apart(z2, A \union {ret})
    BY <2>3 DEF Apart
  <2>5. \A c \in A : c # ret /\ c # n /\ c \in Blk(z2) /\ z2[c] = z[c]
    BY <1>1, <1>3, <2>1
  <2> QED BY <1>1, <1>3, <2>1, <2>4, <2>5
<1>4. CASE /\ ret = e /\ e2 = e + asize /\ e2 <= MAX_HEAP /\ z2 = Longer(z, e, asize)
           /\ \A c \in Blk(z) \ A : c + z[c] # e
  <2>1. /\ Chain(z2, e + asize) /\ Blk(z2) = Blk(z) \union {e} /\ e \notin Blk(z) /\ z2[e] = asize
        /\ \A c \in 0..MAX_HEAP : c # e => z2[c] = z[c]
    BY <1>4, LongerChain
  <2>2. Chain(z2, e2)
    BY <1>4, <2>1
  <2>3. ASSUME Apart(z, A), NEW x \in Blk(z2), NEW y \in Blk(z2), x + z2[x] = y,
               x \notin A \union {e}, y \notin A \union {e}
        PROVE  FALSE
    <3>1. x \in Blk(z) /\ y \in Blk(z) /\ z2[x] = z[x]
      BY <1>1, <2>1, <2>3
    <3> QED BY <2>3, <3>1 DEF Apart
  <2>4. Apart(z, A) => Apart(z2, A \union {ret})
    BY <1>4, <2>3 DEF Apart
  <2> QED BY <1>1, <1>4, <2>1, <2>2, <2>4
<1> QED BY <1>2, <1>3, <1>4, <1>1 DEF Placing

-----------------------------------------------------------------------------
(* Writing into a payload.                                                 *)
Inside(z, b, w) == b <= w /\ w < b + z[b] - 8

LEMMA PayloadWrite ==
    ASSUME NEW h, NEW z, NEW A, Good(h, z, A), NEW b \in Blk(z), NEW m \in Arena,
           \A w \in Words : ~Inside(z, b, w) => m[w] = h.mem[w]
    PROVE  Good(With(h, m), z, A) /\ Keep(h.mem, m, z, Blk(z) \ {b})
<1>1. Chain(z, h.brk + 4) /\ Typed(h) /\ Ready(h) /\ A \subseteq Blk(z) /\ Tagged(h.mem, z, A)
      /\ h.mem[12] = 9 /\ h.mem[16] = 9 /\ h.mem[h.brk] = 1
  BY DEF Good, Ready
<1>2. /\ b \in Nat /\ b >= 24 /\ z[b] \in Nat /\ b + z[b] <= h.brk + 4
      /\ h.brk \in Nat /\ h.brk \in Words /\ 12 \in Words /\ 16 \in Words
  BY <1>1, ChainType, Reads
<1>3. m[12] = 9 /\ m[16] = 9 /\ m[h.brk] = 1
  <2>1. ~Inside(z, b, 12) /\ ~Inside(z, b, 16) /\ ~Inside(z, b, h.brk)
    BY <1>2 DEF Inside
  <2> QED BY <1>1, <1>2, <2>1
<1>4. Tagged(m, z, A)
  <2> SUFFICES ASSUME NEW c \in Blk(z)
               PROVE  m[c - 4] = Tag(z, A, c) /\ m[c + z[c] - 8] = Tag(z, A, c)
    BY DEF Tagged
  <2>1. c - 4 \in Words /\ c + z[c] - 8 \in Words
        /\ ~Inside(z, b, c - 4) /\ ~Inside(z, b, c + z[c] - 8)
    <3>1. /\ c - 4 \in Words /\ c + z[c] - 8 \in Words
          /\ \A x \in Blk(z) : \A w \in Words : x <= w /\ w < x + z[x] - 8 =>
                 w # c - 4 /\ w # c + z[c] - 8
      BY <1>1, TagPlaces
    <3> QED BY <3>1 DEF Inside
  <2> QED BY <1>1, <2>1 DEF Tagged
<1>5. /\ Ready(With(h, m)) /\ With(h, m).mem = m /\ With(h, m).brk = h.brk
  BY <1>1, WithType
<1>6. Good(With(h, m), z, A)
  BY <1>1, <1>3, <1>4, <1>5 DEF Good
<1>7. Keep(h.mem, m, z, Blk(z) \ {b})
  <2> SUFFICES ASSUME NEW c \in Blk(z) \ {b}, NEW w \in Words, c <= w, w < c + z[c] - 8
               PROVE  ~Inside(z, b, w)
    BY DEF Keep
  <2>1. /\ c \in Nat /\ z[c] \in Nat /\ w \in Nat
    BY <1>1, ChainType, WordsType
  <2>2. (c < b => c + z[c] <= b) /\ (b < c => b + z[b] <= c)
    BY <1>1 DEF Chain
  <2> QED BY <1>2, <2>1, <2>2 DEF Inside
<1> QED BY <1>6, <1>7

(* memcpy from one block into another: what it takes from the old payload  *)
(* arrives, also when it reads on past its end.                            *)
Arrived(m, m2, old, b, size, room) ==
    \A w \in Words : b <= w /\ w < b + size /\ w - b < room => m2[w] = m[old + (w - b)]

LEMMA CopyIs ==
    ASSUME NEW h, NEW z, NEW A, Good(h, z, A), NEW b \in Blk(z), NEW old \in Blk(z), old # b,
           NEW size \in Nat, size + 8 <= z[b], old + size <= MAX_HEAP,
           NEW m \in memcpy(h.mem, b, old, size)
    PROVE  /\ m \in Arena /\ Good(With(h, m), z, A) /\ Keep(h.mem, m, z, Blk(z) \ {b})
           /\ Arrived(h.mem, m, old, b, size, z[old] - 8)
<1>1. Chain(z, h.brk + 4) /\ h.mem \in Arena
  BY Reads DEF Good
<1>2. /\ b \in Nat /\ b % 8 = 0 /\ z[b] \in Nat /\ old \in Nat /\ old % 8 = 0 /\ z[old] \in Nat
      /\ b % 4 = 0 /\ old % 4 = 0
  <2>1. b \in Nat /\ b % 8 = 0 /\ z[b] \in Nat /\ old \in Nat /\ old % 8 = 0 /\ z[old] \in Nat
    BY <1>1, ChainType
  <2> QED BY <2>1
<1>3. /\ m \in Arena
      /\ \A a \in Words \ Target(b, size) : m[a] = h.mem[a]
      /\ \A a \in Target(b, size) :
            ~(old + (a - b) \in Target(b, size) /\ old + (a - b) < a) => m[a] = h.mem[old + (a - b)]
  <2>1. h.mem \in Arena /\ b \in Nat /\ old \in Nat /\ b % 4 = 0 /\ old % 4 = 0
    BY <1>1, <1>2
  <2> QED BY <2>1, MemcpyIs, ZenonT(40)
<1>4. \A w \in Words : ~Inside(z, b, w) => m[w] = h.mem[w]
  <2>1. \A w \in Words : w \in Nat
    BY WordsType
  <2> QED BY <1>2, <1>3, <2>1 DEF Target, Inside
<1>5. Good(With(h, m), z, A) /\ Keep(h.mem, m, z, Blk(z) \ {b})
  BY <1>3, <1>4, PayloadWrite
<1>6. ASSUME NEW w \in Words, b <= w, w < b + size, w - b < z[old] - 8
      PROVE  m[w] = h.mem[old + (w - b)]
  <2>1. w \in Target(b, size) /\ w \in Nat
    BY <1>6, WordsType DEF Target
  <2>2. old + (w - b) \notin Target(b, size)
    <3>1. (old < b => old + z[old] <= b) /\ (b < old => b + z[b] <= old)
      BY <1>1 DEF Chain
    <3> QED BY <1>2, <1>6, <2>1, <3>1 DEF Target
  <2> QED BY <1>3, <2>1, <2>2
<1> QED BY <1>3, <1>5, <1>6 DEF Arrived

-----------------------------------------------------------------------------
(* mm_init, whatever the arena holds: the prologue, one free block of      *)
(* CHUNKSIZE bytes if there is room for it, and the epilogue.              *)
OneBlock(n) == [b \in 0..MAX_HEAP |-> IF b = 24 THEN n ELSE 0]

LEMMA InitIs ==
    ASSUME NEW h, Typed(h)
    PROVE  LET r == mm_init(mem_reset_brk(h))
           IN  /\ Ready(r.heap) /\ r.heap.lossless = TRUE
               /\ \/ /\ r.ret = Fail /\ CHUNKSIZE + 20 > MAX_HEAP /\ r.heap.brk = 20
                     /\ Good(r.heap, OneBlock(0), {}) /\ Apart(OneBlock(0), {})
                  \/ /\ r.ret = 0 /\ CHUNKSIZE + 24 <= MAX_HEAP /\ r.heap.brk = 20 + CHUNKSIZE
                     /\ Good(r.heap, OneBlock(CHUNKSIZE), {}) /\ Apart(OneBlock(CHUNKSIZE), {})
<1> DEFINE h0    == mem_reset_brk(h)
           pad   == mem_sbrk(h0, WSIZE)
           four  == mem_sbrk(pad.heap, 4 * WSIZE)
           p     == IF (four.ret + 2 * WSIZE) % 8 # 0 THEN four.ret + WSIZE ELSE four.ret
           fresh == [four.heap EXCEPT !.mem[p]             = 0,
                                      !.mem[p + WSIZE]     = PACK(DSIZE, 1),
                                      !.mem[p + 2 * WSIZE] = PACK(DSIZE, 1),
                                      !.mem[p + 3 * WSIZE] = PACK(0, 1),
                                      !.heap_start_pos     = p + 2 * WSIZE,
                                      !.lossless           = TRUE]
           e     == extend_heap(fresh, CHUNKSIZE \div WSIZE)
           r     == mm_init(h0)
<1>0. MAX_HEAP \in Nat /\ MAX_HEAP >= 24 /\ MAX_HEAP % 8 = 0
      /\ CHUNKSIZE \in Nat /\ CHUNKSIZE % 8 = 0 /\ CHUNKSIZE >= 16
  BY ArenaAssumption, ChunkAssumption
<1>1. Typed(h0) /\ h0.brk = 0 /\ h0.mem = h.mem
  BY SMTT(40) DEF Typed, mem_reset_brk
<1>2. r = IF pad.ret = Fail THEN pad ELSE IF four.ret = Fail THEN four
          ELSE Result(e.heap, IF e.ret = NULL THEN Fail ELSE 0)
  BY SMTT(60) DEF mm_init
<1> HIDE DEF h0, r
<1>3. pad.ret = 0 /\ Typed(pad.heap) /\ pad.heap.brk = 4
  <2>1. pad = Result([h0 EXCEPT !.brk = 4], 0)
    BY <1>0, <1>1 DEF mem_sbrk, WSIZE
  <2> HIDE DEF pad
  <2> QED BY <1>1, <2>1, ResultIs DEF Typed
<1> HIDE DEF pad
<1>4. four.ret = 4 /\ Typed(four.heap) /\ four.heap.brk = 20
  <2>1. four = Result([pad.heap EXCEPT !.brk = 20], 4)
    BY <1>0, <1>3 DEF mem_sbrk, WSIZE
  <2> HIDE DEF four
  <2> QED BY <1>3, <2>1, ResultIs DEF Typed
<1> HIDE DEF four
<1>5. p = 8 /\ p + WSIZE = 12 /\ p + 2 * WSIZE = 16 /\ p + 3 * WSIZE = 20
  BY <1>4 DEF WSIZE
<1> HIDE DEF p
<1>6. PACK(DSIZE, 1) = 9 /\ PACK(0, 1) = 1
  BY DEF PACK, DSIZE
<1>7. 8 \in Words /\ 12 \in Words /\ 16 \in Words /\ 20 \in Words
  BY WordsType
<1>8. /\ Typed(fresh) /\ fresh.brk = 20 /\ fresh.heap_start_pos = 16 /\ fresh.lossless = TRUE
      /\ fresh.mem[12] = 9 /\ fresh.mem[16] = 9 /\ fresh.mem[20] = 1
  <2> DEFINE m0 == four.heap.mem
             m1 == [m0 EXCEPT ![8] = 0]
             m2 == [m1 EXCEPT ![12] = 9]
             m3 == [m2 EXCEPT ![16] = 9]
             m4 == [m3 EXCEPT ![20] = 1]
  <2>1. m4 \in Arena /\ m4[12] = 9 /\ m4[16] = 9 /\ m4[20] = 1
    <3>1. m0 \in Arena
      BY <1>4 DEF Typed
    <3> HIDE DEF m0
    <3> QED BY <3>1, <1>7 DEF Arena
  <2>2. fresh = [four.heap EXCEPT !.mem = m4, !.heap_start_pos = 16, !.lossless = TRUE]
    BY <1>4, <1>5, <1>6 DEF Typed
  <2> HIDE DEF m4, fresh
  <2> QED BY <1>4, <2>1, <2>2 DEF Typed
<1> HIDE DEF fresh
<1>9. Ready(fresh)
  BY <1>0, <1>8 DEF Ready
<1>10. Blk(OneBlock(0)) = {} /\ Chain(OneBlock(0), 24)
  <2>1. OneBlock(0) \in [0..MAX_HEAP -> Nat] /\ Blk(OneBlock(0)) = {}
    BY DEF OneBlock, Blk
  <2> QED BY <1>0, <2>1 DEF Chain
<1>11. Good(fresh, OneBlock(0), {}) /\ Apart(OneBlock(0), {})
  <2>1. fresh.brk + 4 = 24
    BY <1>8
  <2> QED BY <1>8, <1>9, <1>10, <2>1 DEF Good, Tagged, Apart
<1>12. \/ fresh.brk + CHUNKSIZE > MAX_HEAP /\ e.ret = NULL /\ e.heap = fresh
       \/ /\ fresh.brk + CHUNKSIZE <= MAX_HEAP
          /\ \E g : Extended(fresh, CHUNKSIZE, g) /\ e = coalesce(g, fresh.brk + 4)
  BY <1>0, <1>9, ExtendIs
<1> HIDE DEF e
<1>13. r = Result(e.heap, IF e.ret = NULL THEN Fail ELSE 0)
  BY <1>2, <1>3, <1>4 DEF Fail
<1>14. CASE fresh.brk + CHUNKSIZE > MAX_HEAP /\ e.ret = NULL /\ e.heap = fresh
  <2>1. r.ret = Fail /\ r.heap = fresh
    BY <1>13, <1>14, ResultIs
  <2>2. CHUNKSIZE + 20 > MAX_HEAP
    BY <1>0, <1>8, <1>14
  <2> QED BY <1>8, <1>9, <1>11, <2>1, <2>2 DEF h0, r
<1>15. ASSUME fresh.brk + CHUNKSIZE <= MAX_HEAP, NEW g, Extended(fresh, CHUNKSIZE, g),
              e = coalesce(g, fresh.brk + 4)
       PROVE  /\ Ready(r.heap) /\ r.heap.lossless = TRUE
              /\ r.ret = 0 /\ CHUNKSIZE + 24 <= MAX_HEAP /\ r.heap.brk = 20 + CHUNKSIZE
              /\ Good(r.heap, OneBlock(CHUNKSIZE), {}) /\ Apart(OneBlock(CHUNKSIZE), {})
  <2> DEFINE y == OneBlock(CHUNKSIZE)
             b == 24
  <2>1. Longer(OneBlock(0), 24, CHUNKSIZE) = y
    BY <1>0 DEF Longer, OneBlock
  <2>2. fresh.brk + 4 = 24
    BY <1>8
  <2>3. /\ Good(g, y, {}) /\ Blk(y) = {24} /\ y[24] = CHUNKSIZE /\ Chain(y, 24 + CHUNKSIZE)
    <3>1. Good(fresh, OneBlock(0), {}) /\ CHUNKSIZE \in Nat /\ CHUNKSIZE % 8 = 0 /\ CHUNKSIZE >= 16
      BY <1>0, <1>11
    <3>2. LET e0 == fresh.brk + 4
              z2 == Longer(OneBlock(0), e0, CHUNKSIZE)
          IN  /\ Good(g, z2, {})
              /\ Chain(z2, e0 + CHUNKSIZE) /\ Blk(z2) = Blk(OneBlock(0)) \union {e0}
              /\ z2[e0] = CHUNKSIZE
      BY <3>1, <1>15, ExtendedIs
    <3>3. /\ Good(g, Longer(OneBlock(0), 24, CHUNKSIZE), {})
          /\ Chain(Longer(OneBlock(0), 24, CHUNKSIZE), 24 + CHUNKSIZE)
          /\ Blk(Longer(OneBlock(0), 24, CHUNKSIZE)) = {} \union {24}
          /\ Longer(OneBlock(0), 24, CHUNKSIZE)[24] = CHUNKSIZE
      BY <2>2, <3>2, <1>10
    <3> QED BY <2>1, <3>3
  <2> HIDE DEF y
  <2>4. PICK z2 : /\ Coalescing(y, {}, b, z2, e.ret) /\ Good(e.heap, z2, {})
                  /\ SameShape(g, e.heap)
    <3>1. b \in Blk(y) \ {} /\ e = coalesce(g, b)
      BY <2>2, <2>3, <1>15
    <3> HIDE DEF b
    <3> QED BY <3>1, <2>3, CoalesceIs
  <2>5. z2 = y /\ e.ret = 24
    <3>1. ~FreeNext(y, {}, 24) /\ \A a \in Blk(y) : ~FreePrev(y, {}, a, 24)
      BY <1>0, <2>3 DEF FreeNext, FreePrev
    <3> QED BY <2>4, <3>1 DEF Coalescing
  <2>6. r.ret = 0 /\ r.heap = e.heap
    BY <1>13, <2>5, ResultIs DEF NULL
  <2>7. Ready(g) /\ Typed(g) /\ g.brk = 20 + CHUNKSIZE /\ g.lossless = TRUE
    BY <1>8, <1>15 DEF Extended, Ready
  <2>8. Ready(e.heap) /\ e.heap.brk = 20 + CHUNKSIZE /\ e.heap.lossless = TRUE
    BY <2>4, <2>7, ShapeType
  <2>9. CHUNKSIZE + 24 <= MAX_HEAP
    BY <1>0, <2>8 DEF Ready
  <2>10. Apart(y, {})
    BY <1>0, <2>3 DEF Apart
  <2> QED BY <2>4, <2>5, <2>6, <2>8, <2>9, <2>10 DEF y
<1> QED BY <1>12, <1>14, <1>15 DEF r, h0

-----------------------------------------------------------------------------
(***************************************************************************)
(* What the calls do depends on the blocks only: on another arena with the *)
(* same blocks they do the same.                                           *)
(***************************************************************************)
LEMMA PlacingUnique ==
    ASSUME NEW z, NEW e, Chain(z, e), NEW A, NEW asize \in Nat,
           NEW z2, NEW e2, NEW p, Placing(z, A, e, asize, z2, e2, p),
           NEW z3, NEW e3, NEW q, Placing(z, A, e, asize, z3, e3, q)
    PROVE  p = q /\ z2 = z3 /\ e2 = e3
<1>1. \A c \in Blk(z) : c \in Nat /\ z[c] \in Nat
  BY ChainType
<1>2. CASE p \in Blk(z) \ A /\ z[p] >= asize /\ q \in Blk(z) \ A /\ z[q] >= asize
  <2>1. e2 = e /\ e3 = e
    BY <1>1, <1>2 DEF Placing
  <2>2. ~(p < q) /\ ~(q < p)
    BY <1>1, <1>2 DEF Placing
  <2>3. p = q
    BY <1>1, <1>2, <2>2
  <2>4. (z[p] - asize < 16 /\ z2 = z) \/ (z[p] - asize >= 16 /\ z2 = Split(z, p, asize))
    <3>1. p \in Blk(z) \ A /\ ~(z[p] < asize)
      BY <1>1, <1>2
    <3> QED BY Zenon, <3>1 DEF Placing
  <2>5. (z[q] - asize < 16 /\ z3 = z) \/ (z[q] - asize >= 16 /\ z3 = Split(z, q, asize))
    <3>1. q \in Blk(z) \ A /\ ~(z[q] < asize)
      BY <1>1, <1>2
    <3> QED BY Zenon, <3>1 DEF Placing
  <2> QED BY <1>1, <1>2, <2>1, <2>3, <2>4, <2>5
<1>3. CASE ~(p \in Blk(z) \ A /\ z[p] >= asize) /\ ~(q \in Blk(z) \ A /\ z[q] >= asize)
  BY <1>3 DEF Placing
<1>4. CASE ~(p \in Blk(z) \ A /\ z[p] >= asize) /\ q \in Blk(z) \ A /\ z[q] >= asize
  BY <1>1, <1>4 DEF Placing
<1>5. CASE p \in Blk(z) \ A /\ z[p] >= asize /\ ~(q \in Blk(z) \ A /\ z[q] >= asize)
  BY <1>1, <1>5 DEF Placing
<1> QED BY <1>2, <1>3, <1>4, <1>5

LEMMA CoalescingUnique ==
    ASSUME NEW z, NEW e, Chain(z, e), NEW A, NEW b \in Blk(z),
           NEW z2, NEW p, Coalescing(z, A, b, z2, p),
           NEW z3, NEW q, Coalescing(z, A, b, z3, q)
    PROVE  z2 = z3 /\ p = q
<1>1. \A a, c \in Blk(z) : FreePrev(z, A, a, b) /\ FreePrev(z, A, c, b) => a = c
  <2> SUFFICES ASSUME NEW a \in Blk(z), NEW c \in Blk(z), a + z[a] = b, c + z[c] = b PROVE a = c
    BY DEF FreePrev
  <2>1. /\ a \in Nat /\ c \in Nat /\ z[a] \in Nat /\ z[c] \in Nat /\ z[a] >= 16 /\ z[c] >= 16
    BY ChainType
  <2>2. (a < c => a + z[a] <= c) /\ (c < a => c + z[c] <= a)
    BY DEF Chain
  <2> QED BY <2>1, <2>2
<1> QED BY <1>1 DEF Coalescing

(* An extension that is used up exactly, and nothing free before it.       *)
LEMMA ExtendExact ==
    ASSUME NEW h, NEW z, NEW A, Good(h, z, A),
           NEW asize \in Nat, asize % 8 = 0, asize >= 16, asize >= CHUNKSIZE,
           h.brk + 4 + asize <= MAX_HEAP, \A c \in Blk(z) \ A : c + z[c] # h.brk + 4
    PROVE  LET r == ExtendAndPlace(h, asize)
           IN  r.ret # NULL /\ r.heap.lossless = h.lossless
<1> DEFINE x == extend_heap(h, asize \div WSIZE)
           exact  == GET_SIZE(x.heap.mem[HDRP(x.ret)]) = asize
           framed == Frame(x.heap, x.ret, asize, 1)
           r == ExtendAndPlace(h, asize)
           e == h.brk + 4
<1>1. /\ Larger(asize, CHUNKSIZE) = asize /\ Ready(h) /\ h.brk \in Nat /\ MAX_HEAP \in Nat
      /\ A \subseteq Blk(z) /\ h.lossless \in BOOLEAN /\ e \in Nat
  BY ChunkAssumption, WordsType DEF Larger, Good, Ready, Typed
<1>2. r = IF x.ret \in {NULL, Wild} THEN x
          ELSE Result([framed.heap EXCEPT !.lossless = framed.heap.lossless /\ exact], framed.ret)
  BY <1>1 DEF ExtendAndPlace
<1>3. h.brk + asize <= MAX_HEAP
  BY <1>1
<1>4. PICK g : Extended(h, asize, g) /\ x = coalesce(g, e)
  BY <1>1, <1>3, ExtendIs
<1> DEFINE y == Longer(z, e, asize)
<1>5. /\ Good(g, y, A) /\ Chain(y, e + asize) /\ Blk(y) = Blk(z) \union {e}
      /\ e \notin Blk(z) /\ y[e] = asize /\ \A c \in Blk(z) : y[c] = z[c]
  BY <1>3, <1>4, ExtendedIs
<1> HIDE DEF x, r, y
<1>6. e \in Blk(y) \ A
  BY <1>1, <1>5
<1>7. PICK z2 : /\ Coalescing(y, A, e, z2, x.ret) /\ Good(x.heap, z2, A)
                /\ SameShape(g, x.heap)
  <2> HIDE DEF e
  <2> QED BY <1>4, <1>5, <1>6, CoalesceIs
<1>8. z2 = y /\ x.ret = e
  <2>1. ~FreeNext(y, A, e)
    <3>1. e + asize \notin Blk(y)
      <4> DEFINE t == e + asize
      <4>1. Chain(y, t) /\ t \in Nat
        BY <1>1, <1>5
      <4> HIDE DEF t
      <4>2. t \notin Blk(y)
        BY <4>1, ChainType
      <4> QED BY <4>2 DEF t
    <3> QED BY <1>5, <3>1 DEF FreeNext
  <2>2. \A a \in Blk(y) : ~FreePrev(y, A, a, e)
    BY <1>1, <1>5 DEF FreePrev
  <2> HIDE DEF e
  <2> QED BY <1>7, <2>1, <2>2 DEF Coalescing
<1>9. HDRP(x.ret) \in Words /\ exact /\ x.ret \notin {NULL, Wild}
  <2>1. GET_SIZE(x.heap.mem[HDRP(e)]) = y[e]
    BY <1>6, <1>7, <1>8, Reads
  <2>2. HDRP(e) \in Words
    BY <1>6, <1>7, <1>8, Reads
  <2> QED BY <1>1, <1>5, <1>8, <2>1, <2>2 DEF NULL, Wild
<1>10. framed.ret = e /\ SameShape(x.heap, framed.heap) /\ Good(framed.heap, y, A \union {e})
  <2>1. Good(x.heap, y, A) /\ e \in Blk(y) /\ framed = Frame(x.heap, e, y[e], 1)
    BY <1>5, <1>6, <1>7, <1>8
  <2> DEFINE w == x.heap
  <2>2. Good(w, y, A) /\ e \in Blk(y) /\ framed = Frame(w, e, y[e], 1)
    BY <2>1
  <2> HIDE DEF framed, e, x, y, w
  <2>3. framed.ret = e /\ SameShape(w, framed.heap) /\ Good(framed.heap, y, A \union {e})
    BY <2>2, FrameInUse
  <2> QED BY <2>3 DEF w
<1> HIDE DEF framed, exact
<1>11. /\ Typed(g) /\ Typed(x.heap) /\ Typed(framed.heap)
       /\ g.lossless = h.lossless
  BY <1>4, <1>5, <1>7, <1>10 DEF Good, Ready, Extended
<1>12. framed.heap.lossless = h.lossless
  <2>1. x.heap.lossless = g.lossless
    BY <1>7, <1>11, ShapeType
  <2>2. framed.heap.lossless = x.heap.lossless
    BY <1>10, <1>11, ShapeType
  <2> QED BY <1>11, <2>1, <2>2
<1> DEFINE f == [framed.heap EXCEPT !.lossless = framed.heap.lossless /\ exact]
<1>13. r = Result(f, framed.ret)
  BY <1>2, <1>9
<1>14. f.lossless = (framed.heap.lossless /\ exact)
  BY <1>11 DEF Typed
<1> HIDE DEF f
<1>15. r.heap = f /\ r.ret = framed.ret
  BY <1>13, ResultIs
<1>16. r.heap.lossless = h.lossless
  BY <1>1, <1>9, <1>12, <1>14, <1>15
<1>17. r.ret # NULL
  BY <1>1, <1>10, <1>15 DEF NULL
<1> QED BY <1>16, <1>17 DEF r

LEMMA ExtendFollows ==
    ASSUME NEW h, NEW z, NEW A, Good(h, z, A), NEW asize \in Nat, asize % 8 = 0,
           asize >= 16, asize >= CHUNKSIZE, h.brk + 4 + asize <= MAX_HEAP,
           \A c \in Blk(z) \ A : c + z[c] # h.brk + 4, NEW r, r = ExtendAndPlace(h, asize)
    PROVE  r.ret # NULL /\ r.heap.lossless = h.lossless
BY ExtendExact

LEMMA PlaceFollows ==
    ASSUME NEW h, NEW z, NEW A, Good(h, z, A), NEW b \in Blk(z) \ A,
           NEW asize \in Nat, asize % 8 = 0, asize >= 16, z[b] >= asize,
           NEW r, r = Place(h, b, asize)
    PROVE  r.ret = b /\ SameShape(h, r.heap)
BY PlaceIs

(* mm_malloc on a heap where a request can be placed without a loss.       *)
LEMMA MallocFollows ==
    ASSUME NEW h, NEW z, NEW A, Good(h, z, A), h.lossless, NEW size \in Nat, size > 0,
           NEW z2, NEW e2, NEW p, Placing(z, A, h.brk + 4, Adjust(size), z2, e2, p)
    PROVE  LET r == mm_malloc(h, size)
           IN  /\ r.ret = p /\ r.heap.lossless /\ r.heap.brk + 4 = e2
               /\ Good(r.heap, z2, A \union {p})
<1> DEFINE asize == Adjust(size)
           fit   == FirstFit(h, asize)
           e     == h.brk + 4
           r     == mm_malloc(h, size)
<1>1. asize \in Nat /\ asize % 8 = 0 /\ asize >= 16
  BY AdjustType
<1>2. Typed(h) /\ Ready(h) /\ Chain(z, e) /\ A \subseteq Blk(z) /\ h.brk \in Nat
      /\ MAX_HEAP \in Nat
  BY WordsType DEF Good, Ready, Typed
<1>3. Placing(z, A, e, asize, z2, e2, p)
  OBVIOUS
<1> HIDE DEF asize
<1>4. r = IF fit = Wild THEN Result(h, Wild) ELSE IF fit = NULL THEN ExtendAndPlace(h, asize)
          ELSE Place(h, fit, asize)
  BY DEF mm_malloc, Wild, NULL, asize
<1>5. \/ fit = NULL /\ \A c \in Blk(z) \ A : z[c] < asize
      \/ fit \in Blk(z) \ A /\ z[fit] >= asize
  BY <1>1, FitIs
<1>6. \A c \in Blk(z) : c \in Nat /\ c >= 24 /\ z[c] \in Nat
  BY <1>2, ChainType
<1> HIDE DEF r
<1>7. r.ret # NULL /\ r.heap.lossless
  <2>1. CASE fit = NULL /\ \A c \in Blk(z) \ A : z[c] < asize
    <3>1. ~(p \in Blk(z) \ A /\ z[p] >= asize)
      BY <1>1, <1>6, <2>1
    <3>2. /\ asize >= CHUNKSIZE /\ e + asize <= MAX_HEAP
          /\ \A c \in Blk(z) \ A : c + z[c] # e
      <4> HIDE DEF e
      <4> QED BY <1>3, <3>1 DEF Placing
    <3>3. r = ExtendAndPlace(h, asize)
      BY <1>4, <2>1 DEF NULL, Wild
    <3> QED BY <1>1, <3>2, <3>3, ExtendFollows
  <2>2. CASE fit \in Blk(z) \ A /\ z[fit] >= asize
    <3>1. r = Place(h, fit, asize)
      BY <1>4, <1>6, <2>2 DEF NULL, Wild
    <3> HIDE DEF fit
    <3>2. r.ret = fit /\ SameShape(h, r.heap)
      BY <1>1, <2>2, <3>1, PlaceFollows
    <3>3. r.heap.lossless = h.lossless
      BY <1>2, <3>2, ShapeType
    <3> QED BY <1>6, <2>2, <3>2, <3>3 DEF NULL
  <2> QED BY <1>5, <2>1, <2>2
<1>8. PICK z3 : /\ Placing(z, A, e, asize, z3, r.heap.brk + 4, r.ret)
                /\ Good(r.heap, z3, A \union {r.ret})
  <2> DEFINE q == mm_malloc(h, size)
  <2>1. q.ret # NULL /\ q.heap.lossless =>
                 \E z3 : /\ Placing(z, A, e, asize, z3, q.heap.brk + 4, q.ret)
                         /\ Good(q.heap, z3, A \union {q.ret})
    BY MallocIs DEF asize
  <2>2. q = r
    BY DEF r
  <2> HIDE DEF q, e
  <2> QED BY <1>7, <2>1, <2>2
<1> DEFINE e3 == r.heap.brk + 4
           q  == r.ret
<1>9. Placing(z, A, e, asize, z3, e3, q)
  BY <1>8
<1> HIDE DEF e3, q, e
<1>10. p = q /\ z2 = z3 /\ e2 = e3
  BY <1>1, <1>2, <1>3, <1>9, PlacingUnique
<1> QED BY <1>7, <1>8, <1>10 DEF r, q, e3

(* mm_free of a block in use.                                              *)
LEMMA FreeFollows ==
    ASSUME NEW h, NEW z, NEW A, Good(h, z, A), NEW b \in A,
           NEW z2, NEW p, Coalescing(z, A \ {b}, b, z2, p)
    PROVE  LET r == mm_free(h, b)
           IN  /\ r.ret = p /\ p \in Nat /\ p >= 24 /\ r.heap.lossless = h.lossless
               /\ r.heap.brk = h.brk /\ Good(r.heap, z2, A \ {b})
<1> DEFINE r == mm_free(h, b)
           B == A \ {b}
           e == h.brk + 4
<1>1. Typed(h) /\ Chain(z, e) /\ A \subseteq Blk(z) /\ b \in Blk(z) \ B /\ B \subseteq Blk(z)
  BY DEF Good, Ready
<1>2. PICK z3 : Coalescing(z, B, b, z3, r.ret) /\ Good(r.heap, z3, B) /\ SameShape(h, r.heap)
  BY FreeIs
<1> HIDE DEF r, B, e
<1> DEFINE q == r.ret
<1>3. Coalescing(z, B, b, z3, q) /\ Coalescing(z, B, b, z2, p)
  BY <1>2 DEF B
<1> HIDE DEF q
<1>4. z2 = z3 /\ p = q
  BY <1>1, <1>3, CoalescingUnique
<1>5. r.heap.lossless = h.lossless /\ r.heap.brk = h.brk
  BY <1>1, <1>2, ShapeType
<1>6. p \in Nat /\ p >= 24
  <2>1. Chain(z2, e)
    BY <1>1, <1>3, CoalescingChain
  <2>2. p \in Blk(z2) \ B
    BY <1>1, <1>3, CoalescingChain
  <2> QED BY <2>1, <2>2, ChainType
<1> QED BY <1>2, <1>4, <1>5, <1>6 DEF r, q, B

(* mm_realloc of a block in use, up to its mm_free.                        *)
LEMMA CopyFollows ==
    ASSUME NEW h, NEW z, NEW A, Good(h, z, A), h.lossless, NEW size \in Nat, size > 0,
           NEW b \in A, b + size <= MAX_HEAP,
           NEW z2, NEW e2, NEW p, Placing(z, A, h.brk + 4, Adjust(size), z2, e2, p),
           NEW r \in ReallocCopies(h, b, size)
    PROVE  /\ r.ret = p /\ p \notin {NULL, Wild} /\ r.heap.lossless /\ r.heap.brk + 4 = e2
           /\ Good(r.heap, z2, A \union {p})
<1> DEFINE q == mm_malloc(h, size)
           e == h.brk + 4
           asize == Adjust(size)
<1>1. /\ q.ret = p /\ q.heap.lossless /\ q.heap.brk + 4 = e2
      /\ Good(q.heap, z2, A \union {p})
  BY MallocFollows
<1> HIDE DEF q
<1>2. Ready(h) /\ Chain(z, e) /\ A \subseteq Blk(z)
  BY DEF Good
<1>3. /\ p \notin A /\ p \in Blk(z2) /\ A \subseteq Blk(z2) /\ p \in Nat /\ p >= 24
      /\ asize <= z2[p] /\ Chain(z2, e2)
  <2>1. asize \in Nat /\ asize % 8 = 0 /\ asize >= 16
    BY AdjustType
  <2>2. Placing(z, A, e, asize, z2, e2, p)
    OBVIOUS
  <2> HIDE DEF asize, e
  <2> QED BY <1>2, <2>1, <2>2, PlacingType
<1>4. b \in Blk(z2) /\ b # p /\ b \in Nat /\ b % 8 = 0 /\ b - 4 \in Words /\ HDRP(b) = b - 4
  <2>1. b \in Blk(z2) /\ b # p
    BY <1>3
  <2>2. b \in Nat /\ b % 8 = 0
    BY <1>3, <2>1, ChainType
  <2>3. HDRP(b) = b - 4 /\ HDRP(b) \in Words
    BY <1>1, <2>1, Reads
  <2> QED BY <2>1, <2>2, <2>3
<1>5. Pointer(b)
  BY <1>4 DEF Pointer
<1>6. q.heap.mem[HDRP(b)] > 0
  <2>1. q.heap.mem[b - 4] = Tag(z2, A \union {p}, b)
    BY <1>1, <1>4 DEF Good, Tagged
  <2>2. Tag(z2, A \union {p}, b) > 0
    BY <1>3, <1>4, TagIs
  <2> QED BY <1>4, <2>1, <2>2
<1>7. p \notin {NULL, Wild}
  BY <1>3 DEF NULL, Wild
<1>8. PICK n : Copied(h, b, size, n, r)
  <2>1. (r = q /\ r.ret \in {NULL, Wild}) \/ \E n : Copied(h, b, size, n, r)
    BY <1>2, <1>4, <1>5, ReallocIs DEF q
  <2> QED BY <1>1, <1>7, <2>1
<1>9. n = size
  BY <1>6, <1>8 DEF Copied, q
<1>10. PICK m \in memcpy(q.heap.mem, p, b, size) : m \in Arena /\ r = Result(With(q.heap, m), p)
  <2>1. \/ b + n > MAX_HEAP
        \/ \E m \in memcpy(q.heap.mem, q.ret, b, n) :
              m \in Arena /\ r = Result(With(q.heap, m), q.ret)
    BY <1>8 DEF Copied, q
  <2>2. ~(b + size > MAX_HEAP)
    BY <1>4, WordsType
  <2> QED BY <1>1, <1>9, <2>1, <2>2
<1>11. Good(With(q.heap, m), z2, A \union {p})
  <2>1. size + 8 <= z2[p]
    <3>1. asize \in Nat /\ asize >= size + 8 /\ z2[p] \in Nat
      BY <1>3, AdjustType, ChainType
    <3> HIDE DEF asize
    <3> QED BY <1>3, <3>1
  <2> QED BY <1>1, <1>3, <1>4, <1>10, <2>1, CopyIs
<1>12. Typed(q.heap)
  BY <1>1 DEF Good, Ready
<1>13. With(q.heap, m).lossless = q.heap.lossless /\ With(q.heap, m).brk = q.heap.brk
  BY <1>10, <1>12, WithType
<1> DEFINE w == With(q.heap, m)
<1> HIDE DEF w
<1>14. r.ret = p /\ r.heap = w
  BY <1>10, ResultIs DEF w
<1>15. w.lossless /\ w.brk + 4 = e2 /\ Good(w, z2, A \union {p})
  BY <1>1, <1>11, <1>13 DEF w
<1> QED BY <1>7, <1>14, <1>15
=============================================================================
