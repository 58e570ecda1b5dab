----------------------------- MODULE ChainProofs -----------------------------
(***************************************************************************)
(* Chains of backups, how they are made and how they are restored.         *)
(*                                                                         *)
(* BackupChain, for every number of storages, every configuration of the   *)
(* options about levels, every combination of faults and every length of a *)
(* behaviour: what a restore reads of any date is a chain, and the most    *)
(* recent one.                                                             *)
(*                                                                         *)
(* The argument is about the chains of which no removal has taken anything *)
(* (Whole): the first storage gets each metadata first, so that it lists   *)
(* what any storage lists (Mirrors). What it lists is Sound: below each    *)
(* backup all lower levels are there and older, the next lower one is its  *)
(* base, and a level is there once, unless it is --always-level. The       *)
(* backup being made Fits on top of what is there until it is listed. And  *)
(* nothing, torn or not, was added to a chain after a later one that is    *)
(* Whole had begun (Older).                                                *)
(*                                                                         *)
(* That needs a listing which either includes the first storage or is of   *)
(* storages that all list the same. Where storages differ and a listing is *)
(* short (Forks), only Dated is left.                                      *)
(*                                                                         *)
(* A removal that no fault cuts short has yet to come to all that is left  *)
(* of a torn chain (Coming).                                               *)
(*                                                                         *)
(* Restore, for chains of every length, backups and sockets of every size  *)
(* and every combination of faults: restore() returns normally only when   *)
(* every block that was sent was extracted, all of a level were sent       *)
(* unless its reading was cut without a word, and nobody is left behind.   *)
(*                                                                         *)
(* The argument: what was put in the socket and is not extracted is in the *)
(* socket, in the hands of engine_stream or in tar's standard input,       *)
(* unless tar has died (Conserved).  A tar that ends well ended after      *)
(* communicate, which was called when the socket was empty and nobody      *)
(* could write to it any more (Drained), so by then nothing is on its way. *)
(***************************************************************************)
EXTENDS BackupChain, Restore, FiniteSetTheorems, TLAPS

\* Each backup of L has its base and all the levels below it in L.
Rooted(b, L) ==
    \A k \in 0..b.level - 1 : \E c \in L :
        /\ c.zero = b.zero /\ c.level = k /\ c.time < b.time
        /\ k = b.level - 1 => c.time = b.base

\* A backup by itself: its dates and its level.
Proper(b) ==
    /\ b \in Backup
    /\ b.level < b.time /\ b.zero <= b.time /\ b.zero > 0
    /\ b.level = 0 <=> b.zero = b.time
    /\ b.level = 0 => b.base = 0
    /\ conf.max > 0 => b.level <= conf.max
    /\ conf.always > 0 => b.level <= conf.always

\* Two backups of one chain and one level: only with --always-level.
Apart(b, c) == b.zero = c.zero /\ b.level = c.level /\ b # c => conf.always > 0 /\ b.level = conf.always

\* Chains do not overlap in time.
InTurn(b, c) == b.zero < c.zero => b.time < c.zero

Sound(L) ==
    /\ \A b \in L : Proper(b) /\ Rooted(b, L)
    /\ \A b, c \in L : Apart(b, c) /\ InTurn(b, c)

\* b can be added to L.
Fits(b, L) ==
    /\ Proper(b) /\ Rooted(b, L)
    /\ \A c \in L : Apart(b, c) /\ Apart(c, b) /\ InTurn(b, c) /\ InTurn(c, b)

\* What s lists of the chains that no removal has taken anything of.
Whole(s) == {b \in listed[s] : b.zero \notin torn}

Mirrors ==
    /\ \A s \in Storages : Whole(s) \subseteq Whole(1)
    /\ "put" \notin conf.faults =>
           \A s \in Storages : Whole(s) = IF putting > 1 /\ s >= putting THEN Whole(1) \ {job} ELSE Whole(1)

Making ==
    job # NoBackup =>
        /\ \A b \in Whole(1) \ {job} : b.time < job.time
        /\ putting = 1 => job \notin listed[1] /\ (job.zero \notin torn => Fits(job, Whole(1)))
        /\ putting > 1 => job \in listed[1]

Older ==
    /\ \A s \in Storages : \A b \in listed[s] :
           /\ \A c \in Whole(1) : InTurn(b, c)
           /\ job # NoBackup /\ job.zero \notin torn => InTurn(b, job)
    /\ job # NoBackup => \A c \in Whole(1) : InTurn(job, c)

\* Where chains do not fork.
Chains == ~Forks /\ Sound(Whole(1)) /\ Mirrors /\ Making /\ Older

\* Where they may, all the same: each backup is Proper, and older than now.
Dated ==
    /\ \A s \in Storages : \A b \in listed[s] : Proper(b) /\ b.time < clock
    /\ IF job = NoBackup THEN putting = 1 ELSE Proper(job) /\ job.time < clock /\ doomed = {}

Coming ==
    {"list", "remove"} \cap conf.faults = {} =>
        /\ \A z \in torn : \E s \in Storages : z \in Zeros(s)
        /\ \A s, u \in Storages : \A z \in Zeros(u) :
               z \in torn \/ <<s, z>> \in doomed => <<u, z>> \in doomed

Base == TypeOK /\ clock > 0 /\ Dated

IInv == Base /\ Coming /\ (Forks \/ Chains)

-----------------------------------------------------------------------------
(* The greatest and the least of a set of naturals.                        *)

LEMMA LeastNatural ==
    ASSUME NEW T \in SUBSET Nat, T # {}
    PROVE  \E x \in T : \A y \in T : x <= y
<1> DEFINE R == StrictSubsetOrdering(Nat)
           F == FiniteSubsetsOf(Nat)
           I == {1..x : x \in T}
<1>1. IsWellFoundedOn(R, F)
      BY FS_StrictSubsetOrderingWellFounded
<1>2. I \subseteq F /\ I # {}
  <2>1. ASSUME NEW x \in T PROVE IsFiniteSet(1..x) /\ 1..x \subseteq Nat
    <3>1. x \in Int /\ 1 \in Int
          OBVIOUS
    <3>2. IsFiniteSet(1..x)
          BY <3>1, FS_Interval
    <3> QED BY <3>2
  <2> QED BY <2>1 DEF FiniteSubsetsOf
<1>3. \A x, y \in T : y < x => <<1..y, 1..x>> \in R
  <2> SUFFICES ASSUME NEW x \in T, NEW y \in T, y < x
               PROVE  1..y \subseteq 1..x /\ 1..y # 1..x
      BY DEF StrictSubsetOrdering
  <2>1. x \in 1..x /\ x \notin 1..y
        OBVIOUS
  <2> QED BY <2>1
<1> HIDE DEF R, F
<1>4. PICK i \in I : \A j \in I : ~(<<j, i>> \in R)
      BY <1>1, <1>2, WFMin
<1>5. PICK x \in T : i = 1..x
      BY <1>4
<1>6. \A y \in T : ~(y < x)
      BY <1>3, <1>4, <1>5
<1> QED BY <1>6

LEMMA MaxFacts ==
    ASSUME NEW S \in SUBSET Nat, S # {}, NEW n \in Nat, \A x \in S : x <= n
    PROVE  Max(S) \in S /\ \A x \in S : x <= Max(S)
<1> DEFINE T == {m \in Nat : \A x \in S : x <= m}
<1>1. PICK m \in T : \A y \in T : m <= y
      BY LeastNatural
<1>2. m \in S
  <2> SUFFICES ASSUME m \notin S PROVE FALSE
      OBVIOUS
  <2>1. \A x \in S : x <= m /\ x # m
        BY <1>1
  <2>2. m # 0 /\ m \in Nat
    <3>1. PICK x \in S : TRUE
          OBVIOUS
    <3> QED BY <1>1, <2>1, <3>1
  <2>3. \A x \in S : x <= m - 1
        BY <2>1, <2>2
  <2>4. m - 1 \in T
        BY <2>2, <2>3
  <2>5. m <= m - 1
        BY <1>1, <2>4
  <2> QED BY <2>2, <2>5
<1>3. \E x \in S : \A y \in S : x >= y
      BY <1>1, <1>2
<1>4. Max(S) \in S /\ \A y \in S : Max(S) >= y
      BY <1>3 DEF Max
<1> QED BY <1>4

LEMMA MinFacts ==
    ASSUME NEW S \in SUBSET Storages, S # {}
    PROVE  Min(S) \in S /\ (1 \in S => Min(S) = 1)
<1>1. S \subseteq Nat /\ \A x \in S : x >= 1
      BY ChainAssumption DEF Storages
<1>2. PICK x \in S : \A y \in S : x <= y
      BY <1>1, LeastNatural
<1>3. Min(S) \in S /\ \A y \in S : Min(S) <= y
      BY <1>2 DEF Min
<1>4. ASSUME 1 \in S PROVE Min(S) = 1
  <2>1. Min(S) <= 1 /\ Min(S) >= 1 /\ Min(S) \in Nat
        BY <1>1, <1>3, <1>4
  <2> QED BY <2>1
<1> QED BY <1>3, <1>4

-----------------------------------------------------------------------------
(* What is Sound stays so.                                                 *)

LEMMA ConfFacts ==
    ASSUME TypeOK
    PROVE  conf.max \in Nat /\ conf.always \in Nat /\ conf.restart \in Nat
BY ChainAssumption DEF TypeOK

LEMMA SoundWith ==
    ASSUME NEW L, NEW b, Sound(L), Fits(b, L)
    PROVE  Sound(L \cup {b})
<1>1. ASSUME NEW c \in L \cup {b} PROVE Proper(c) /\ Rooted(c, L \cup {b})
  <2>1. Proper(c) /\ Rooted(c, L)
        BY DEF Sound, Fits
  <2> QED BY <2>1 DEF Rooted
<1>2. ASSUME NEW c \in L \cup {b}, NEW d \in L \cup {b} PROVE Apart(c, d)
  <2>1. CASE c \in L /\ d \in L
        BY <2>1 DEF Sound
  <2>2. CASE c = b /\ d = b
        BY <2>2 DEF Apart
  <2>3. CASE (c = b /\ d \in L) \/ (c \in L /\ d = b)
        BY <2>3 DEF Fits
  <2> QED BY <2>1, <2>2, <2>3
<1>3. ASSUME NEW c \in L \cup {b}, NEW d \in L \cup {b} PROVE InTurn(c, d)
  <2>1. CASE c \in L /\ d \in L
        BY <2>1 DEF Sound
  <2>2. CASE c = b /\ d = b
    <3>1. b.zero \in Nat
          BY DEF Fits, Proper, Backup
    <3> QED BY <2>2, <3>1 DEF InTurn
  <2>3. CASE (c = b /\ d \in L) \/ (c \in L /\ d = b)
        BY <2>3 DEF Fits
  <2> QED BY <2>1, <2>2, <2>3
<1> QED BY <1>1, <1>2, <1>3 DEF Sound

LEMMA SoundWithout ==
    ASSUME NEW L, Sound(L), NEW z
    PROVE  Sound({b \in L : b.zero # z})
<1> DEFINE K == {b \in L : b.zero # z}
<1>1. ASSUME NEW b \in K PROVE Proper(b) /\ Rooted(b, K)
  <2>1. Proper(b) /\ Rooted(b, L) /\ b.zero # z
        BY DEF Sound
  <2>2. \A c \in L : c.zero = b.zero => c \in K
        BY <2>1
  <2> HIDE DEF K
  <2> QED BY <2>1, <2>2 DEF Rooted
<1>2. \A b, c \in K : Apart(b, c) /\ InTurn(b, c)
      BY DEF Sound
<1> QED BY <1>1, <1>2 DEF Sound

LEMMA InitIInv == Init => IInv
<1> SUFFICES ASSUME Init PROVE IInv
    OBVIOUS
<1>1. 1 \in Storages
      BY ChainAssumption DEF Storages
<1>2. TypeOK
      BY <1>1 DEF Init, TypeOK, NoBackup, Backup
<1>3. /\ \A s \in Storages : listed[s] = {} /\ Whole(s) = {}
      /\ job = NoBackup /\ putting = 1 /\ torn = {} /\ doomed = {} /\ clock = 1
      BY <1>1 DEF Init, Whole
<1>4. Sound(Whole(1))
      BY <1>1, <1>3 DEF Sound
<1>5. Mirrors /\ Making /\ Older /\ Dated /\ Coming
      BY <1>1, <1>3 DEF Mirrors, Making, Older, Dated, Coming
<1> QED BY <1>2, <1>3, <1>4, <1>5 DEF IInv, Base, Chains

-----------------------------------------------------------------------------
(* What get_latest_level_zero_increments returns of storages that show all *)
(* there is: the chain of the latest full backup, level by level.          *)

Chained(g, z, m, date) ==
    LET L == Whole(1)
    IN  /\ z <= date /\ \A b \in L : b.zero <= date => b.zero <= z
        /\ m = Max(DOMAIN g) /\ DOMAIN g = 0..m
        /\ \A l \in 0..m : g[l] \in L /\ g[l].zero = z /\ g[l].level = l /\ g[l].time <= date
        /\ \A b \in L : b.zero = z /\ (\A c \in L : c.zero = z /\ c.level = b.level => c.time <= date)
                          => b.level <= m

\* A listing that shows all that is Whole.
Sees(shown) == 1 \in shown \/ \A t \in shown : Whole(t) = Whole(1)

\* The full backup it finds is as late as any that is Whole.
LEMMA LatestZero ==
    ASSUME Base, Chains, NEW shown \in SUBSET Storages, NEW date \in Nat,
           NEW g \in LatestIncrements(shown, date)
    PROVE  LET z == Max(ZerosUpTo(shown, date))
               s == Min({t \in shown : z \in Zeros(t)})
           IN  /\ z \in Nat /\ z <= date /\ \A x \in ZerosUpTo(shown, date) : x <= z
               /\ s \in shown /\ z \in Zeros(s) /\ (1 \in shown /\ z \in Zeros(1) => s = 1)
               /\ \E f \in Increments(s, z) : g = [l \in {k \in DOMAIN f : f[k].time <= date} |-> f[l]]
               /\ \A l \in DOMAIN g : g[l].zero = z
               /\ Sees(shown) => \A b \in Whole(1) : b.zero <= date => b.zero <= z
<1> DEFINE Z == ZerosUpTo(shown, date)
           z == Max(Z)
           T == {t \in shown : z \in Zeros(t)}
           s == Min(T)
<1>1. \A t \in Storages : \A b \in listed[t] : b.zero \in Nat
      BY DEF Base, Dated, Proper, Backup
<1>2. Z # {} /\ Z \in SUBSET Nat /\ \A x \in Z : x <= date
  <2>1. Z # {}
        BY DEF LatestIncrements
  <2>2. \A t \in shown : Zeros(t) \subseteq Nat
        BY <1>1 DEF Zeros
  <2> QED BY <2>1, <2>2 DEF ZerosUpTo
<1>3. z \in Z /\ \A x \in Z : x <= z
  <2> HIDE DEF Z
  <2> QED BY <1>2, MaxFacts
<1>4. PICK t0 \in shown : z \in Zeros(t0)
      BY <1>3 DEF ZerosUpTo
<1>5. T # {} /\ T \in SUBSET Storages
      BY <1>4
<1>6. s \in T /\ (1 \in T => s = 1)
  <2> HIDE DEF T
  <2> QED BY <1>5, MinFacts
<1>7. PICK f \in Increments(s, z) : g = [l \in {k \in DOMAIN f : f[k].time <= date} |-> f[l]]
      BY <1>2 DEF LatestIncrements
<1>8. \A l \in DOMAIN g : g[l].zero = z
      BY <1>7 DEF Increments
<1>9. ASSUME Sees(shown), NEW b \in Whole(1), b.zero <= date PROVE b.zero <= z
  <2>1. PICK t \in shown : b \in Whole(t)
        BY <1>4, <1>9 DEF Sees
  <2>2. b.zero \in Z
        BY <1>9, <2>1 DEF ZerosUpTo, Zeros, Whole
  <2> QED BY <1>3, <2>2
<1>10. z \in Nat /\ z <= date
      BY <1>2, <1>3
<1> QED BY <1>3, <1>6, <1>7, <1>8, <1>9, <1>10

LEMMA Reading ==
    ASSUME Base, Chains, NEW shown \in SUBSET Storages, NEW date \in Nat, Sees(shown),
           NEW g \in LatestIncrements(shown, date),
           Max(ZerosUpTo(shown, date)) \notin torn
    PROVE  \E z \in Nat, m \in Nat : Chained(g, z, m, date)
<1> DEFINE L == Whole(1)
           z == Max(ZerosUpTo(shown, date))
           s == Min({t \in shown : z \in Zeros(t)})
           chain == {b \in listed[s] : b.zero = z}
           levels == {b.level : b \in chain}
<1>1. /\ \A b \in L : Proper(b) /\ Rooted(b, L)
      /\ \A b, c \in L : Apart(b, c)
      /\ \A t \in Storages : Whole(t) \subseteq L
      BY DEF Chains, Sound, Mirrors
<1>2. \A b \in L : b.zero \in Nat /\ b.level \in Nat /\ b.time \in Nat
      BY <1>1 DEF Proper, Backup
<1>3. /\ z \in Nat /\ z <= date /\ s \in shown /\ z \in Zeros(s)
      /\ 1 \in shown /\ z \in Zeros(1) => s = 1
      BY LatestZero
<1>9. \A b \in L : b.zero <= date => b.zero <= z
      BY LatestZero
<1>10. PICK f \in Increments(s, z) : g = [l \in {k \in DOMAIN f : f[k].time <= date} |-> f[l]]
      BY LatestZero
<1>11. f \in [levels -> chain] /\ \A l \in levels : f[l].level = l
      BY <1>10 DEF Increments
<1>4. z \notin torn
      OBVIOUS
<1> HIDE DEF z, s
<1>8. chain = {b \in L : b.zero = z}
  <2>1. chain = {b \in Whole(s) : b.zero = z}
        BY <1>4 DEF Whole
  <2>2. CASE 1 \in shown
    <3>1. PICK b \in listed[s] : b.zero = z
          BY <1>3 DEF Zeros
    <3>2. b \in L
          BY <1>1, <1>3, <1>4, <3>1 DEF Whole
    <3>3. z \in Zeros(1)
          BY <3>1, <3>2 DEF Whole, Zeros
    <3> QED BY <1>3, <2>1, <2>2, <3>3
  <2>3. CASE \A t \in shown : Whole(t) = L
        BY <1>3, <2>1, <2>3
  <2> QED BY <2>2, <2>3 DEF Sees
<1>12. z \in Nat /\ z <= date /\ \E b \in L : b.zero = z
  <2>1. PICK b \in listed[s] : b.zero = z
        BY <1>3 DEF Zeros
  <2> QED BY <1>3, <1>8, <2>1
<1>13. chain = {b \in L : b.zero = z}
      BY <1>8
<1>14. \A l \in levels : f[l] \in L /\ f[l].zero = z /\ f[l].level = l /\ l \in Nat /\ f[l].time \in Nat
      BY <1>2, <1>11, <1>13
<1>15. \A b \in L : b.zero = z => b.level \in levels
      BY <1>13
<1> HIDE DEF chain, levels
<1>16. DOMAIN g = {k \in levels : f[k].time <= date} /\ \A l \in DOMAIN g : g[l] = f[l]
      BY <1>10, <1>11
<1>17. ASSUME NEW l \in DOMAIN g, NEW k \in 0..l - 1 PROVE k \in DOMAIN g
  <2>1. /\ l \in levels /\ f[l] \in L /\ f[l].zero = z /\ f[l].level = l /\ f[l].time <= date
        /\ l \in Nat /\ f[l].time \in Nat
        BY <1>14, <1>16
  <2>2. PICK c \in L : c.zero = z /\ c.level = k /\ c.time < f[l].time
        BY <1>1, <2>1 DEF Rooted
  <2>3. k \in levels /\ f[k] \in L /\ f[k].zero = z /\ f[k].level = k
        BY <1>14, <1>15, <2>2
  <2>4. ~(conf.always > 0 /\ k = conf.always)
    <3>1. conf.always > 0 => l <= conf.always
          BY <1>1, <2>1 DEF Proper
    <3> QED BY <2>1, <3>1, ConfFacts DEF Base
  <2>5. f[k] = c
        BY <1>1, <2>2, <2>3, <2>4 DEF Apart
  <2>6. c.time \in Nat
        BY <1>2
  <2> QED BY <1>16, <2>1, <2>2, <2>3, <2>5, <2>6
<1>18. 0 \in DOMAIN g
  <2>1. PICK b \in L : b.zero = z
        BY <1>12
  <2>2. 0 \in levels
    <3>1. CASE b.level = 0
          BY <1>15, <2>1, <3>1
    <3>2. CASE b.level # 0
      <4>1. b.level \in Nat /\ 0 \in 0..b.level - 1
            BY <1>2, <3>2
      <4>2. PICK c \in L : c.zero = z /\ c.level = 0
            BY <1>1, <2>1, <4>1 DEF Rooted
      <4> QED BY <1>15, <4>2
    <3> QED BY <3>1, <3>2
  <2>3. f[0].time = z
        BY <1>1, <1>14, <2>2 DEF Proper
  <2> QED BY <1>12, <1>16, <2>2, <2>3
<1> DEFINE m == Max(DOMAIN g)
<1>19. m \in DOMAIN g /\ \A l \in DOMAIN g : l <= m /\ l \in Nat
  <2>1. \A l \in DOMAIN g : l \in Nat /\ l <= date
    <3> TAKE l \in DOMAIN g
    <3>1. /\ l \in levels /\ f[l] \in L /\ f[l].level = l /\ f[l].time <= date
          /\ l \in Nat /\ f[l].time \in Nat
          BY <1>14, <1>16
    <3>2. l < f[l].time
          BY <1>1, <3>1 DEF Proper
    <3> QED BY <3>1, <3>2
  <2> DEFINE D == DOMAIN g
  <2>2. D \in SUBSET Nat /\ D # {} /\ \A l \in D : l <= date
        BY <1>18, <2>1
  <2>3. Max(D) \in D /\ \A l \in D : l <= Max(D)
    <3> HIDE DEF D
    <3> QED BY <2>2, MaxFacts
  <2> QED BY <2>1, <2>3
<1> HIDE DEF m
<1>20. DOMAIN g = 0..m
  <2> DEFINE D == DOMAIN g
  <2>1. /\ \A l \in D : \A k \in 0..l - 1 : k \in D
        /\ m \in D /\ \A l \in D : l <= m /\ l \in Nat
        BY <1>17, <1>19
  <2>2. D = 0..m
    <3> HIDE DEF D
    <3>1. \A k \in 0..m : k \in D
      <4> TAKE k \in 0..m
      <4>1. k = m \/ k \in 0..m - 1
            BY <2>1
      <4> QED BY <2>1, <4>1
    <3>2. \A l \in D : l \in 0..m
          BY <2>1
    <3> QED BY <3>1, <3>2
  <2> QED BY <2>2
<1>21. \A l \in 0..m : g[l] \in L /\ g[l].zero = z /\ g[l].level = l /\ g[l].time <= date
      BY <1>14, <1>16, <1>20
<1>22. ASSUME NEW b \in L, b.zero = z, \A c \in L : c.zero = z /\ c.level = b.level => c.time <= date
       PROVE  b.level <= m
  <2>1. /\ b.level \in levels /\ f[b.level] \in L
        /\ f[b.level].zero = z /\ f[b.level].level = b.level
        BY <1>14, <1>15, <1>22
  <2>2. b.level \in DOMAIN g
        BY <1>16, <1>22, <2>1
  <2> QED BY <1>19, <2>2
<1>23. Chained(g, z, m, date)
      BY <1>9, <1>12, <1>20, <1>21, <1>22 DEF Chained, m
<1> QED BY <1>12, <1>19, <1>23

\* What the next backup is made on top of fits there.
LEMMA NextFits ==
    ASSUME Base, Chains, NEW prev,
           \/ prev = NoBackup
           \/ \E z \in Nat, m \in Nat : \E g : Chained(g, z, m, clock) /\ prev = Previous(g, clock)
    PROVE  LET b == OnTopOf(prev, clock)
           IN  b # NoBackup /\ b.time = clock /\ Fits(b, Whole(1))
<1> DEFINE L == Whole(1)
           b == OnTopOf(prev, clock)
<1>1. /\ \A c \in L : Proper(c) /\ Rooted(c, L) /\ c.time < clock
      /\ \A c, d \in L : Apart(c, d) /\ InTurn(c, d)
      /\ clock \in Nat /\ clock > 0
      BY ChainAssumption DEF Base, Chains, TypeOK, Dated, Sound, Whole, Storages
<1>2. /\ \A c \in L : /\ c.zero \in Nat /\ c.level \in Nat /\ c.time \in Nat
                      /\ c.zero <= c.time /\ c.level < c.time /\ c.zero > 0
      BY <1>1 DEF Proper, Backup
<1>3. conf.max \in Nat /\ conf.always \in Nat
      BY ConfFacts DEF Base
<1>4. CASE prev = NoBackup
  <2>1. b = [zero |-> clock, level |-> 0, time |-> clock, base |-> 0]
        BY <1>4 DEF OnTopOf
  <2>2. b \in Backup /\ b.zero = clock /\ b.level = 0 /\ b.time = clock /\ b.base = 0
        BY <1>1, <2>1 DEF Backup
  <2> HIDE DEF b
  <2>3. Proper(b)
        BY <1>1, <1>3, <2>2 DEF Proper
  <2>4. Rooted(b, L)
        BY <2>2 DEF Rooted
  <2>5. \A c \in L : Apart(b, c) /\ Apart(c, b) /\ InTurn(b, c) /\ InTurn(c, b)
        BY <1>1, <1>2, <2>2 DEF Apart, InTurn
  <2>6. b # NoBackup
        BY <1>1, <2>2 DEF NoBackup
  <2> QED BY <2>2, <2>3, <2>4, <2>5, <2>6 DEF Fits, b
<1>5. CASE prev # NoBackup
  <2>1. PICK z \in Nat, m \in Nat : \E g : Chained(g, z, m, clock) /\ prev = Previous(g, clock)
        BY <1>5
  <2>2. PICK g : Chained(g, z, m, clock) /\ prev = Previous(g, clock)
        BY <2>1
  <2>3. /\ \A c \in L : c.zero <= z
        /\ m = Max(DOMAIN g) /\ DOMAIN g = 0..m
        /\ \A l \in 0..m : g[l] \in L /\ g[l].zero = z /\ g[l].level = l
        /\ \A c \in L : c.zero = z => c.level <= m
        BY <1>1, <1>2, <2>2 DEF Chained
  <2> DEFINE p == IF conf.always > 0 /\ m = conf.always THEN m - 1 ELSE m
  <2>4. /\ prev = g[p]
        /\ ~(conf.max > 0 /\ conf.max <= m) /\ ~(conf.always > 0 /\ m > conf.always)
        BY <1>5, <2>3, <2>2 DEF Previous, Restarts, BuiltOn
  <2>5. /\ p \in 0..m
        /\ conf.always > 0 => p + 1 <= conf.always
        /\ conf.max > 0 => p + 1 <= conf.max
        /\ p + 1 <= m => conf.always > 0 /\ p + 1 = conf.always
        BY <1>3, <2>1, <2>4
  <2> HIDE DEF p
  <2>6. prev \in L /\ prev.zero = z /\ prev.level = p /\ p \in Nat
        BY <2>3, <2>4, <2>5
  <2>7. /\ Proper(prev) /\ Rooted(prev, L) /\ prev.time \in Nat /\ prev.time < clock
        /\ p < prev.time /\ z <= prev.time /\ z > 0
        BY <1>1, <1>2, <2>6
  <2>8. b = [zero |-> prev.zero, level |-> prev.level + 1, time |-> clock, base |-> prev.time]
        BY <1>5 DEF OnTopOf
  <2>9. b \in Backup /\ b.zero = z /\ b.level = p + 1 /\ b.time = clock /\ b.base = prev.time
        BY <1>1, <2>1, <2>6, <2>7, <2>8 DEF Backup
  <2> HIDE DEF b
  <2>10. Proper(b)
    <3>1. p + 1 < clock /\ z <= clock /\ z # clock /\ p + 1 # 0
          BY <1>1, <2>1, <2>6, <2>7
    <3> QED BY <2>5, <2>7, <2>9, <3>1 DEF Proper
  <2>11. Rooted(b, L)
    <3> SUFFICES ASSUME NEW k \in 0..p
                 PROVE  \E c \in L : /\ c.zero = z /\ c.level = k /\ c.time < clock
                                     /\ k = p => c.time = prev.time
        BY <2>6, <2>9 DEF Rooted
    <3>1. CASE k = p
          BY <2>6, <2>7, <3>1
    <3>2. CASE k # p
      <4>1. k \in 0..prev.level - 1
            BY <2>6, <3>2
      <4>2. PICK c \in L : c.zero = z /\ c.level = k /\ c.time < prev.time
            BY <2>6, <2>7, <4>1 DEF Rooted
      <4> QED BY <1>1, <3>2, <4>2
    <3> QED BY <3>1, <3>2
  <2>12. ASSUME NEW c \in L PROVE Apart(b, c) /\ Apart(c, b)
        BY <1>2, <2>3, <2>5, <2>9 DEF Apart
  <2>13. ASSUME NEW c \in L PROVE InTurn(b, c) /\ InTurn(c, b)
    <3>1. c.zero \in Nat /\ c.zero <= z
          BY <1>2, <2>3
    <3>2. InTurn(b, c)
          BY <2>1, <2>9, <3>1 DEF InTurn
    <3>3. InTurn(c, prev)
          BY <1>1, <2>6
    <3>4. InTurn(c, b)
          BY <2>6, <2>9, <3>3 DEF InTurn
    <3> QED BY <3>2, <3>4
  <2>14. b # NoBackup
    <3>1. NoBackup.time = 0
          BY DEF NoBackup
    <3> QED BY <1>1, <2>9, <3>1
  <2> QED BY <2>9, <2>10, <2>11, <2>12, <2>13, <2>14 DEF Fits, b
<1> QED BY <1>4, <1>5

-----------------------------------------------------------------------------
(* The steps.                                                              *)

\* The configuration is the same after a step.
LEMMA SameConf ==
    ASSUME conf' = conf
    PROVE  /\ Sound(Whole(1)') => Sound(Whole(1))'
           /\ Fits(job', Whole(1)') => Fits(job, Whole(1))'
           /\ \A b, c : InTurn(b, c)' <=> InTurn(b, c)
BY DEF Sound, Fits, Proper, Rooted, Apart, InTurn

\* Whatever storages are shown: the highest level that they show is one of their backups.
LEMMA HighestShown ==
    ASSUME TypeOK, Dated, NEW shown \in SUBSET Storages, NEW g \in LatestIncrements(shown, clock)
    PROVE  /\ Max(DOMAIN g) \in DOMAIN g /\ \A l \in DOMAIN g : l <= Max(DOMAIN g)
           /\ \A l \in DOMAIN g : Proper(g[l]) /\ g[l].level = l /\ g[l].time < clock
<1> DEFINE Z == ZerosUpTo(shown, clock)
           z == Max(Z)
           T == {t \in shown : z \in Zeros(t)}
           s == Min(T)
           chain == {b \in listed[s] : b.zero = z}
           levels == {b.level : b \in chain}
<1>1. clock \in Nat /\ \A t \in Storages : \A b \in listed[t] : Proper(b) /\ b.time < clock
      BY DEF TypeOK, Dated
<1>2. \A t \in Storages : \A b \in listed[t] : b.zero \in Nat /\ b.level \in Nat /\ b.time \in Nat /\ b.level < b.time
      BY <1>1 DEF Proper, Backup
<1>3. z \in Z
  <2>1. Z # {}
        BY DEF LatestIncrements
  <2>2. \A t \in shown : Zeros(t) \subseteq Nat
        BY <1>2 DEF Zeros
  <2>3. Z \in SUBSET Nat /\ \A x \in Z : x <= clock
        BY <2>2 DEF ZerosUpTo
  <2> HIDE DEF Z
  <2> QED BY <1>1, <2>1, <2>3, MaxFacts
<1>4. T # {} /\ T \in SUBSET Storages
      BY <1>3 DEF ZerosUpTo
<1>5. s \in T
  <2> HIDE DEF T
  <2> QED BY <1>4, MinFacts
<1>6. PICK f \in Increments(s, z) : g = [l \in {k \in DOMAIN f : f[k].time <= clock} |-> f[l]]
      BY <1>3 DEF LatestIncrements
<1>7. /\ f \in [levels -> chain] /\ \A l \in levels : f[l].level = l
      /\ s \in Storages /\ \E b \in listed[s] : b.zero = z
      BY <1>5, <1>6 DEF Increments, Zeros
<1> HIDE DEF z, T, s
<1>8. levels # {} /\ \A l \in levels : f[l] \in listed[s]
      BY <1>7
<1> HIDE DEF chain, levels
<1>9. \A l \in levels : Proper(f[l]) /\ f[l].level = l /\ f[l].time < clock /\ f[l].time \in Nat /\ l \in Nat /\ l <= clock
  <2> TAKE l \in levels
  <2>1. f[l] \in listed[s] /\ f[l].level = l
        BY <1>7, <1>8
  <2> QED BY <1>1, <1>2, <1>7, <2>1
<1>10. DOMAIN g = levels /\ \A l \in levels : g[l] = f[l]
  <2>1. {k \in DOMAIN f : f[k].time <= clock} = levels
        BY <1>1, <1>7, <1>9
  <2> QED BY <1>6, <2>1
<1>11. Max(levels) \in levels /\ \A l \in levels : l <= Max(levels)
  <2>1. levels \in SUBSET Nat
        BY <1>9
  <2> QED BY <1>1, <1>8, <1>9, <2>1, MaxFacts
<1> QED BY <1>9, <1>10, <1>11

\* The backup that begins is Proper, fork or not.
LEMMA BeginIsDated ==
    ASSUME TypeOK, clock > 0, Dated, NEW incremental \in Incremental, Begin(incremental)
    PROVE  job' \in Backup /\ Proper(job') /\ job'.time = clock
<1>1. clock \in Nat /\ conf.max \in Nat /\ conf.always \in Nat
      BY ConfFacts DEF TypeOK
<1>2. CASE job' = OnTopOf(NoBackup, clock)
  <2>1. job' = [zero |-> clock, level |-> 0, time |-> clock, base |-> 0]
        BY <1>2 DEF OnTopOf
  <2>2. job' \in Backup /\ job'.zero = clock /\ job'.level = 0 /\ job'.time = clock /\ job'.base = 0
        BY <1>1, <2>1 DEF Backup
  <2> QED BY <1>1, <2>2 DEF Proper
<1>3. ASSUME NEW shown \in SUBSET Storages, NEW g \in LatestIncrements(shown, clock),
             ~Restarts(g, clock), BuiltOn(g) \in DOMAIN g,
             job' = OnTopOf(g[BuiltOn(g)], clock)
      PROVE  job' \in Backup /\ Proper(job') /\ job'.time = clock
  <2> DEFINE n == BuiltOn(g)
             h == Max(DOMAIN g)
             prev == g[n]
  <2>1. h \in DOMAIN g /\ Proper(g[h]) /\ g[h].level = h /\ Proper(prev) /\ prev.level = n /\ prev.time < clock /\ n <= h
        BY <1>3, HighestShown
  <2>2. /\ ~(conf.max > 0 /\ conf.max <= h) /\ ~(conf.always > 0 /\ h > conf.always)
        /\ n = IF conf.always > 0 /\ h = conf.always THEN h - 1 ELSE h
        BY <1>3 DEF Restarts, BuiltOn
  <2> HIDE DEF n, h, prev
  <2>3. h \in Nat /\ n \in Nat /\ prev \in Backup
        BY <2>1 DEF Proper, Backup
  <2>4. /\ conf.max > 0 => n + 1 <= conf.max
        /\ conf.always > 0 => n + 1 <= conf.always
        BY <1>1, <2>1, <2>2, <2>3
  <2>5. /\ prev.zero \in Nat /\ prev.time \in Nat /\ n < prev.time
        /\ prev.zero <= prev.time /\ prev.zero > 0 /\ prev # NoBackup
        BY <2>1, <2>3 DEF Proper, Backup, NoBackup
  <2>6. job' = [zero |-> prev.zero, level |-> n + 1, time |-> clock, base |-> prev.time]
        BY <1>3, <2>1, <2>5 DEF OnTopOf, n, prev
  <2>7. /\ job' \in Backup /\ job'.zero = prev.zero /\ job'.level = n + 1
        /\ job'.time = clock /\ job'.base = prev.time
        BY <1>1, <2>3, <2>5, <2>6 DEF Backup
  <2>8. n + 1 < clock /\ prev.zero <= clock /\ prev.zero # clock /\ n + 1 # 0
        BY <1>1, <2>1, <2>3, <2>5
  <2> QED BY <2>4, <2>5, <2>7, <2>8 DEF Proper
<1>4. PICK shown \in Shown :
          LET found == LatestIncrements(shown, clock)
          IN  IF ~incremental \/ found = {}
              THEN job' = OnTopOf(NoBackup, clock)
              ELSE \E f \in {f \in found : Restarts(f, clock) \/ BuiltOn(f) \in DOMAIN f} :
                       job' = OnTopOf(Previous(f, clock), clock)
      BY DEF Begin
<1>5. shown \in SUBSET Storages
      BY DEF Shown
<1>6. CASE job' # OnTopOf(NoBackup, clock)
  <2>1. PICK f \in LatestIncrements(shown, clock) :
            /\ Restarts(f, clock) \/ BuiltOn(f) \in DOMAIN f
            /\ job' = OnTopOf(Previous(f, clock), clock)
        BY <1>4, <1>6
  <2>2. ~Restarts(f, clock) /\ Previous(f, clock) = f[BuiltOn(f)]
        BY <1>6, <2>1 DEF Previous
  <2> QED BY <1>3, <1>5, <2>1, <2>2
<1> QED BY <1>2, <1>6

\* A step that takes a chain, or a part of it, from a storage.
Takes(s, z, left) ==
    /\ <<s, z>> \in doomed /\ left \subseteq {b \in listed[s] : b.zero = z}
    /\ Remains(s, z, left)
    /\ doomed' \subseteq doomed /\ UNCHANGED <<conf, clock, job, putting>>

LEMMA RemovalTakes ==
    ASSUME TypeOK, NEW d \in doomed, RemoveChain(d[1], d[2]) \/ RemovalFails(d[1], d[2])
    PROVE  \E s \in Storages, z \in Nat : \E left : Takes(s, z, left)
<1>1. d[1] \in Storages /\ d[2] \in Nat /\ d = <<d[1], d[2]>>
      BY DEF TypeOK
<1>2. CASE RemoveChain(d[1], d[2])
  <2>1. Takes(d[1], d[2], {})
        BY <1>1, <1>2 DEF RemoveChain, Takes
  <2> QED BY <1>1, <2>1
<1>3. CASE RemovalFails(d[1], d[2])
  <2>1. PICK left \in SUBSET {b \in listed[d[1]] : b.zero = d[2]} : Remains(d[1], d[2], left)
        BY <1>3 DEF RemovalFails
  <2>2. Takes(d[1], d[2], left)
        BY <1>1, <1>3, <2>1 DEF RemovalFails, Takes
  <2> QED BY <1>1, <2>2
<1> QED BY <1>2, <1>3

LEMMA TakenFacts ==
    ASSUME TypeOK, NEW s \in Storages, NEW z \in Nat, NEW left, Takes(s, z, left)
    PROVE  /\ listed' \in [Storages -> SUBSET Backup]
           /\ \A u \in Storages : listed'[u] \subseteq listed[u]
           /\ torn' \subseteq torn \cup {z}
           /\ \/ \A u \in Storages : Whole(u)' = {b \in Whole(u) : b.zero # z}
              \/ \A u \in Storages : Whole(u)' = Whole(u)
<1> DEFINE chain == {b \in listed[s] : b.zero = z}
           old == IF left = chain THEN torn ELSE torn \cup {z}
<1>1. /\ listed' = [listed EXCEPT ![s] = (listed[s] \ chain) \cup left]
      /\ torn' = {t \in old : \E u \in Storages : \E b \in listed'[u] : b.zero = t}
      /\ left \subseteq chain
      BY DEF Takes, Remains
<1>2. listed \in [Storages -> SUBSET Backup]
      BY DEF TypeOK
<1>3. /\ listed'[s] = (listed[s] \ chain) \cup left
      /\ \A u \in Storages \ {s} : listed'[u] = listed[u]
      BY <1>1, <1>2
<1>4. listed' \in [Storages -> SUBSET Backup]
      BY <1>1, <1>2
<1>5. \A u \in Storages : \A b \in listed'[u] : b.zero \in torn' <=> b.zero \in old
      BY <1>1
<1>6. CASE left = chain
  <2>1. \A u \in Storages : listed'[u] = listed[u]
        BY <1>3, <1>6
  <2>2. \A u \in Storages : Whole(u)' = Whole(u)
        BY <1>5, <1>6, <2>1 DEF Whole
  <2> QED BY <1>1, <1>4, <2>1, <2>2
<1>7. CASE left # chain
  <2>1. \A u \in Storages : \A b : b.zero # z => (b \in listed'[u] <=> b \in listed[u])
        BY <1>1, <1>3
  <2>2. \A u \in Storages : Whole(u)' = {b \in listed'[u] : b.zero \notin torn /\ b.zero # z}
        BY <1>5, <1>7 DEF Whole
  <2>3. \A u \in Storages : Whole(u)' = {b \in Whole(u) : b.zero # z}
    <3> TAKE u \in Storages
    <3>1. {b \in listed'[u] : b.zero \notin torn /\ b.zero # z} = {b \in Whole(u) : b.zero # z}
          BY <2>1 DEF Whole
    <3> QED BY <2>2, <3>1
  <2> QED BY <1>1, <1>3, <1>4, <2>3
<1> QED BY <1>6, <1>7

\* The part of the invariant that holds whether chains fork or not.
LEMMA DatedStep ==
    ASSUME Base, [Next]_vars
    PROVE  Base' /\ conf' = conf
<1> USE DEF Base
<1>1. clock \in Nat /\ 1 \in Storages /\ NoBackup \in Backup /\ DOMAIN listed = Storages
      BY ChainAssumption DEF Storages, TypeOK, NoBackup, Backup
<1>2. \A b : Proper(b) => b.time \in Nat /\ b # NoBackup
      BY DEF Proper, Backup, NoBackup
<1>4. CASE Tick
      BY <1>1, <1>2, <1>4 DEF Tick, TypeOK, Dated, Proper
<1>5. ASSUME NEW incremental \in Incremental, Begin(incremental)
      PROVE  Base' /\ conf' = conf
  <2>1. /\ clock' = clock + 1 /\ UNCHANGED <<conf, listed, putting, doomed, torn>> /\ job = NoBackup /\ doomed = {}
        /\ job' \in Backup /\ Proper(job') /\ job'.time = clock
        BY <1>5, BeginIsDated DEF Begin
  <2>2. TypeOK'
        BY <1>1, <2>1 DEF TypeOK
  <2> QED BY <1>1, <1>2, <2>1, <2>2 DEF Dated, Proper
<1>6. CASE PutMetadata
  <2>1. /\ job # NoBackup /\ listed' = [listed EXCEPT ![putting] = @ \cup {job}]
        /\ UNCHANGED <<conf, clock, doomed, torn>>
        /\ IF putting = Last THEN job' = NoBackup /\ putting' = 1 ELSE putting' = putting + 1 /\ job' = job
        BY <1>6 DEF PutMetadata
  <2>2. putting' \in Storages /\ putting \in Storages
        BY <1>1, <2>1, ChainAssumption DEF TypeOK, Storages
  <2>3. \A s \in Storages : listed'[s] \subseteq listed[s] \cup {job}
        BY <1>1, <2>1, <2>2
  <2>4. listed' \in [Storages -> SUBSET Backup]
        BY <2>1 DEF TypeOK
  <2>5. TypeOK'
        BY <1>1, <2>1, <2>2, <2>4 DEF TypeOK
  <2> QED BY <1>1, <2>1, <2>3, <2>5 DEF Dated, Proper
<1>7. CASE BackupFails
      BY <1>1, <1>7 DEF BackupFails, TypeOK, Dated, Proper
<1>8. CASE \E date \in 1..clock : RemoveOlderThan(date)
  <2>1. PICK date \in 1..clock : RemoveOlderThan(date)
        BY <1>8
  <2>2. PICK shown \in Shown :
            doomed' = UNION {{<<s, z>> : z \in {z \in Zeros(s) : z <= date}} : s \in shown}
        BY <2>1 DEF RemoveOlderThan
  <2>3. \A s \in Storages : Zeros(s) \subseteq Nat
        BY DEF TypeOK, Zeros, Backup
  <2>4. shown \subseteq Storages
        BY DEF Shown
  <2>5. doomed' \subseteq Storages \X Nat
        BY <2>2, <2>3, <2>4
  <2>6. job = NoBackup /\ UNCHANGED <<conf, clock, listed, job, putting, torn>>
        BY <2>1 DEF RemoveOlderThan
  <2>7. TypeOK'
        BY <2>5, <2>6 DEF TypeOK
  <2> QED BY <2>6, <2>7 DEF Dated, Proper
<1>9. ASSUME NEW d \in doomed, RemoveChain(d[1], d[2]) \/ RemovalFails(d[1], d[2])
      PROVE  Base' /\ conf' = conf
  <2>1. PICK s \in Storages, z \in Nat : \E left : Takes(s, z, left)
        BY <1>9, RemovalTakes
  <2>2. PICK left : Takes(s, z, left)
        BY <2>1
  <2>3. /\ listed' \in [Storages -> SUBSET Backup] /\ torn' \subseteq torn \cup {z}
        /\ \A u \in Storages : listed'[u] \subseteq listed[u]
        /\ doomed' \subseteq doomed /\ UNCHANGED <<conf, clock, job, putting>>
        BY <2>2, TakenFacts DEF Takes
  <2>4. TypeOK'
        BY <2>3 DEF TypeOK
  <2> QED BY <2>3, <2>4 DEF Dated, Proper
<1>10. CASE UNCHANGED vars
      BY <1>10 DEF vars, TypeOK, Dated, Proper
<1> QED BY <1>4, <1>5, <1>6, <1>7, <1>8, <1>9, <1>10 DEF Next

\* A removal that no fault cuts short comes to all of each chain.
LEMMA ComingStep ==
    ASSUME Base, Coming, [Next]_vars
    PROVE  Coming'
<1> SUFFICES ASSUME {"list", "remove"} \cap conf'.faults = {}
             PROVE  /\ \A z \in torn' : \E s \in Storages : z \in Zeros(s)'
                    /\ \A s, u \in Storages : \A z \in Zeros(u)' :
                           z \in torn' \/ <<s, z>> \in doomed' => <<u, z>> \in doomed'
    BY DEF Coming
<1>1. conf' = conf /\ "list" \notin conf.faults /\ "remove" \notin conf.faults
      BY DatedStep
<1>2. /\ \A z \in torn : \E s \in Storages : z \in Zeros(s)
      /\ \A s, u \in Storages : \A z \in Zeros(u) :
             z \in torn \/ <<s, z>> \in doomed => <<u, z>> \in doomed
      BY <1>1 DEF Coming
<1>3. doomed = {} => torn = {}
      BY <1>2
<1>4. CASE Tick \/ UNCHANGED vars \/ BackupFails
  <2>1. UNCHANGED <<listed, doomed, torn>>
        BY <1>4 DEF Tick, vars, BackupFails
  <2> QED BY <1>2, <2>1 DEF Zeros
<1>5. CASE (\E incremental \in Incremental : Begin(incremental)) \/ PutMetadata
  <2>1. doomed = {} /\ UNCHANGED <<doomed, torn>>
        BY <1>5 DEF Begin, PutMetadata, Base, Dated
  <2> QED BY <1>3, <2>1
<1>6. CASE \E date \in 1..clock : RemoveOlderThan(date)
  <2>1. PICK date \in 1..clock : RemoveOlderThan(date)
        BY <1>6
  <2>2. doomed = {} /\ UNCHANGED <<listed, torn>>
        BY <2>1 DEF RemoveOlderThan
  <2>3. doomed' = UNION {{<<s, z>> : z \in {z \in Zeros(s) : z <= date}} : s \in Storages}
        BY <1>1, <2>1 DEF RemoveOlderThan, Shown
  <2>4. ASSUME NEW s \in Storages, NEW u \in Storages, NEW z \in Zeros(u), <<s, z>> \in doomed'
        PROVE  <<u, z>> \in doomed'
    <3>1. z <= date
          BY <2>3, <2>4
    <3> QED BY <2>3, <3>1
  <2> QED BY <1>3, <2>2, <2>4 DEF Zeros
<1>7. ASSUME NEW d \in doomed, RemoveChain(d[1], d[2]) \/ RemovalFails(d[1], d[2])
      PROVE  /\ \A z \in torn' : \E s \in Storages : z \in Zeros(s)'
             /\ \A s, u \in Storages : \A z \in Zeros(u)' :
                    z \in torn' \/ <<s, z>> \in doomed' => <<u, z>> \in doomed'
  <2> DEFINE s0 == d[1]
             z0 == d[2]
             chain == {b \in listed[s0] : b.zero = z0}
  <2>1. s0 \in Storages /\ d = <<s0, z0>> /\ listed \in [Storages -> SUBSET Backup]
        BY DEF Base, TypeOK
  <2>2. RemoveChain(s0, z0)
        BY <1>1, <1>7 DEF RemovalFails
  <2> HIDE DEF s0, z0
  <2>3. /\ listed' = [listed EXCEPT ![s0] = (listed[s0] \ chain) \cup {}]
        /\ torn' = {t \in IF {} = chain THEN torn ELSE torn \cup {z0} :
                       \E u \in Storages : \E b \in listed'[u] : b.zero = t}
        /\ doomed' = doomed \ {<<s0, z0>>}
        BY <2>2 DEF RemoveChain, Remains
  <2>4. /\ listed'[s0] = listed[s0] \ chain
        /\ \A u \in Storages : listed'[u] \subseteq listed[u]
        BY <2>1, <2>3
  <2>5. z0 \notin Zeros(s0)' /\ \A u \in Storages : Zeros(u)' \subseteq Zeros(u)
        BY <2>4 DEF Zeros
  <2>6. torn' \subseteq torn \cup {z0} /\ \A z \in torn' : \E u \in Storages : z \in Zeros(u)'
        BY <2>3 DEF Zeros
  <2>7. ASSUME NEW s \in Storages, NEW u \in Storages, NEW z \in Zeros(u)',
               z \in torn' \/ <<s, z>> \in doomed'
        PROVE  <<u, z>> \in doomed'
    <3>1. z \in torn \/ <<s, z>> \in doomed \/ <<s0, z>> \in doomed
          BY <2>1, <2>3, <2>6, <2>7
    <3>2. <<u, z>> \in doomed
          BY <1>2, <2>1, <2>5, <3>1
    <3>3. <<u, z>> # <<s0, z0>>
          BY <2>5
    <3> QED BY <2>3, <3>2, <3>3
  <2> QED BY <2>6, <2>7
<1> QED BY <1>4, <1>5, <1>6, <1>7 DEF Next

LEMMA BeginStep ==
    ASSUME Base, Chains, Base', NEW incremental \in Incremental, Begin(incremental)
    PROVE  Chains'
<1>1. /\ job = NoBackup /\ clock' = clock + 1 /\ clock \in Nat /\ clock > 0 /\ putting = 1
      /\ conf' = conf /\ UNCHANGED <<listed, putting, doomed, torn>> /\ 1 \in Storages
      BY ChainAssumption DEF Begin, Base, TypeOK, Dated, Storages
<1>2. \A s \in Storages : Whole(s)' = Whole(s)
      BY <1>1 DEF Whole
<1>3. /\ \A s \in Storages : \A b \in listed[s] : b.time \in Nat /\ b.time < clock /\ b.zero \in Nat
      /\ Whole(1) \subseteq listed[1]
      BY DEF Base, Dated, Proper, Backup, Whole
<1>4. PICK shown \in Shown :
          LET found == LatestIncrements(shown, clock)
          IN  IF ~incremental \/ found = {}
              THEN job' = OnTopOf(NoBackup, clock)
              ELSE \E f \in {f \in found : Restarts(f, clock) \/ BuiltOn(f) \in DOMAIN f} :
                       job' = OnTopOf(Previous(f, clock), clock)
      BY DEF Begin
<1>5. shown \in SUBSET Storages /\ Sees(shown)
  <2>1. CASE "list" \in conf.faults
    <3>1. "put" \notin conf.faults
          BY <2>1 DEF Chains, Forks
    <3> QED BY <1>1, <2>1, <3>1 DEF Chains, Mirrors, Sees, Shown
  <2>2. CASE "list" \notin conf.faults
        BY <1>1, <2>2 DEF Shown, Sees
  <2> QED BY <2>1, <2>2
<1>6. job' # NoBackup /\ job'.time = clock
      BY <1>1, BeginIsDated DEF Base, Proper, Backup, NoBackup
<1>7. /\ job'.zero \notin torn => Fits(job', Whole(1))
      /\ \A c \in Whole(1) : InTurn(job', c)
      /\ job'.zero \notin torn => \A s \in Storages : \A b \in listed[s] : InTurn(b, job')
  <2>1. CASE job' = OnTopOf(NoBackup, clock)
    <3>1. Fits(job', Whole(1))
          BY <2>1, NextFits
    <3>2. job'.zero = clock
          BY <2>1 DEF OnTopOf
    <3> QED BY <1>1, <1>3, <3>1, <3>2 DEF InTurn, Fits
  <2>2. ASSUME NEW f \in LatestIncrements(shown, clock), Restarts(f, clock) \/ BuiltOn(f) \in DOMAIN f,
               job' = OnTopOf(Previous(f, clock), clock), job' # OnTopOf(NoBackup, clock)
        PROVE  /\ job'.zero \notin torn => Fits(job', Whole(1))
               /\ \A c \in Whole(1) : InTurn(job', c)
               /\ job'.zero \notin torn => \A s \in Storages : \A b \in listed[s] : InTurn(b, job')
    <3> DEFINE z == Max(ZerosUpTo(shown, clock))
               prev == f[BuiltOn(f)]
    <3>1. ~Restarts(f, clock) /\ Previous(f, clock) = prev /\ prev # NoBackup /\ BuiltOn(f) \in DOMAIN f
          BY <2>2 DEF Previous
    <3>2. /\ z \in Nat /\ \A l \in DOMAIN f : f[l].zero = z
          /\ \A b \in Whole(1) : b.zero <= clock => b.zero <= z
          BY <1>1, <1>5, LatestZero
    <3>3. job'.zero = z
          BY <2>2, <3>1, <3>2 DEF OnTopOf
    <3>4. \A c \in Whole(1) : c.zero \in Nat /\ c.zero <= z
      <4>1. \A c \in Whole(1) : c.zero \in Nat /\ c.zero <= clock
            BY <1>1, <1>3 DEF Base, Dated, Proper
      <4> QED BY <3>2, <4>1
    <3>5. \A c \in Whole(1) : InTurn(job', c)
          BY <3>2, <3>3, <3>4 DEF InTurn
    <3>6. ASSUME z \notin torn
          PROVE  Fits(job', Whole(1)) /\ \A s \in Storages : \A b \in listed[s] : InTurn(b, job')
      <4>1. PICK y \in Nat, m \in Nat : Chained(f, y, m, clock)
            BY <1>1, <1>5, <3>6, Reading
      <4>2. Fits(job', Whole(1))
            BY <2>2, <4>1, NextFits
      <4>3. prev \in Whole(1) /\ prev.zero = z
            BY <3>1, <3>2, <4>1 DEF Chained
      <4> QED BY <3>3, <4>2, <4>3 DEF Chains, Older, InTurn
    <3> QED BY <3>3, <3>5, <3>6
  <2> QED BY <1>4, <2>1, <2>2
<1>8. job' \notin listed[1]
      BY <1>1, <1>3, <1>6
<1>9. Sound(Whole(1))' /\ (job'.zero \notin torn' => Fits(job, Whole(1))')
      BY <1>1, <1>2, <1>7, SameConf DEF Chains
<1>10. Mirrors'
      BY <1>1, <1>2 DEF Chains, Mirrors
<1>11. Making'
      BY <1>1, <1>2, <1>3, <1>6, <1>8, <1>9 DEF Making
<1>12. Older'
  <2>1. \A s \in Storages : \A b \in listed[s] : \A c \in Whole(1) : InTurn(b, c)
        BY DEF Chains, Older
  <2> QED BY <1>1, <1>2, <1>7, <2>1 DEF Older, InTurn
<1> QED BY <1>1, <1>9, <1>10, <1>11, <1>12 DEF Chains, Forks

LEMMA PutMetadataStep ==
    ASSUME Base, Chains, PutMetadata PROVE Chains'
<1> DEFINE L == Whole(1)
           new == IF job.zero \in torn THEN {} ELSE {job}
<1>1. /\ job # NoBackup /\ putting \in Storages /\ Last \in Nat /\ Last >= 1
      /\ 1 \in Storages /\ putting \in Nat /\ putting >= 1 /\ putting <= Last
      /\ listed' = [listed EXCEPT ![putting] = @ \cup {job}]
      /\ UNCHANGED <<conf, clock, doomed, torn>> /\ DOMAIN listed = Storages
      BY ChainAssumption DEF PutMetadata, Base, TypeOK, Storages
<1>2. /\ putting = Last => job' = NoBackup /\ putting' = 1
      /\ putting # Last => job' = job /\ putting' = putting + 1
      BY DEF PutMetadata
<1>3. /\ listed'[putting] = listed[putting] \cup {job}
      /\ \A s \in Storages \ {putting} : listed'[s] = listed[s]
      BY <1>1
<1>4. \A b \in L \ {job} : b.time < job.time
      BY <1>1 DEF Chains, Making
<1>a. \A s \in Storages : Whole(s)' = IF s = putting THEN Whole(s) \cup new ELSE Whole(s)
  <2>1. \A s \in Storages : Whole(s)' = {b \in listed'[s] : b.zero \notin torn}
        BY <1>1 DEF Whole
  <2>2. {b \in listed[putting] \cup {job} : b.zero \notin torn} = Whole(putting) \cup new
        BY DEF Whole
  <2> QED BY <1>1, <1>3, <2>1, <2>2 DEF Whole
<1>5. Whole(1)' = L \cup new /\ Sound(L \cup new)
  <2>1. CASE putting = 1
    <3>1. job.zero \notin torn => Sound(L \cup {job})
          BY <1>1, <2>1, SoundWith DEF Chains, Making
    <3>2. L \cup {} = L /\ Sound(L)
          BY DEF Chains
    <3>3. Sound(L \cup new)
      <4>1. CASE job.zero \in torn
            BY <3>2, <4>1
      <4>2. CASE job.zero \notin torn
            BY <3>1, <4>2
      <4> QED BY <4>1, <4>2
    <3>4. Whole(1)' = L \cup new
          BY <1>1, <1>a, <2>1
    <3> QED BY <3>3, <3>4
  <2>2. CASE putting # 1
    <3>1. new \subseteq L
          BY <1>1, <2>2 DEF Chains, Making, Whole
    <3>2. L \cup new = L
          BY <3>1
    <3> QED BY <1>1, <1>a, <2>2, <3>2 DEF Chains
  <2> QED BY <2>1, <2>2
<1>6. Sound(Whole(1))'
      BY <1>1, <1>5, SameConf
<1>9. \A s \in Storages : Whole(s)' \subseteq Whole(1)'
  <2> HIDE DEF new
  <2> QED BY <1>a, <1>5 DEF Chains, Mirrors
<1>10. ASSUME "put" \notin conf.faults, NEW s \in Storages
       PROVE  Whole(s)' = IF putting' > 1 /\ s >= putting' THEN Whole(1)' \ {job'} ELSE Whole(1)'
  <2>1. /\ Whole(s) = IF putting > 1 /\ s >= putting THEN L \ {job} ELSE L
        /\ s \in Nat /\ s >= 1 /\ s <= Last
        BY <1>1, <1>10 DEF Chains, Mirrors, Storages
  <2>2. putting = 1 => job \notin L
        BY <1>1 DEF Chains, Making, Whole
  <2>3. putting > 1 => new \subseteq L
        BY <1>1 DEF Chains, Making, Whole
  <2>a. new = {} => job \notin L
        BY DEF Whole
  <2> HIDE DEF new, L
  <2>b. new \subseteq {job} /\ (new = {} \/ new = {job})
        BY DEF new
  <2>4. CASE s = putting
    <3>1. Whole(s)' = L \cup new
      <4>1. CASE putting = 1
            BY <1>a, <2>1, <2>4, <4>1
      <4>2. CASE putting # 1
        <5>1. Whole(s) = L \ {job} /\ new \subseteq L
              BY <1>1, <2>1, <2>3, <2>4, <4>2
        <5>2. (L \ {job}) \cup new = L \cup new
              BY <2>a, <2>b
        <5> QED BY <1>a, <2>4, <5>1, <5>2
      <4> QED BY <4>1, <4>2
    <3>2. ~(putting' > 1 /\ s >= putting')
          BY <1>1, <1>2, <2>4
    <3> QED BY <1>5, <3>1, <3>2 DEF L
  <2>5. CASE s > putting
    <3>1. putting # Last /\ job' = job /\ putting' = putting + 1 /\ putting' > 1 /\ s >= putting'
          BY <1>1, <1>2, <2>1, <2>5
    <3>2. Whole(s)' = L \ {job}
          BY <1>1, <1>a, <2>1, <2>2, <2>5
    <3>3. (L \cup new) \ {job} = L \ {job}
          BY <2>b
    <3> QED BY <1>5, <3>1, <3>2, <3>3 DEF L
  <2>6. CASE s < putting
    <3>1. ~(putting' > 1 /\ s >= putting') /\ putting > 1
          BY <1>1, <1>2, <2>1, <2>6
    <3>2. Whole(s)' = L
          BY <1>1, <1>a, <2>1, <2>6
    <3>3. L \cup new = L
          BY <2>3, <3>1
    <3> QED BY <1>5, <3>1, <3>2, <3>3 DEF L
  <2> QED BY <1>1, <2>1, <2>4, <2>5, <2>6
<1>11. Mirrors'
      BY <1>1, <1>9, <1>10 DEF Mirrors
<1>12. Making'
  <2>2. CASE putting = Last
        BY <1>2, <2>2 DEF Making
  <2>3. CASE putting # Last
    <3>1. putting' > 1 /\ job' = job /\ putting' # 1
          BY <1>1, <1>2, <2>3
    <3>2. \A b \in Whole(1)' \ {job'} : b.time < job'.time
          BY <1>4, <1>5, <3>1
    <3>3. job \in listed'[1]
          BY <1>1, <1>3 DEF Chains, Making
    <3> QED BY <3>1, <3>2, <3>3 DEF Making
  <2> QED BY <2>2, <2>3
<1>13. Older'
  <2>1. /\ \A s \in Storages : \A b \in listed[s] :
               /\ \A c \in L : InTurn(b, c)
               /\ job.zero \notin torn => InTurn(b, job)
        /\ \A c \in L : InTurn(job, c)
        BY <1>1 DEF Chains, Older
  <2>2. InTurn(job, job)
    <3>1. job.zero \in Nat
          BY DEF Base, TypeOK, Backup
    <3> QED BY <3>1 DEF InTurn
  <2>3. \A s \in Storages : \A b \in listed'[s] : b \in listed[s] \/ b = job
        BY <1>3
  <2>4. \A s \in Storages : \A b \in listed'[s] :
               /\ \A c \in L \cup new : InTurn(b, c)
               /\ job.zero \notin torn => InTurn(b, job)
        BY <2>1, <2>2, <2>3
  <2>5. \A c \in L \cup new : InTurn(job, c)
        BY <2>1, <2>2
  <2> QED BY <1>1, <1>2, <1>5, <2>4, <2>5, SameConf DEF Older
<1> QED BY <1>1, <1>6, <1>11, <1>12, <1>13 DEF Chains, Forks

LEMMA RemovalStep ==
    ASSUME Base, Chains, NEW s \in Storages, NEW z \in Nat, NEW left, Takes(s, z, left)
    PROVE  Chains'
<1>1. /\ UNCHANGED <<conf, clock, job, putting>> /\ <<s, z>> \in doomed
      /\ \A u \in Storages : listed'[u] \subseteq listed[u]
      BY TakenFacts DEF Takes, Base
<1>2. job = NoBackup /\ putting = 1 /\ 1 \in Storages
      BY <1>1, ChainAssumption DEF Base, Dated, Storages
<1>3. \/ \A u \in Storages : Whole(u)' = {b \in Whole(u) : b.zero # z}
      \/ \A u \in Storages : Whole(u)' = Whole(u)
      BY TakenFacts DEF Base
<1>4. Sound(Whole(1)')
  <2>1. Sound(Whole(1)) /\ Sound({b \in Whole(1) : b.zero # z})
        BY SoundWithout DEF Chains
  <2>2. Whole(1)' = {b \in Whole(1) : b.zero # z} \/ Whole(1)' = Whole(1)
        BY <1>2, <1>3
  <2> QED BY <2>1, <2>2
<1>5. Sound(Whole(1))'
      BY <1>1, <1>4, SameConf
<1>6. Mirrors'
  <2>1. \A u \in Storages : Whole(u) \subseteq Whole(1) /\ ("put" \notin conf.faults => Whole(u) = Whole(1))
        BY <1>2 DEF Chains, Mirrors
  <2>2. \A u \in Storages : Whole(u)' \subseteq Whole(1)' /\ ("put" \notin conf.faults => Whole(u)' = Whole(1)')
        BY <1>2, <1>3, <2>1
  <2> QED BY <1>1, <1>2, <2>2 DEF Mirrors
<1>7. Making'
      BY <1>1, <1>2 DEF Making
<1>8. Older'
  <2>1. Whole(1)' \subseteq Whole(1)
        BY <1>2, <1>3
  <2>2. \A u \in Storages : \A b \in listed'[u] : \A c \in Whole(1)' : InTurn(b, c)
        BY <1>1, <2>1 DEF Chains, Older
  <2> QED BY <1>1, <1>2, <2>2, SameConf DEF Older
<1> QED BY <1>1, <1>5, <1>6, <1>7, <1>8 DEF Chains, Forks

LEMMA OtherSteps ==
    ASSUME Base, Chains,
           \/ Tick \/ BackupFails \/ UNCHANGED vars
           \/ \E date \in 1..clock : RemoveOlderThan(date)
    PROVE  Chains'
<1>1. /\ UNCHANGED <<conf, listed, torn>>
      /\ \/ UNCHANGED <<job, putting>>
         \/ job' = NoBackup /\ putting' = 1 /\ (putting = 1 \/ "put" \in conf.faults)
      BY DEF Tick, BackupFails, vars, RemoveOlderThan
<1>2. \A s \in Storages : Whole(s)' = Whole(s)
      BY <1>1 DEF Whole
<1>3. 1 \in Storages
      BY ChainAssumption DEF Storages
<1>4. Sound(Whole(1))' /\ (job' = job /\ Fits(job, Whole(1)) => Fits(job, Whole(1))')
      BY <1>1, <1>2, <1>3, SameConf DEF Chains
<1>5. Mirrors'
      BY <1>1, <1>2, <1>3 DEF Chains, Mirrors
<1>6. Making'
      BY <1>1, <1>2, <1>3, <1>4 DEF Chains, Making
<1>7. Older'
  <2>1. /\ \A s \in Storages : \A b \in listed'[s] :
               /\ \A c \in Whole(1)' : InTurn(b, c)
               /\ job' # NoBackup /\ job'.zero \notin torn' => InTurn(b, job')
        /\ job' # NoBackup => \A c \in Whole(1)' : InTurn(job', c)
        BY <1>1, <1>2, <1>3 DEF Chains, Older
  <2> QED BY <1>1, <2>1, SameConf DEF Older
<1> QED BY <1>1, <1>4, <1>5, <1>6, <1>7 DEF Chains, Forks

-----------------------------------------------------------------------------
\* The inductive invariant, for any number of storages, any options about levels, any faults
\* and any length of a behaviour.
THEOREM Invariance == Spec => []IInv
<1>1. IInv /\ [Next]_vars => IInv'
  <2> SUFFICES ASSUME IInv, [Next]_vars PROVE IInv'
      OBVIOUS
  <2>1. Base /\ Base' /\ conf' = conf /\ Coming'
        BY DatedStep, ComingStep DEF IInv
  <2>2. CASE Forks
        BY <2>1, <2>2 DEF IInv, Forks
  <2>3. CASE ~Forks
    <3>1. Chains
          BY <2>3 DEF IInv
    <3>2. ASSUME NEW d \in doomed, RemoveChain(d[1], d[2]) \/ RemovalFails(d[1], d[2]) PROVE Chains'
      <4>1. PICK s \in Storages, z \in Nat : \E left : Takes(s, z, left)
            BY <2>1, <3>2, RemovalTakes DEF Base
      <4> QED BY <2>1, <3>1, <4>1, RemovalStep
    <3>3. Chains'
          BY <2>1, <3>1, <3>2, BeginStep, PutMetadataStep, OtherSteps DEF Next
    <3> QED BY <2>1, <3>3 DEF IInv
  <2> QED BY <2>2, <2>3
<1> QED BY InitIInv, <1>1, PTL DEF Spec

\* What get_latest_level_zero_increments finds for a restore of any date is a full backup
\* and its increments, without a gap, each made on top of the one before, unless a removal
\* has taken a part of that chain; and only a fault leaves such a part.
THEOREM RestoreIsAlwaysChain == Spec => []RestoreIsChain
<1>1. IInv => RestoreIsChain
  <2>a. IInv /\ torn # {} => doomed # {} \/ "list" \in conf.faults \/ "remove" \in conf.faults
        BY DEF IInv, Coming
  <2> SUFFICES ASSUME Base, Chains, NEW date \in Dates, NEW g \in LatestIncrements(Storages, date), Intact(date)
               PROVE  /\ DOMAIN g = 0..Max(DOMAIN g)
                      /\ \A l \in DOMAIN g : g[l].base = IF l = 0 THEN 0 ELSE g[l - 1].time
      BY <2>a DEF RestoreIsChain, IInv
  <2>1. date \in Nat /\ 1 \in Storages /\ Sees(Storages)
        BY ChainAssumption DEF Dates, Storages, Base, TypeOK, Sees
  <2>2. PICK z \in Nat, m \in Nat : Chained(g, z, m, date)
        BY <2>1, Reading DEF Intact
  <2>3. /\ DOMAIN g = 0..m /\ m = Max(DOMAIN g)
        /\ \A l \in 0..m : g[l] \in Whole(1) /\ g[l].zero = z /\ g[l].level = l
        BY <2>2 DEF Chained
  <2>4. ASSUME NEW l \in 0..m PROVE g[l].base = IF l = 0 THEN 0 ELSE g[l - 1].time
    <3>1. g[l] \in Whole(1) /\ g[l].zero = z /\ g[l].level = l /\ Proper(g[l])
          BY <2>3 DEF Chains, Sound
    <3>2. CASE l = 0
          BY <3>1, <3>2 DEF Proper
    <3>3. CASE l # 0
      <4>1. l - 1 \in 0..m /\ l - 1 \in 0..g[l].level - 1
            BY <3>1, <3>3
      <4>2. PICK c \in Whole(1) : c.zero = z /\ c.level = l - 1 /\ c.time = g[l].base
            BY <3>1, <4>1 DEF Chains, Sound, Rooted
      <4>3. g[l - 1] \in Whole(1) /\ g[l - 1].zero = z /\ g[l - 1].level = l - 1
            BY <2>3, <4>1
      <4>4. ~(conf.always > 0 /\ l - 1 = conf.always)
            BY <3>1, ConfFacts DEF Base, Proper
      <4>5. g[l - 1] = c
            BY <4>2, <4>3, <4>4 DEF Chains, Sound, Apart
      <4> QED BY <3>3, <4>2, <4>5
    <3> QED BY <3>2, <3>3
  <2> QED BY <2>3, <2>4
<1> QED BY Invariance, <1>1, PTL

\* Without --always-level, the last of them is the newest backup up to that date that any
\* storage lists, with the same exception.
THEOREM RestoreIsAlwaysRecent == Spec => []RestoreIsRecent
<1>1. IInv => RestoreIsRecent
  <2> SUFFICES ASSUME Base, Chains, conf.always = 0, NEW date \in Dates, Intact(date),
                      NEW g \in LatestIncrements(Storages, date),
                      NEW s \in Storages, NEW b \in listed[s], b.time <= date
               PROVE  b.time <= g[Max(DOMAIN g)].time
      BY DEF RestoreIsRecent, IInv
  <2>1. date \in Nat /\ 1 \in Storages /\ Sees(Storages)
        BY ChainAssumption DEF Dates, Storages, Base, TypeOK, Sees
  <2>2. PICK z \in Nat, m \in Nat : Chained(g, z, m, date)
        BY <2>1, Reading DEF Intact
  <2> DEFINE last == g[m]
  <2>3. /\ m = Max(DOMAIN g) /\ last \in Whole(1) /\ last.zero = z /\ last.level = m
        BY <2>2 DEF Chained
  <2>4. /\ b \in Backup /\ b.zero \in Nat /\ b.time \in Nat /\ b.zero <= b.time
        /\ \A c \in Whole(1) : InTurn(b, c)
        /\ b.zero <= z => b.zero < z \/ b \in Whole(1)
    <3>1. b \in Backup /\ b.zero \in Nat /\ b.time \in Nat /\ b.zero <= b.time
          BY DEF Base, Dated, Proper, Backup
    <3>2. \A c \in Whole(1) : InTurn(b, c)
          BY DEF Chains, Older
    <3>3. z \notin torn
          BY <2>3 DEF Whole
    <3>4. b.zero = z => b \in Whole(1)
          BY <3>3 DEF Chains, Mirrors, Whole
    <3> QED BY <2>2, <3>1, <3>2, <3>4
  <2>5. \A c \in Whole(1) : /\ Proper(c) /\ c.zero \in Nat /\ c.level \in Nat /\ c.time \in Nat
                             /\ c.zero <= c.time
        BY DEF Chains, Sound, Proper, Backup
  <2>6. \A c, d \in Whole(1) : c.zero = d.zero /\ c.level = d.level => c = d
        BY DEF Chains, Sound, Apart
  <2>7. b.zero <= z
    <3>1. b.zero \in ZerosUpTo(Storages, date)
          BY <2>1, <2>4 DEF ZerosUpTo, Zeros
    <3>2. \A x \in ZerosUpTo(Storages, date) : x <= Max(ZerosUpTo(Storages, date))
          BY <2>1, LatestZero
    <3>3. Max(ZerosUpTo(Storages, date)) = z
      <4>1. m \in DOMAIN g /\ g[m].zero = z
        <5>1. DOMAIN g = 0..m /\ \A l \in 0..m : g[l].zero = z
              BY <2>2 DEF Chained
        <5> QED BY <5>1
      <4> QED BY <2>1, <4>1, LatestZero
    <3> QED BY <3>1, <3>2, <3>3
  <2>8. CASE b.zero < z
        BY <2>3, <2>4, <2>5, <2>8 DEF InTurn
  <2>9. CASE b.zero = z
    <3>a. b \in Whole(1)
          BY <2>4, <2>7, <2>9
    <3>1. b.level <= m
      <4>1. \A c \in Whole(1) : c.zero = z /\ c.level = b.level => c.time <= date
            BY <2>6, <2>9, <3>a
      <4> QED BY <2>2, <2>9, <3>a, <4>1 DEF Chained
    <3>2. CASE b.level = m
      <4>1. b = last
            BY <2>3, <2>6, <2>9, <3>2, <3>a
      <4> QED BY <2>3, <2>5, <4>1
    <3>3. CASE b.level < m
      <4>1. b.level \in 0..last.level - 1
            BY <2>3, <2>5, <3>3, <3>a
      <4>2. PICK c \in Whole(1) : c.zero = z /\ c.level = b.level /\ c.time < last.time
            BY <2>3, <4>1 DEF Chains, Sound, Rooted
      <4>3. c = b
            BY <2>6, <2>9, <3>a, <4>2
      <4> QED BY <2>3, <2>5, <3>a, <4>2, <4>3
    <3> QED BY <2>5, <3>a, <3>1, <3>2, <3>3
  <2> QED BY <2>3, <2>4, <2>5, <2>7, <2>8, <2>9
<1> QED BY Invariance, <1>1, PTL

\* previous_backup keeps every chain within --max-level and --always-level.
THEOREM LevelsAreAlwaysBounded == Spec => []LevelsAreBounded
<1>1. IInv => LevelsAreBounded
      BY DEF IInv, Base, Dated, Proper, LevelsAreBounded
<1> QED BY Invariance, <1>1, PTL
-----------------------------------------------------------------------------
(* Restore.                                                                *)

InHand == IF engine = "feeding" THEN 1 ELSE 0

\* The blocks of the level that is restored; only a tar that died loses any.
Conserved ==
    /\ applied[level] + stdin + InHand + socket <= sent[level]
    /\ tar # "other" => applied[level] + stdin + InHand + socket = sent[level]

\* The levels below were restored, those above are not begun.
OtherLevels ==
    /\ \A l \in Levels : l < level => applied[l] = sent[l] /\ (sent[l] = Blocks \/ l \in cut)
    /\ \A l \in Levels : l > level => applied[l] = 0 /\ sent[l] = 0

\* engine_stream and its tar.
EngineAndTar ==
    /\ engine \in {"none", "opening"} => tar = "none"
    /\ engine \in {"receiving", "feeding"} => tar \in {"running", "blocked", "other"}
    /\ engine = "draining" => tar # "none"
    /\ engine = "zero" => tar = "zero"
    /\ engine = "one" => tar \in {"none", "other"}
    /\ tar \in {"none", "zero"} => stdin = 0

\* A process_stream that runs has the write end of the pipe open.
ReaderWrites ==
    /\ "reader" \in writers <=> reader \notin {"none", "exited"}
    /\ reader = "sending" => sent[level] < Blocks
    /\ reader \in {"polling", "looping"} => sent[level] = Blocks

\* The read end is open while the agent or engine_stream may still read; a process_stream
\* that ended early did so without a word, left its exception, or met an engine_stream
\* that had failed.
Reasons ==
    /\ main \in {"closing", "forking", "leaving"} => "main" \in readers
    /\ engine \in {"opening", "receiving", "feeding", "draining"} => "engine" \in readers
    /\ main \in {"closing", "forking", "leaving", "joining"} /\ reader = "exited" =>
           sent[level] = Blocks \/ level \in cut \/ "read" \in excepts \/ engine = "one"

\* Nothing comes after what engine_stream has seen the end of.
Drained ==
    /\ engine = "draining" /\ tar # "other" => writers = {} /\ socket = 0
    /\ engine = "zero" /\ main \in {"leaving", "joining"} => writers = {} /\ socket = 0

\* What the agent knows of the two processes.
Phases ==
    /\ main \in {"preparing", "piping"} =>
           /\ reader \in {"none", "exited"} /\ engine \in {"none", "zero"}
           /\ engine = "zero" => reader = "exited"
           /\ socket = 0 /\ sent[level] = 0
    /\ main \in {"closing", "forking"} => reader # "none" /\ engine \in {"none", "zero"}
    /\ main \in {"leaving", "joining"} => reader # "none" /\ engine # "none"
    /\ main = "done" =>
           reader = "exited" /\ engine = "zero" /\ level = MaxLevel /\ applied[level] = sent[level] /\ (sent[level] = Blocks \/ level \in cut)
    /\ main = "failed" => reader \in {"none", "exited"} /\ engine \in {"none", "zero", "one"}
    /\ main = "failed" /\ engine # "none" => reader = "exited"

RestoreInv == RestoreTypeOK /\ Conserved /\ OtherLevels /\ EngineAndTar /\ ReaderWrites /\ Reasons /\ Drained /\ Phases

-----------------------------------------------------------------------------
LEMMA RestoreNumbers ==
    ASSUME RestoreTypeOK
    PROVE  /\ MaxLevel \in Nat /\ Blocks \in Nat /\ SocketSize \in Nat \ {0} /\ OutputSize \in Nat
           /\ level \in Levels /\ level \in Nat /\ socket \in Nat /\ stdin \in {0, 1}
           /\ \A l \in Levels : applied[l] \in 0..Blocks /\ sent[l] \in 0..Blocks
BY RestoreConstants DEF RestoreTypeOK, Levels

LEMMA InitRestoreInv == RestoreInit => RestoreInv
<1> SUFFICES ASSUME RestoreInit PROVE RestoreInv
    OBVIOUS
<1>1. 0 \in Levels /\ 0 \in 0..Blocks /\ 0 \in 0..SocketSize /\ 0 \in 0..OutputSize
      BY RestoreConstants DEF Levels
<1>2. RestoreTypeOK
      BY <1>1 DEF RestoreInit, RestoreTypeOK, Mains, Readers, Engines, Tars
<1>3. \A l \in Levels : applied[l] = 0 /\ sent[l] = 0 /\ ~(l < 0)
      BY DEF RestoreInit, Levels
<1> QED BY <1>1, <1>2, <1>3 DEF RestoreInit, RestoreInv, Conserved, InHand, OtherLevels, EngineAndTar, ReaderWrites, Reasons,
                                Drained, Phases

\* The agent.
LEMMA RestoreAgentStep ==
    ASSUME RestoreInv, Agent \/ PrepareFails \/ Killed
    PROVE  RestoreInv'
<1> USE RestoreNumbers
<1> USE DEF RestoreInv, RestoreTypeOK, Conserved, InHand, OtherLevels, EngineAndTar, ReaderWrites, Reasons, Drained, Phases,
            Mains, Readers, Engines, Tars, Processes, mainVars, pipeVars, readerVars, tarVars
<1>1. CASE Prepare
      BY <1>1 DEF Prepare
<1>2. CASE PrepareFails
      BY <1>2 DEF PrepareFails
<1>3. CASE ForkReader
      BY <1>3 DEF ForkReader
<1>4. CASE CloseWritePipe
      BY <1>4 DEF CloseWritePipe
<1>5. CASE ForkEngine
      BY <1>5 DEF ForkEngine
<1>6. CASE LeavePipe
      BY <1>6 DEF LeavePipe
<1>7. CASE NextLevel
  <2> USE <1>7 DEF NextLevel, Joined, EngineEnded, Trouble
  <2>1. CASE Trouble
        BY <2>1
  <2>2. CASE ~Trouble /\ level = MaxLevel
        BY <2>2
  <2>3. CASE ~Trouble /\ level # MaxLevel
    <3>1. /\ engine = "zero" /\ reader = "exited" /\ tar = "zero" /\ stdin = 0 /\ socket = 0
          /\ applied[level] = sent[level] /\ (sent[level] = Blocks \/ level \in cut)
          BY <2>3
    <3>2. level' = level + 1 /\ level' \in Levels
          BY <2>3 DEF Levels
    <3>3. \A l \in Levels : (l < level' => l < level \/ l = level) /\ (l >= level' => l > level)
          BY <3>2 DEF Levels
    <3>4. applied[level'] = 0 /\ sent[level'] = 0
          BY <3>2, <3>3
    <3>5. /\ main' = "piping" /\ UNCHANGED <<pipeVars, readerVars, engine, tarVars, excepts>>
          BY <2>3
    <3> HIDE <1>7 DEF NextLevel
    <3>6. OtherLevels'
          BY <3>1, <3>2, <3>3, <3>5
    <3> QED BY <3>1, <3>2, <3>4, <3>5, <3>6
  <2> QED BY <2>1, <2>2, <2>3
<1>8. CASE Killed
      BY <1>8 DEF Killed, MainEnded
<1> QED BY <1>1, <1>2, <1>3, <1>4, <1>5, <1>6, <1>7, <1>8 DEF Agent

\* process_stream.
LEMMA ReaderStep ==
    ASSUME RestoreInv, ReadBlocks
    PROVE  RestoreInv'
<1> USE RestoreNumbers
<1> USE DEF RestoreInv, RestoreTypeOK, Conserved, InHand, OtherLevels, EngineAndTar, ReaderWrites, Reasons, Drained, Phases,
            Readers, Processes, mainVars, pipeVars, readerVars, tarVars, ReaderExits
<1>1. CASE CloseReadPipe
      BY <1>1 DEF CloseReadPipe
<1>2. CASE Fetch
      BY <1>2 DEF Fetch
<1>8. CASE FetchFromFtp
      BY <1>8 DEF FetchFromFtp
<1>3. CASE FetchIOError
      BY <1>3 DEF FetchIOError
<1>4. CASE FetchFails
      BY <1>4 DEF FetchFails
<1>5. CASE Send
      BY <1>5 DEF Send
<1>6. CASE SendBrokenPipe
  <2>1. ReaderWrites' /\ Reasons'
    <3>1. ~(engine = "zero" /\ main = "joining")
          BY <1>6 DEF SendBrokenPipe
    <3>2. main = "joining" => engine = "one"
          BY <1>6, <3>1 DEF SendBrokenPipe, Engines
    <3> QED BY <1>6, <3>2 DEF SendBrokenPipe
  <2> QED BY <1>6, <2>1 DEF SendBrokenPipe
<1>7. CASE PollAndClose
      BY <1>7 DEF PollAndClose
<1> QED BY <1>1, <1>2, <1>3, <1>4, <1>5, <1>6, <1>7, <1>8 DEF ReadBlocks

\* engine_stream.
LEMMA EngineStep ==
    ASSUME RestoreInv, RestoreLevel
    PROVE  RestoreInv'
<1> USE RestoreNumbers
<1> USE DEF RestoreInv, RestoreTypeOK, Conserved, InHand, OtherLevels, EngineAndTar, ReaderWrites, Reasons, Drained, Phases,
            Engines, Tars, Processes, mainVars, pipeVars, readerVars, tarVars, EngineExits
<1>1. CASE Open
      BY <1>1 DEF Open
<1>2. CASE OpenFails
      BY <1>2 DEF OpenFails
<1>3. CASE Receive
      BY <1>3 DEF Receive
<1>4. CASE Feed
      BY <1>4 DEF Feed, TarEnded
<1>5. CASE CheckOutput
  <2>1. CASE tar = "zero"
        BY <1>5, <2>1 DEF CheckOutput, TarEnded, ExitCode
  <2>2. CASE tar = "other"
        BY <1>5, <2>2 DEF CheckOutput, TarEnded, ExitCode
  <2> QED BY <1>5, <2>1, <2>2 DEF CheckOutput, TarEnded
<1> QED BY <1>1, <1>2, <1>3, <1>4, <1>5 DEF RestoreLevel

LEMMA TarStep ==
    ASSUME RestoreInv, Tar \/ TarComplains \/ TarDies
    PROVE  RestoreInv'
<1> USE RestoreNumbers
<1> USE DEF RestoreInv, RestoreTypeOK, Conserved, InHand, OtherLevels, EngineAndTar, ReaderWrites, Reasons, Drained, Phases,
            Tars, mainVars, pipeVars, readerVars, tarVars
<1>1. CASE TarExtracts
      BY <1>1 DEF TarExtracts
<1>2. CASE TarComplains
      BY <1>2 DEF TarComplains
<1>3. CASE TarIsHeard
      BY <1>3 DEF TarIsHeard
<1>4. CASE TarEnds
      BY <1>4 DEF TarEnds
<1>5. CASE TarDies
      BY <1>5 DEF TarDies
<1> QED BY <1>1, <1>2, <1>3, <1>4, <1>5 DEF Tar

\* In every state the blocks of the level are where Conserved says, and the processes where the
\* agent takes them to be.
THEOREM RestoreInvariance == RestoreSpec => []RestoreInv
<1>1. RestoreInv /\ UNCHANGED restoreVars => RestoreInv'
      BY DEF RestoreInv, RestoreTypeOK, Conserved, InHand, OtherLevels, EngineAndTar, ReaderWrites, Reasons, Drained,
             Phases, restoreVars, mainVars, pipeVars, readerVars, tarVars
<1>2. RestoreInv /\ [RestoreNext]_restoreVars => RestoreInv'
      BY <1>1, RestoreAgentStep, ReaderStep, EngineStep, TarStep DEF RestoreNext
<1> QED BY InitRestoreInv, <1>2, PTL DEF RestoreSpec

\* When restore() returns normally every block that was sent was extracted, and every block
\* of a level was sent unless its reading was cut without a word; when it returns at all no
\* process of the level at hand still runs, whatever failed on the way.
THEOREM RestoreIsWholeAlways == RestoreSpec => []RestoreIsWhole
<1>1. RestoreInv => RestoreIsWhole
  <2> SUFFICES ASSUME RestoreInv PROVE RestoreIsWhole
      OBVIOUS
  <2>1. NothingIsLost
    <3> SUFFICES ASSUME main = "done", NEW l \in Levels PROVE applied[l] = sent[l] /\ (sent[l] = Blocks \/ l \in cut)
        BY DEF NothingIsLost
    <3>1. level = MaxLevel /\ applied[level] = sent[level] /\ (sent[level] = Blocks \/ level \in cut)
          BY DEF RestoreInv, Phases
    <3>2. l < level \/ l = level
          BY <3>1, RestoreConstants DEF Levels
    <3> QED BY <3>1, <3>2 DEF RestoreInv, OtherLevels
  <2>2. NoneIsLeft
        BY DEF RestoreInv, Phases, EngineAndTar, NoneIsLeft, EngineEnded
  <2> QED BY <2>1, <2>2 DEF RestoreInv, RestoreIsWhole
<1> QED BY RestoreInvariance, <1>1, PTL

\* The next level is begun only when both processes have ended, and tar well, with every
\* block extracted: no fault leaves a gap in the chain.
THEOREM LevelsInTurnAlways == RestoreSpec => LevelsInTurn
<1> DEFINE Turn == level' # level => Joined /\ tar = "zero" /\ applied[level] = sent[level]
<1>1. RestoreInv /\ [RestoreNext]_restoreVars => [Turn]_restoreVars
  <2> SUFFICES ASSUME RestoreInv, RestoreNext, level' # level PROVE Turn
      BY DEF restoreVars, mainVars
  <2>1. NextLevel /\ ~Trouble
        BY DEF RestoreNext, Agent, Prepare, ForkReader, CloseWritePipe, ForkEngine, LeavePipe, NextLevel,
               PrepareFails, Killed, ReadBlocks, CloseReadPipe, Fetch, FetchFromFtp, FetchIOError, FetchFails,
               Send, SendBrokenPipe, PollAndClose, RestoreLevel, Open, OpenFails, Receive, Feed,
               CheckOutput, Tar, TarExtracts, TarIsHeard, TarEnds, TarComplains, TarDies, mainVars
  <2>2. Joined /\ engine = "zero" /\ tar = "zero" /\ main = "joining"
        BY <2>1 DEF NextLevel, Joined, EngineEnded, Trouble, RestoreInv, EngineAndTar
  <2>3. applied[level] = sent[level]
        BY <2>2, RestoreNumbers DEF RestoreInv, Conserved, InHand, EngineAndTar, Drained
  <2> QED BY <2>2, <2>3
<1> QED BY RestoreInvariance, <1>1, PTL DEF RestoreSpec, LevelsInTurn
=============================================================================
