-------------------------- MODULE EngineRulesProofs --------------------------
(***************************************************************************)
(* The page, the worker and the kernel count the same ships, ships come    *)
(* from production alone and the outcome fits the last board, for every    *)
(* map, every number of ships and every length of a match.                 *)
(*                                                                         *)
(* Sums of ships are cardinalities, so what is needed of them follows from *)
(* the facts about finite sets.                                            *)
(***************************************************************************)
EXTENDS EngineRules, FiniteSetTheorems, SequenceTheorems, WellFoundedInduction, TLAPS

-----------------------------------------------------------------------------
(* Induction over sets of numbers and over finite sets.                     *)

LEMMA EveryNumber ==
  ASSUME NEW G, 0 \in G, \A n \in Nat : n \in G => n + 1 \in G
  PROVE  \A n \in Nat : n \in G
<1> DEFINE T == Nat \ G
<1> SUFFICES ASSUME T # {} PROVE FALSE
  OBVIOUS
<1>1. PICK x \in T : \A y \in T : <<y, x>> \notin OpToRel(<, Nat)
  BY WFMin, NatLessThanWellFounded, Zenon
<1>2. \A y \in T : ~ (y < x)
  BY <1>1, Zenon DEF OpToRel
<1>3. x \in Nat /\ x # 0
  OBVIOUS
<1>4. x - 1 \in Nat /\ x - 1 < x /\ (x - 1) + 1 = x
  BY <1>3
<1>5. x - 1 \in G
  BY <1>2, <1>4
<1> QED
  BY <1>4, <1>5

LEMMA EverySet ==
  ASSUME NEW D, IsFiniteSet(D), NEW G, {} \in G,
         \A S \in SUBSET D : \A x \in D \ S : S \in G => S \cup {x} \in G
  PROVE  D \in G
<1> DEFINE H == {n \in Nat : \A S \in SUBSET D : Cardinality(S) = n => S \in G}
<1>1. \A S \in SUBSET D : IsFiniteSet(S) /\ Cardinality(S) \in Nat
  BY FS_Subset, FS_CardinalityType
<1>2. 0 \in H
  BY <1>1, FS_EmptySet
<1>3. ASSUME NEW n \in Nat, n \in H PROVE n + 1 \in H
  <2> SUFFICES ASSUME NEW S \in SUBSET D, Cardinality(S) = n + 1 PROVE S \in G
    OBVIOUS
  <2>1. S # {}
    BY FS_EmptySet
  <2>2. PICK x \in S : TRUE
    BY <2>1
  <2>3. S \ {x} \in SUBSET D /\ x \in D \ (S \ {x}) /\ (S \ {x}) \cup {x} = S
    OBVIOUS
  <2>4. Cardinality(S \ {x}) = n
    <3>1. IsFiniteSet(S)
      BY <1>1
    <3>2. Cardinality(S \ {x}) = Cardinality(S) - 1
      BY <3>1, FS_RemoveElement
    <3> QED
      BY <3>2
  <2>5. S \ {x} \in G
    BY <1>3, <2>3, <2>4
  <2> QED
    BY <2>3, <2>5
<1>4. \A n \in Nat : n \in H
  <2> HIDE DEF H
  <2> QED
    BY <1>2, <1>3, EveryNumber
<1> QED
  BY <1>1, <1>4

-----------------------------------------------------------------------------
(* Sums of ships.                                                           *)

Counted(S) == UNION {{s} \X (1 .. s.ships) : s \in S}

LEMMA SumIsCount == ASSUME NEW S PROVE SumShips(S) = Cardinality(Counted(S))
BY DEF SumShips, Counted

LEMMA CountedIsFinite ==
  ASSUME NEW S, IsFiniteSet(S), \A s \in S : s.ships \in Nat
  PROVE  IsFiniteSet(Counted(S))
<1> DEFINE Piece(s) == {s} \X (1 .. s.ships)
           f == [s \in S |-> Piece(s)]
           T == {Piece(s) : s \in S}
<1>1. f \in Surjection(S, T)
  BY DEF Surjection
<1>2. IsFiniteSet(T)
  BY <1>1, FS_Surjection
<1>3. \A s \in S : IsFiniteSet(Piece(s))
  <2> TAKE s \in S
  <2>1. IsFiniteSet({s})
    BY FS_Singleton
  <2>2. s.ships \in Int
    OBVIOUS
  <2>3. IsFiniteSet(1 .. s.ships)
    BY <2>2, FS_Interval
  <2> QED
    BY <2>1, <2>3, FS_Product
<1>4. \A P \in T : IsFiniteSet(P)
  BY <1>3
<1>5. IsFiniteSet(UNION T)
  BY <1>2, <1>4, FS_UNION
<1> QED
  BY <1>5 DEF Counted

LEMMA SumIsNumber ==
  ASSUME NEW S, IsFiniteSet(S), \A s \in S : s.ships \in Nat
  PROVE  SumShips(S) \in Nat
BY CountedIsFinite, FS_CardinalityType, SumIsCount

LEMMA SumOfNone == SumShips({}) = 0
BY FS_EmptySet DEF SumShips

LEMMA SumOfOne ==
  ASSUME NEW s, s.ships \in Nat
  PROVE  SumShips({s}) = s.ships
<1>1. SumShips({s}) = Cardinality({s} \X (1 .. s.ships))
  BY DEF SumShips
<1>2. IsFiniteSet({s}) /\ Cardinality({s}) = 1
  BY FS_Singleton
<1>3. IsFiniteSet(1 .. s.ships) /\ Cardinality(1 .. s.ships) = s.ships
  <2>1. 1 \in Int /\ s.ships \in Int
    OBVIOUS
  <2>2. IsFiniteSet(1 .. s.ships) /\ Cardinality(1 .. s.ships) =
          IF 1 > s.ships THEN 0 ELSE s.ships - 1 + 1
    BY <2>1, FS_Interval, Zenon
  <2> QED
    BY <2>2
<1>4. Cardinality({s} \X (1 .. s.ships)) = Cardinality({s}) * Cardinality(1 .. s.ships)
  BY <1>2, <1>3, FS_Product, Zenon
<1> QED
  BY <1>1, <1>2, <1>3, <1>4

LEMMA SumOfBoth ==
  ASSUME NEW S, NEW T, IsFiniteSet(S), IsFiniteSet(T), S \cap T = {},
         \A s \in S \cup T : s.ships \in Nat
  PROVE  SumShips(S \cup T) = SumShips(S) + SumShips(T)
<1>1. IsFiniteSet(Counted(S)) /\ IsFiniteSet(Counted(T))
  BY CountedIsFinite
<1>2. Counted(S \cup T) = Counted(S) \cup Counted(T)
  BY Zenon DEF Counted
<1>3. Counted(S) \cap Counted(T) = {}
  BY DEF Counted
<1>4. Cardinality(Counted(S) \cup Counted(T)) =
        Cardinality(Counted(S)) + Cardinality(Counted(T)) - Cardinality({})
  BY <1>1, <1>3, FS_Union
<1>5. Cardinality(Counted(S)) \in Nat /\ Cardinality(Counted(T)) \in Nat
  BY <1>1, FS_CardinalityType
<1>6. Cardinality({}) = 0
  BY FS_EmptySet
<1> QED
  <2>1. SumShips(S \cup T) = Cardinality(Counted(S) \cup Counted(T))
    BY <1>2, SumIsCount
  <2>2. SumShips(S) = Cardinality(Counted(S)) /\ SumShips(T) = Cardinality(Counted(T))
    BY SumIsCount
  <2> QED
    BY <1>4, <1>5, <1>6, <2>1, <2>2

LEMMA SumOfPart ==
  ASSUME NEW S, NEW T \in SUBSET S, IsFiniteSet(S), \A s \in S : s.ships \in Nat
  PROVE  IsFiniteSet(T) /\ SumShips(T) \in Nat /\ SumShips(T) <= SumShips(S)
<1>1. IsFiniteSet(T)
  BY FS_Subset
<1>2. Counted(T) \subseteq Counted(S)
  BY DEF Counted
<1>3. IsFiniteSet(Counted(S))
  BY CountedIsFinite
<1>4. Cardinality(Counted(T)) <= Cardinality(Counted(S))
  BY <1>2, <1>3, FS_Subset
<1> QED
  BY <1>1, <1>4, SumIsNumber, SumIsCount

-----------------------------------------------------------------------------
(* The ships of some entries of a batch or a board.                         *)

Entries(f, J) == {[id |-> j, ships |-> f[j].ships] : j \in J}

LEMMA ShipsOfEntries == ASSUME NEW f, NEW J PROVE ShipsOf(f, J) = SumShips(Entries(f, J))
BY DEF ShipsOf, Entries

LEMMA EntriesAreFinite ==
  ASSUME NEW f, NEW J, IsFiniteSet(J)
  PROVE  IsFiniteSet(Entries(f, J))
<1> DEFINE e == [j \in J |-> [id |-> j, ships |-> f[j].ships]]
<1>1. e \in Surjection(J, Entries(f, J))
  BY DEF Surjection, Entries
<1> QED
  BY <1>1, FS_Surjection

LEMMA ShipsOfNumber ==
  ASSUME NEW f, NEW J, IsFiniteSet(J), \A j \in J : f[j].ships \in Nat
  PROVE  ShipsOf(f, J) \in Nat
<1>1. \A s \in Entries(f, J) : s.ships \in Nat
  BY DEF Entries
<1> QED
  BY <1>1, EntriesAreFinite, SumIsNumber, ShipsOfEntries

LEMMA ShipsOfNone == ASSUME NEW f PROVE ShipsOf(f, {}) = 0
<1>1. Entries(f, {}) = {}
  BY DEF Entries
<1> QED
  BY <1>1, ShipsOfEntries, SumOfNone

LEMMA ShipsOfMore ==
  ASSUME NEW f, NEW J, IsFiniteSet(J), NEW x, x \notin J,
         \A j \in J \cup {x} : f[j].ships \in Nat
  PROVE  ShipsOf(f, J \cup {x}) = ShipsOf(f, J) + f[x].ships
<1> DEFINE r == [id |-> x, ships |-> f[x].ships]
<1>1. Entries(f, J \cup {x}) = Entries(f, J) \cup {r}
  BY DEF Entries
<1>2. Entries(f, J) \cap {r} = {}
  BY DEF Entries
<1>3. \A s \in Entries(f, J) \cup {r} : s.ships \in Nat
  BY DEF Entries
<1>4. IsFiniteSet(Entries(f, J)) /\ IsFiniteSet({r})
  BY EntriesAreFinite, FS_Singleton
<1>5. r.ships = f[x].ships /\ f[x].ships \in Nat
  OBVIOUS
<1> HIDE DEF r
<1>6. SumShips(Entries(f, J) \cup {r}) = SumShips(Entries(f, J)) + SumShips({r})
  BY <1>2, <1>3, <1>4, SumOfBoth
<1>7. SumShips({r}) = f[x].ships
  BY <1>5, SumOfOne
<1> QED
  BY <1>1, <1>6, <1>7, ShipsOfEntries

LEMMA ShipsOfPart ==
  ASSUME NEW f, NEW J, IsFiniteSet(J), \A j \in J : f[j].ships \in Nat, NEW K \in SUBSET J
  PROVE  ShipsOf(f, K) \in Nat /\ ShipsOf(f, K) <= ShipsOf(f, J)
<1>1. \A s \in Entries(f, J) : s.ships \in Nat
  BY DEF Entries
<1>2. Entries(f, K) \in SUBSET Entries(f, J)
  BY DEF Entries
<1>3. SumShips(Entries(f, K)) \in Nat /\ SumShips(Entries(f, K)) <= SumShips(Entries(f, J))
  BY <1>1, <1>2, EntriesAreFinite, SumOfPart
<1> QED
  BY <1>3, ShipsOfEntries

LEMMA ShipsOfSame ==
  ASSUME NEW f, NEW g, NEW J, \A j \in J : f[j].ships = g[j].ships
  PROVE  ShipsOf(f, J) = ShipsOf(g, J)
<1>1. Entries(f, J) = Entries(g, J)
  BY DEF Entries
<1> QED
  BY <1>1, ShipsOfEntries

\* Counting does not depend on how the entries are numbered.
LEMMA ShipsOfRenumbered ==
  ASSUME NEW f, NEW g, NEW J, IsFiniteSet(J), NEW at,
         \A j, k \in J : at[j] = at[k] => j = k,
         \A j \in J : f[j].ships \in Nat /\ f[j].ships = g[at[j]].ships
  PROVE  ShipsOf(f, J) = ShipsOf(g, {at[j] : j \in J})
<1> DEFINE Image(S) == {at[j] : j \in S}
           G == {S \in SUBSET J : IsFiniteSet(Image(S)) /\ ShipsOf(f, S) = ShipsOf(g, Image(S))}
<1>1. {} \in G
  <2>1. Image({}) = {}
    OBVIOUS
  <2> QED
    BY <2>1, ShipsOfNone, FS_EmptySet
<1>2. ASSUME NEW S \in SUBSET J, NEW x \in J \ S, S \in G PROVE S \cup {x} \in G
  <2>1. Image(S \cup {x}) = Image(S) \cup {at[x]} /\ at[x] \notin Image(S)
    OBVIOUS
  <2>2. IsFiniteSet(S) /\ IsFiniteSet(Image(S))
    BY <1>2, FS_Subset
  <2>3. \A j \in S \cup {x} : f[j].ships \in Nat
    OBVIOUS
  <2>4. \A i \in Image(S) \cup {at[x]} : g[i].ships \in Nat
    OBVIOUS
  <2>5. ShipsOf(f, S) = ShipsOf(g, Image(S)) /\ f[x].ships = g[at[x]].ships
    BY <1>2
  <2>6. S \cup {x} \in SUBSET J /\ x \notin S
    OBVIOUS
  <2> HIDE DEF Image
  <2>7. ShipsOf(f, S \cup {x}) = ShipsOf(f, S) + f[x].ships
    BY <2>2, <2>3, <2>6, ShipsOfMore
  <2>8. ShipsOf(g, Image(S) \cup {at[x]}) = ShipsOf(g, Image(S)) + g[at[x]].ships
    BY <2>1, <2>2, <2>4, ShipsOfMore
  <2>9. IsFiniteSet(Image(S) \cup {at[x]})
    BY <2>2, FS_AddElement
  <2> QED
    BY <2>1, <2>5, <2>6, <2>7, <2>8, <2>9
<1>3. J \in G
  <2> HIDE DEF G
  <2> QED
    BY <1>1, <1>2, EverySet
<1> QED
  BY <1>3

-----------------------------------------------------------------------------
(* The launches of a batch, one after the other.                            *)

MovesOf(f, game, slot, batch, n) ==
  f = [i \in 0 .. n |-> IF i = 0 THEN game ELSE LaunchOne(f[i - 1], slot, batch[i])]

Moves(game, slot, batch) == CHOOSE f : MovesOf(f, game, slot, batch, Len(batch))

LEMMA ProcessIsLastMove ==
  ASSUME NEW game, NEW slot, NEW batch
  PROVE  ProcessMoves(game, slot, batch) = Moves(game, slot, batch)[Len(batch)]
BY Zenon DEF ProcessMoves, Moves, MovesOf

LEMMA MovesExist ==
  ASSUME NEW game, NEW slot, NEW batch
  PROVE  \A n \in Nat : \E f : MovesOf(f, game, slot, batch, n)
<1> DEFINE G == {n \in Nat : \E f : MovesOf(f, game, slot, batch, n)}
<1>1. 0 \in G
  <2>1. MovesOf([i \in 0 .. 0 |-> game], game, slot, batch, 0)
    BY DEF MovesOf
  <2> QED
    BY <2>1
<1>2. ASSUME NEW n \in Nat, n \in G PROVE n + 1 \in G
  <2> PICK f : MovesOf(f, game, slot, batch, n)
    BY <1>2
  <2> DEFINE g == [i \in 0 .. n + 1 |-> IF i = n + 1 THEN LaunchOne(f[n], slot, batch[n + 1]) ELSE f[i]]
  <2>1. ASSUME NEW i \in 0 .. n + 1
        PROVE  g[i] = IF i = 0 THEN game ELSE LaunchOne(g[i - 1], slot, batch[i])
    <3>1. CASE i = n + 1
      <4>1. i # 0 /\ i - 1 = n /\ n \in 0 .. n + 1 /\ n # n + 1
        BY <3>1
      <4>2. g[n] = f[n]
        BY <4>1
      <4> QED
        BY <3>1, <4>1, <4>2
    <3>2. CASE i # n + 1
      <4>1. i \in 0 .. n /\ (i # 0 => i - 1 \in 0 .. n + 1 /\ i - 1 # n + 1)
        BY <3>2
      <4>2. g[i] = f[i] /\ (i # 0 => g[i - 1] = f[i - 1])
        BY <3>2, <4>1
      <4>3. f[i] = IF i = 0 THEN game ELSE LaunchOne(f[i - 1], slot, batch[i])
        BY <4>1 DEF MovesOf
      <4> QED
        BY <4>2, <4>3
    <3> QED
      BY <3>1, <3>2
  <2>2. g = [i \in 0 .. n + 1 |-> g[i]]
    OBVIOUS
  <2> HIDE DEF g
  <2>3. MovesOf(g, game, slot, batch, n + 1)
    BY <2>1, <2>2 DEF MovesOf
  <2> QED
    BY <2>3
<1>3. \A n \in Nat : n \in G
  <2> HIDE DEF G
  <2> QED
    BY <1>1, <1>2, EveryNumber
<1> QED
  BY <1>3

LEMMA MovesUnfold ==
  ASSUME NEW game, NEW slot, NEW batch, Len(batch) \in Nat
  PROVE  /\ Moves(game, slot, batch)[0] = game
         /\ \A i \in 1 .. Len(batch) :
              Moves(game, slot, batch)[i] = LaunchOne(Moves(game, slot, batch)[i - 1], slot, batch[i])
<1> DEFINE f == Moves(game, slot, batch)
<1>1. \E g : MovesOf(g, game, slot, batch, Len(batch))
  BY MovesExist
<1>2. MovesOf(f, game, slot, batch, Len(batch))
  BY <1>1, Zenon DEF Moves
<1> HIDE DEF f
<1>3. \A i \in 0 .. Len(batch) : f[i] = IF i = 0 THEN game ELSE LaunchOne(f[i - 1], slot, batch[i])
  BY <1>2, Zenon DEF MovesOf
<1>4. 0 \in 0 .. Len(batch) /\ \A i \in 1 .. Len(batch) : i \in 0 .. Len(batch) /\ i # 0
  OBVIOUS
<1> QED
  BY <1>3, <1>4 DEF f

-----------------------------------------------------------------------------
(* What a launch leaves as it was.                                          *)

Owned(board, o) == {p \in DOMAIN board : board[p].owner = o}

Flying(flying, o) == {f \in flying : f.owner = o}

LEMMA ScoreIs ==
  ASSUME NEW board, NEW flying, NEW o
  PROVE  Score(board, flying, o) = ShipsOf(board, Owned(board, o)) + SumShips(Flying(flying, o))
BY DEF Score, Owned, Flying

Fleets(flying, id) ==
  /\ flying \subseteq Fleet /\ IsFiniteSet(flying) /\ id \in Nat
  /\ \A f, g \in flying : f.id = g.id => f = g
  /\ \A f \in flying : f.id < id

Game(game, D) ==
  /\ game.planets \in [D -> PlanetState]
  /\ Fleets(game.fleets, game.next)

SameOwners(a, b, D) == \A p \in D : a.planets[p].owner = b.planets[p].owner

SameScores(a, b) ==
  \A o \in Player : Score(a.planets, a.fleets, o) = Score(b.planets, b.fleets, o)

LEMMA BoardNumbers ==
  ASSUME NEW D, IsFiniteSet(D), NEW board \in [D -> PlanetState], NEW S \in SUBSET D
  PROVE  IsFiniteSet(S) /\ ShipsOf(board, S) \in Nat
<1>1. IsFiniteSet(S)
  BY FS_Subset
<1>2. \A p \in S : board[p].ships \in Nat
  BY DEF PlanetState
<1> QED
  BY <1>1, <1>2, ShipsOfNumber

LEMMA FleetNumbers ==
  ASSUME NEW flying, IsFiniteSet(flying), flying \subseteq Fleet, NEW S \in SUBSET flying
  PROVE  IsFiniteSet(S) /\ (\A f \in S : f.ships \in Nat) /\ SumShips(S) \in Nat
<1>1. IsFiniteSet(S)
  BY FS_Subset
<1>2. \A f \in S : f.ships \in Nat
  BY DEF Fleet
<1> QED
  BY <1>1, <1>2, SumIsNumber

\* A command takes effect or is skipped.
Takes(game, slot, c) ==
  /\ c.from \in DOMAIN game.planets /\ game.planets[c.from].owner = slot
  /\ c.ships > 0 /\ game.planets[c.from].ships >= c.ships

Launched(game, slot, c) ==
  [planets |-> [game.planets EXCEPT ![c.from].ships = @ - c.ships],
   fleets |-> game.fleets \cup {[id |-> game.next, owner |-> slot, ships |-> c.ships]},
   next |-> game.next + 1]

LEMMA LaunchOneIs ==
  ASSUME NEW game, NEW slot, NEW c
  PROVE  LaunchOne(game, slot, c) = IF Takes(game, slot, c) THEN Launched(game, slot, c) ELSE game
BY DEF LaunchOne, Takes, Launched

LEMMA LaunchKeeps ==
  ASSUME NEW D, IsFiniteSet(D), NEW game, Game(game, D), NEW slot \in Player, NEW c \in Launch
  PROVE  /\ Game(LaunchOne(game, slot, c), D)
         /\ SameOwners(LaunchOne(game, slot, c), game, D)
         /\ SameScores(LaunchOne(game, slot, c), game)
<1>1. CASE ~ Takes(game, slot, c)
  BY <1>1, LaunchOneIs DEF SameOwners, SameScores
<1>2. CASE Takes(game, slot, c)
  <2> DEFINE p == c.from
             n == c.ships
             before == game.planets
             after == [before EXCEPT ![p].ships = @ - n]
             x == [id |-> game.next, owner |-> slot, ships |-> n]
             flying == game.fleets \cup {x}
             new == [planets |-> after, fleets |-> flying, next |-> game.next + 1]
  <2>1. LaunchOne(game, slot, c) = new
    BY <1>2, LaunchOneIs DEF Launched
  <2>2. before \in [D -> PlanetState] /\ Fleets(game.fleets, game.next)
    BY DEF Game
  <2>3. p \in D /\ before[p].owner = slot /\ n \in Nat \ {0} /\ before[p].ships >= n
        /\ before[p].ships \in Nat
    BY <1>2, <2>2 DEF Takes, Launch, PlanetState
  <2>4. after \in [D -> PlanetState]
    BY <2>2, <2>3 DEF PlanetState
  <2>5. \A q \in D : after[q].owner = before[q].owner
    BY <2>2, <2>3 DEF PlanetState
  <2>6. after[p].ships = before[p].ships - n /\ \A q \in D \ {p} : after[q].ships = before[q].ships
    BY <2>2, <2>3 DEF PlanetState
  <2>7. x \in Fleet /\ x.id = game.next /\ x.owner = slot /\ x.ships = n
    BY <2>2, <2>3 DEF Fleet, Fleets
  <2>8. x \notin game.fleets
    BY <2>2, <2>7 DEF Fleets, Fleet
  <2> HIDE DEF x, after
  <2>9. Fleets(flying, game.next + 1)
    <3>1. IsFiniteSet(flying)
      BY <2>2, FS_AddElement DEF Fleets
    <3>2. flying \subseteq Fleet /\ game.next + 1 \in Nat
      BY <2>2, <2>7 DEF Fleets
    <3>3. \A f \in flying : f.id < game.next + 1
      <4> TAKE f \in flying
      <4>1. f.id \in Nat /\ game.next \in Nat
        BY <2>2, <3>2 DEF Fleet, Fleets
      <4>2. f.id < game.next \/ f.id = game.next
        BY <2>2, <2>7 DEF Fleets
      <4> QED
        BY <4>1, <4>2
    <3>4. \A f \in game.fleets : f.id # x.id
      <4> TAKE f \in game.fleets
      <4>1. f.id \in Nat /\ game.next \in Nat /\ f.id < game.next
        BY <2>2 DEF Fleet, Fleets
      <4> QED
        BY <4>1, <2>7
    <3>5. \A f, g \in flying : f.id = g.id => f = g
      BY <2>2, <3>4 DEF Fleets
    <3> QED
      BY <3>1, <3>2, <3>3, <3>5 DEF Fleets
  <2>10. Game(new, D)
    BY <2>4, <2>9 DEF Game
  <2>11. SameOwners(new, game, D)
    BY <2>5 DEF SameOwners
  <2>12. SameScores(new, game)
    <3> SUFFICES ASSUME NEW o \in Player
                 PROVE  Score(after, flying, o) = Score(before, game.fleets, o)
      BY DEF SameScores
    <3> DEFINE O == Owned(before, o)
               F == Flying(game.fleets, o)
    <3>1. Owned(after, o) = O /\ O \in SUBSET D
      BY <2>2, <2>4, <2>5 DEF Owned
    <3>2. IsFiniteSet(F) /\ (\A f \in F : f.ships \in Nat) /\ SumShips(F) \in Nat
      BY <2>2, FleetNumbers DEF Fleets, Flying
    <3>3. IsFiniteSet(O) /\ ShipsOf(before, O) \in Nat
      BY <2>2, <3>1, BoardNumbers
    <3>4. CASE o = slot
      <4>1. p \in O
        BY <2>2, <2>3, <3>4 DEF Owned
      <4> DEFINE R == O \ {p}
      <4>2. IsFiniteSet(R) /\ R \in SUBSET D /\ p \notin R /\ R \cup {p} = O
        BY <3>1, <3>3, <4>1, FS_RemoveElement
      <4>3. (\A q \in R \cup {p} : before[q].ships \in Nat) /\ (\A q \in R \cup {p} : after[q].ships \in Nat)
        BY <2>2, <2>4, <4>2, <3>1 DEF PlanetState
      <4> HIDE DEF R
      <4>4. ShipsOf(before, O) = ShipsOf(before, R) + before[p].ships
        BY <4>2, <4>3, ShipsOfMore
      <4>5. ShipsOf(after, O) = ShipsOf(after, R) + after[p].ships
        BY <4>2, <4>3, ShipsOfMore
      <4>6. ShipsOf(after, R) = ShipsOf(before, R)
        <5>1. \A q \in R : after[q].ships = before[q].ships
          BY <2>6, <4>2
        <5> QED
          BY <5>1, ShipsOfSame
      <4>7. Flying(flying, o) = F \cup {x} /\ F \cap {x} = {}
        BY <2>7, <2>8, <3>4 DEF Flying
      <4>8. SumShips(F \cup {x}) = SumShips(F) + SumShips({x})
        BY <2>3, <2>7, <3>2, <4>7, SumOfBoth, FS_Singleton
      <4>9. SumShips({x}) = n
        BY <2>3, <2>7, SumOfOne
      <4>10. ShipsOf(before, R) \in Nat
        BY <2>2, <4>2, BoardNumbers
      <4>11. Score(after, flying, o) = ShipsOf(after, O) + SumShips(F \cup {x})
        BY <3>1, <4>7, ScoreIs
      <4>12. Score(before, game.fleets, o) = ShipsOf(before, O) + SumShips(F)
        BY ScoreIs
      <4> HIDE DEF O, F, flying, before, p, n
      <4> QED
        BY <2>3, <2>6, <3>2, <4>4, <4>5, <4>6, <4>8, <4>9, <4>10, <4>11, <4>12
    <3>5. CASE o # slot
      <4>1. Flying(flying, o) = F
        BY <2>7, <3>5 DEF Flying
      <4>2. \A q \in O : after[q].ships = before[q].ships
        BY <2>3, <2>6, <3>1, <3>5 DEF Owned
      <4>3. ShipsOf(after, O) = ShipsOf(before, O)
        BY <4>2, ShipsOfSame
      <4> QED
        BY <3>1, <4>1, <4>3, ScoreIs
    <3> QED
      BY <3>4, <3>5
  <2> QED
    BY <2>1, <2>10, <2>11, <2>12
<1> QED
  BY <1>1, <1>2

Kept(game, old, D) == Game(game, D) /\ SameOwners(game, old, D) /\ SameScores(game, old)

LEMMA ProcessKeeps ==
  ASSUME NEW D, IsFiniteSet(D), NEW game, Game(game, D), NEW slot \in Player, NEW batch \in Seq(Launch)
  PROVE  Kept(ProcessMoves(game, slot, batch), game, D)
<1> DEFINE f == Moves(game, slot, batch)
           G == {n \in Nat : n <= Len(batch) => Kept(f[n], game, D)}
<1>1. Len(batch) \in Nat /\ \A i \in 1 .. Len(batch) : batch[i] \in Launch
  BY LenProperties, ElementOfSeq
<1>2. f[0] = game /\ \A i \in 1 .. Len(batch) : f[i] = LaunchOne(f[i - 1], slot, batch[i])
  BY <1>1, MovesUnfold
<1> HIDE DEF f
<1>3. 0 \in G
  BY <1>2 DEF Kept, SameOwners, SameScores
<1>4. ASSUME NEW n \in Nat, n \in G PROVE n + 1 \in G
  <2> SUFFICES ASSUME n + 1 <= Len(batch) PROVE Kept(f[n + 1], game, D)
    OBVIOUS
  <2>1. Kept(f[n], game, D)
    BY <1>1, <1>4
  <2>2. n + 1 \in 1 .. Len(batch) /\ (n + 1) - 1 = n
    BY <1>1
  <2>3. f[n + 1] = LaunchOne(f[n], slot, batch[n + 1]) /\ batch[n + 1] \in Launch
    BY <1>1, <1>2, <2>2
  <2>4. Game(f[n + 1], D) /\ SameOwners(f[n + 1], f[n], D) /\ SameScores(f[n + 1], f[n])
    BY <2>1, <2>3, LaunchKeeps DEF Kept
  <2> QED
    BY <2>1, <2>4 DEF Kept, SameOwners, SameScores
<1>5. Len(batch) \in G
  <2> HIDE DEF G
  <2> QED
    BY <1>1, <1>3, <1>4, EveryNumber
<1>6. Kept(f[Len(batch)], game, D)
  BY <1>1, <1>5
<1> QED
  BY <1>6, ProcessIsLastMove DEF f

-----------------------------------------------------------------------------
(* A batch that fits the board is launched in full.                         *)

Used(batch, p) == ShipsOf(batch, {j \in DOMAIN batch : batch[j].from = p})

UsedTo(batch, p, n) == ShipsOf(batch, {j \in 1 .. n : batch[j].from = p})

Fits(batch, board, slot) ==
  /\ \A i \in DOMAIN batch :
       /\ batch[i].from \in DOMAIN board
       /\ board[batch[i].from].owner = slot
       /\ batch[i].ships # 0
  /\ \A p \in DOMAIN board : Used(batch, p) <= board[p].ships

LEMMA UsedToNumber ==
  ASSUME NEW batch \in Seq(Launch), NEW p, NEW n \in Nat, n <= Len(batch)
  PROVE  UsedTo(batch, p, n) \in Nat /\ UsedTo(batch, p, n) <= Used(batch, p)
<1> DEFINE J == {j \in 1 .. Len(batch) : batch[j].from = p}
           K == {j \in 1 .. n : batch[j].from = p}
<1>1. Len(batch) \in Nat /\ DOMAIN batch = 1 .. Len(batch)
      /\ \A i \in 1 .. Len(batch) : batch[i] \in Launch
  BY LenProperties, ElementOfSeq
<1>2. IsFiniteSet(1 .. Len(batch))
  BY <1>1, FS_Interval
<1>3. IsFiniteSet(J)
  BY <1>2, FS_Subset
<1>4. \A j \in J : batch[j].ships \in Nat
  BY <1>1 DEF Launch
<1>5. K \in SUBSET J
  BY <1>1
<1> HIDE DEF J, K
<1>6. ShipsOf(batch, K) \in Nat /\ ShipsOf(batch, K) <= ShipsOf(batch, J)
  BY <1>3, <1>4, <1>5, ShipsOfPart
<1> QED
  BY <1>1, <1>6 DEF UsedTo, Used, J, K

LEMMA UsedToNext ==
  ASSUME NEW batch \in Seq(Launch), NEW p, NEW n \in Nat, n + 1 <= Len(batch)
  PROVE  UsedTo(batch, p, n + 1) =
           UsedTo(batch, p, n) + (IF batch[n + 1].from = p THEN batch[n + 1].ships ELSE 0)
<1> DEFINE K == {j \in 1 .. n : batch[j].from = p}
           L == {j \in 1 .. n + 1 : batch[j].from = p}
<1>1. Len(batch) \in Nat /\ \A i \in 1 .. Len(batch) : batch[i] \in Launch
  BY LenProperties, ElementOfSeq
<1>2. IsFiniteSet(1 .. n)
  BY FS_Interval
<1>3. IsFiniteSet(K)
  BY <1>2, FS_Subset
<1>4. \A j \in K \cup {n + 1} : batch[j].ships \in Nat
  BY <1>1 DEF Launch
<1>5. n + 1 \notin K
  OBVIOUS
<1>6. CASE batch[n + 1].from = p
  <2>1. L = K \cup {n + 1}
    BY <1>6
  <2> HIDE DEF K, L
  <2>2. ShipsOf(batch, L) = ShipsOf(batch, K) + batch[n + 1].ships
    BY <1>3, <1>4, <1>5, <2>1, ShipsOfMore
  <2> QED
    BY <1>6, <2>2 DEF UsedTo, K, L
<1>7. CASE batch[n + 1].from # p
  <2>1. L = K
    BY <1>7
  <2>2. UsedTo(batch, p, n) \in Nat
    BY <1>1, UsedToNumber
  <2>3. UsedTo(batch, p, n + 1) = UsedTo(batch, p, n)
    BY <2>1 DEF UsedTo
  <2> QED
    BY <1>7, <2>2, <2>3
<1> QED
  BY <1>6, <1>7

Spent(game, old, batch, D, n) ==
  /\ game.next = old.next + n
  /\ \A p \in D : game.planets[p].ships = old.planets[p].ships - UsedTo(batch, p, n)

LEMMA LaunchSpends ==
  ASSUME NEW D, IsFiniteSet(D), NEW old, Game(old, D), NEW slot \in Player,
         NEW batch \in Seq(Launch), Fits(batch, old.planets, slot),
         NEW n \in Nat, n + 1 <= Len(batch),
         NEW game, Kept(game, old, D), Spent(game, old, batch, D, n)
  PROVE  Spent(LaunchOne(game, slot, batch[n + 1]), old, batch, D, n + 1)
<1> DEFINE c == batch[n + 1]
           q == c.from
<1>1. n + 1 \in DOMAIN batch /\ c \in Launch
  <2>1. Len(batch) \in Nat /\ DOMAIN batch = 1 .. Len(batch)
    BY LenProperties
  <2> QED
    BY <2>1, ElementOfSeq
<1>2. old.planets \in [D -> PlanetState] /\ game.planets \in [D -> PlanetState]
  BY DEF Game, Kept
<1>3. old.next \in Nat /\ game.next \in Nat
  BY DEF Game, Kept, Fleets
<1>4. q \in D /\ old.planets[q].owner = slot /\ c.ships # 0
  BY <1>1, <1>2 DEF Fits
<1>5. game.planets[q].owner = slot
  BY <1>4 DEF Kept, SameOwners
<1>6. c.ships \in Nat \ {0}
  BY <1>1, <1>4 DEF Launch
<1>7. Used(batch, q) <= old.planets[q].ships
  BY <1>2, <1>4 DEF Fits
<1>8. \A p \in D : UsedTo(batch, p, n) \in Nat /\ UsedTo(batch, p, n + 1) \in Nat
      /\ UsedTo(batch, p, n + 1) <= Used(batch, p)
      /\ UsedTo(batch, p, n + 1) = UsedTo(batch, p, n) + (IF q = p THEN c.ships ELSE 0)
  <2> TAKE p \in D
  <2>1. n <= Len(batch) /\ n + 1 \in Nat
    BY LenProperties
  <2> QED
    BY <2>1, UsedToNumber, UsedToNext
<1>9. \A p \in D : game.planets[p].ships \in Nat /\ old.planets[p].ships \in Nat
  BY <1>2 DEF PlanetState
<1>10. Used(batch, q) \in Nat
  <2>1. Len(batch) \in Nat /\ DOMAIN batch = 1 .. Len(batch)
    BY LenProperties
  <2>2. Used(batch, q) = UsedTo(batch, q, Len(batch))
    BY <2>1 DEF Used, UsedTo
  <2> QED
    BY <2>1, <2>2, UsedToNumber
<1>11. \A p \in D : game.planets[p].ships = old.planets[p].ships - UsedTo(batch, p, n)
  BY DEF Spent
<1> HIDE DEF c, q
<1>12. game.planets[q].ships >= c.ships
  <2>1. UsedTo(batch, q, n + 1) = UsedTo(batch, q, n) + c.ships
    BY <1>4, <1>8
  <2> QED
    BY <1>4, <1>6, <1>7, <1>8, <1>9, <1>10, <1>11, <2>1
<1>13. Takes(game, slot, c)
  BY <1>2, <1>4, <1>5, <1>6, <1>12 DEF Takes, q
<1>14. LaunchOne(game, slot, c) = Launched(game, slot, c)
  BY <1>13, LaunchOneIs
<1>15. Launched(game, slot, c).next = old.next + (n + 1)
  BY <1>3 DEF Launched, Spent
<1>16. ASSUME NEW p \in D
       PROVE  Launched(game, slot, c).planets[p].ships = old.planets[p].ships - UsedTo(batch, p, n + 1)
  <2>1. CASE p = q
    <3>1. Launched(game, slot, c).planets[p].ships = game.planets[p].ships - c.ships
      BY <1>2, <1>4, <2>1 DEF Launched, PlanetState, q
    <3>2. UsedTo(batch, p, n) \in Nat /\ UsedTo(batch, p, n + 1) = UsedTo(batch, p, n) + c.ships
      BY <1>8, <2>1
    <3>3. game.planets[p].ships = old.planets[p].ships - UsedTo(batch, p, n)
      BY <1>11
    <3>4. old.planets[p].ships \in Nat
      BY <1>9
    <3> QED
      BY <1>6, <3>1, <3>2, <3>3, <3>4
  <2>2. CASE p # q
    <3>1. Launched(game, slot, c).planets[p].ships = game.planets[p].ships
      BY <1>2, <1>4, <2>2 DEF Launched, PlanetState, q
    <3>2. UsedTo(batch, p, n + 1) = UsedTo(batch, p, n)
      BY <1>8, <2>2
    <3> QED
      BY <1>11, <3>1, <3>2
  <2> QED
    BY <2>1, <2>2
<1> QED
  BY <1>14, <1>15, <1>16 DEF Spent, c

LEMMA ProcessInFull ==
  ASSUME NEW D, IsFiniteSet(D), NEW old, Game(old, D), NEW slot \in Player,
         NEW batch \in Seq(Launch), Fits(batch, old.planets, slot)
  PROVE  ProcessMoves(old, slot, batch).next = old.next + Len(batch)
<1> DEFINE f == Moves(old, slot, batch)
           Done(n) == Kept(f[n], old, D) /\ Spent(f[n], old, batch, D, n)
           G == {n \in Nat : n <= Len(batch) => Done(n)}
<1>1. Len(batch) \in Nat /\ \A i \in 1 .. Len(batch) : batch[i] \in Launch
  BY LenProperties, ElementOfSeq
<1>2. f[0] = old /\ \A i \in 1 .. Len(batch) : f[i] = LaunchOne(f[i - 1], slot, batch[i])
  BY <1>1, MovesUnfold
<1> HIDE DEF f
<1>3. 0 \in G
  <2>1. Kept(old, old, D)
    BY DEF Kept, SameOwners, SameScores
  <2>2. \A p \in D : UsedTo(batch, p, 0) = 0
    <3> TAKE p \in D
    <3>1. {j \in 1 .. 0 : batch[j].from = p} = {}
      OBVIOUS
    <3> QED
      BY <3>1, ShipsOfNone DEF UsedTo
  <2>3. old.next \in Nat /\ \A p \in D : old.planets[p].ships \in Nat
    BY DEF Game, Fleets, PlanetState
  <2>4. Spent(old, old, batch, D, 0)
    BY <2>2, <2>3 DEF Spent
  <2> QED
    BY <1>2, <2>1, <2>4
<1>4. ASSUME NEW n \in Nat, n \in G PROVE n + 1 \in G
  <2> SUFFICES ASSUME n + 1 <= Len(batch) PROVE Done(n + 1)
    OBVIOUS
  <2>1. Done(n)
    BY <1>1, <1>4
  <2>2. n + 1 \in 1 .. Len(batch) /\ (n + 1) - 1 = n
    BY <1>1
  <2>3. f[n + 1] = LaunchOne(f[n], slot, batch[n + 1]) /\ batch[n + 1] \in Launch
    BY <1>1, <1>2, <2>2
  <2>4. Game(f[n + 1], D) /\ SameOwners(f[n + 1], f[n], D) /\ SameScores(f[n + 1], f[n])
    BY <2>1, <2>3, LaunchKeeps DEF Kept
  <2>5. Kept(f[n + 1], old, D)
    BY <2>1, <2>4 DEF Kept, SameOwners, SameScores
  <2>6. Spent(f[n + 1], old, batch, D, n + 1)
    BY <2>1, <2>3, LaunchSpends
  <2> QED
    BY <2>5, <2>6
<1>5. Len(batch) \in G
  <2> HIDE DEF G
  <2> QED
    BY <1>1, <1>3, <1>4, EveryNumber
<1>6. Spent(f[Len(batch)], old, batch, D, Len(batch))
  BY <1>1, <1>5
<1> QED
  BY <1>6, ProcessIsLastMove DEF f, Spent

-----------------------------------------------------------------------------
(* Production and combat.                                                   *)

LEMMA ProduceKeeps ==
  ASSUME NEW D, IsFiniteSet(D), NEW board \in [D -> PlanetState], NEW o \in Player
  PROVE  /\ Produce(board) \in [D -> PlanetState]
         /\ Owned(Produce(board), o) = Owned(board, o)
         /\ ShipsOf(Produce(board), Owned(board, o)) =
              ShipsOf(board, Owned(board, o)) + Production * Cardinality(Owned(board, o))
<1> DEFINE after == Produce(board)
           O == Owned(board, o)
           G == {S \in SUBSET O : ShipsOf(after, S) = ShipsOf(board, S) + Production * Cardinality(S)}
<1>1. Production \in Nat
  BY EngineRulesAssumption
<1>2. after \in [D -> PlanetState] /\ \A p \in D : after[p].owner = board[p].owner
  BY <1>1 DEF Produce, PlanetState
<1>3. Owned(after, o) = O /\ O \in SUBSET D
  BY <1>2 DEF Owned
<1>4. \A p \in O : after[p].ships = board[p].ships + Production
  BY <1>1 DEF Produce, PlanetState, Owned, Player, Neutral
<1>5. IsFiniteSet(O)
  BY <1>3, FS_Subset
<1>6. {} \in G
  BY <1>1, ShipsOfNone, FS_EmptySet
<1>7. ASSUME NEW S \in SUBSET O, NEW x \in O \ S, S \in G PROVE S \cup {x} \in G
  <2>1. IsFiniteSet(S) /\ Cardinality(S) \in Nat /\ Cardinality(S \cup {x}) = Cardinality(S) + 1
    BY <1>5, FS_Subset, FS_CardinalityType, FS_AddElement
  <2>2. \A p \in S \cup {x} : board[p].ships \in Nat /\ after[p].ships \in Nat
    BY <1>2, <1>3 DEF PlanetState
  <2>3. ShipsOf(after, S) = ShipsOf(board, S) + Production * Cardinality(S)
    BY <1>7
  <2>4. x \notin S /\ S \cup {x} \in SUBSET O /\ after[x].ships = board[x].ships + Production
    BY <1>4
  <2>5. ShipsOf(board, S) \in Nat
    BY <2>1, <2>2, ShipsOfNumber
  <2> HIDE DEF O, after
  <2>6. ShipsOf(after, S \cup {x}) = ShipsOf(after, S) + after[x].ships
    BY <2>1, <2>2, <2>4, ShipsOfMore
  <2>7. ShipsOf(board, S \cup {x}) = ShipsOf(board, S) + board[x].ships
    BY <2>1, <2>2, <2>4, ShipsOfMore
  <2>8. Production * (Cardinality(S) + 1) = Production * Cardinality(S) + Production
    BY <1>1, <2>1
  <2>9. Production * Cardinality(S) \in Nat
    BY <1>1, <2>1
  <2>10. board[x].ships \in Nat
    BY <2>2
  <2>11. ShipsOf(after, S \cup {x}) = ShipsOf(board, S \cup {x}) + Production * Cardinality(S \cup {x})
    BY <1>1, <2>1, <2>3, <2>4, <2>5, <2>6, <2>7, <2>8, <2>9, <2>10
  <2> QED
    BY <2>4, <2>11
<1>8. O \in G
  <2> HIDE DEF G, O
  <2> QED
    BY <1>5, <1>6, <1>7, EverySet
<1> QED
  BY <1>2, <1>3, <1>8

Mine(planet, o) == IF planet.owner = o THEN planet.ships ELSE 0

LEMMA CombatKeeps ==
  ASSUME NEW planet \in PlanetState, NEW f0 \in Nat, NEW f1 \in Nat, NEW o \in Player
  PROVE  /\ Combat(planet, f0, f1) \in PlanetState
         /\ Mine(Combat(planet, f0, f1), o) <= Mine(planet, o) + (IF o = 0 THEN f0 ELSE f1)
<1>1. planet.ships \in Nat /\ planet.owner \in {0, 1, -1} /\ o \in {0, 1}
  BY DEF PlanetState, Player, Neutral
<1>2. planet = [owner |-> planet.owner, ships |-> planet.ships]
  BY DEF PlanetState
<1> DEFINE s == IF f0 > f1 THEN f0 - f1 ELSE f1 - f0
           winner == IF f0 > f1 THEN 0 ELSE 1
<1>3. s \in Nat /\ winner \in {0, 1} /\ s <= (IF winner = 0 THEN f0 ELSE f1)
  OBVIOUS
<1>4. Combat(planet, f0, f1) =
        IF s = 0 THEN planet
        ELSE IF planet.owner = winner THEN [owner |-> planet.owner, ships |-> planet.ships + s]
        ELSE IF planet.ships >= s THEN [owner |-> planet.owner, ships |-> planet.ships - s]
        ELSE [owner |-> winner, ships |-> s - planet.ships]
  BY <1>2 DEF Combat
<1> HIDE DEF s, winner
<1>5. CASE s = 0
  BY <1>1, <1>4, <1>5 DEF Mine
<1>6. CASE s # 0 /\ planet.owner = winner
  BY <1>1, <1>3, <1>4, <1>6 DEF Mine, PlanetState, Player, Neutral
<1>7. CASE s # 0 /\ planet.owner # winner /\ planet.ships >= s
  BY <1>1, <1>3, <1>4, <1>7 DEF Mine, PlanetState, Player, Neutral
<1>8. CASE s # 0 /\ planet.owner # winner /\ ~ (planet.ships >= s)
  BY <1>1, <1>3, <1>4, <1>8 DEF Mine, PlanetState, Player, Neutral
<1> QED
  BY <1>5, <1>6, <1>7, <1>8

\* The ships of a player on the planets in S.
On(board, o, S) == ShipsOf(board, S \cap Owned(board, o))

LEMMA OnMore ==
  ASSUME NEW E, IsFiniteSet(E), NEW board \in [E -> PlanetState], NEW o,
         NEW S \in SUBSET E, NEW p \in E \ S
  PROVE  On(board, o, S) \in Nat /\ On(board, o, S \cup {p}) = On(board, o, S) + Mine(board[p], o)
<1> DEFINE T == S \cap Owned(board, o)
<1>1. T \in SUBSET E /\ p \notin T /\ p \in DOMAIN board
  OBVIOUS
<1>2. IsFiniteSet(T) /\ ShipsOf(board, T) \in Nat
  BY <1>1, BoardNumbers
<1>3. CASE board[p].owner = o
  <2>1. (S \cup {p}) \cap Owned(board, o) = T \cup {p}
    BY <1>3 DEF Owned
  <2>2. \A q \in T \cup {p} : board[q].ships \in Nat
    BY DEF PlanetState
  <2> HIDE DEF T
  <2>3. ShipsOf(board, T \cup {p}) = ShipsOf(board, T) + board[p].ships
    BY <1>1, <1>2, <2>2, ShipsOfMore
  <2> QED
    BY <1>2, <1>3, <2>1, <2>3 DEF On, Mine, T
<1>4. CASE board[p].owner # o
  <2>1. (S \cup {p}) \cap Owned(board, o) = T
    BY <1>4 DEF Owned
  <2> HIDE DEF T
  <2> QED
    BY <1>2, <1>4, <2>1 DEF On, Mine, T
<1> QED
  BY <1>3, <1>4

\* The ships of a player on their way to the planets in S.
Bound(flying, fate, o, S) == SumShips({f \in flying : fate[f] \in S /\ f.owner = o})

Landing(flying, fate, o, p) == SumShips({f \in flying : fate[f] = p /\ f.owner = o})

LEMMA BoundMore ==
  ASSUME NEW flying, IsFiniteSet(flying), flying \subseteq Fleet, NEW fate, NEW o, NEW S, NEW p, p \notin S
  PROVE  /\ Bound(flying, fate, o, S) \in Nat /\ Landing(flying, fate, o, p) \in Nat
         /\ Bound(flying, fate, o, S \cup {p}) = Bound(flying, fate, o, S) + Landing(flying, fate, o, p)
<1> DEFINE T == {f \in flying : fate[f] \in S /\ f.owner = o}
           U == {f \in flying : fate[f] = p /\ f.owner = o}
<1>1. T \in SUBSET flying /\ U \in SUBSET flying /\ T \cap U = {}
  OBVIOUS
<1>2. {f \in flying : fate[f] \in S \cup {p} /\ f.owner = o} = T \cup U
  OBVIOUS
<1> HIDE DEF T, U
<1>3. IsFiniteSet(T) /\ (\A f \in T : f.ships \in Nat) /\ SumShips(T) \in Nat
  BY <1>1, FleetNumbers
<1>4. IsFiniteSet(U) /\ (\A f \in U : f.ships \in Nat) /\ SumShips(U) \in Nat
  BY <1>1, FleetNumbers
<1>5. SumShips(T \cup U) = SumShips(T) + SumShips(U)
  BY <1>1, <1>3, <1>4, SumOfBoth
<1> QED
  BY <1>2, <1>3, <1>4, <1>5 DEF Bound, Landing, T, U

Fought(board, flying, fate) ==
  [p \in DOMAIN board |-> Combat(board[p], Landing(flying, fate, 0, p), Landing(flying, fate, 1, p))]

LEMMA FoughtIsBoard ==
  ASSUME NEW E, NEW board \in [E -> PlanetState],
         NEW flying, IsFiniteSet(flying), flying \subseteq Fleet, NEW fate
  PROVE  /\ Fought(board, flying, fate) \in [E -> PlanetState]
         /\ \A o \in Player : \A p \in E :
              Mine(Fought(board, flying, fate)[p], o) <= Mine(board[p], o) + Landing(flying, fate, o, p)
<1>1. \A o \in Player : \A p \in E : Landing(flying, fate, o, p) \in Nat
  <2> TAKE o \in Player
  <2> TAKE p \in E
  <2>1. p \notin {}
    OBVIOUS
  <2> QED
    BY <2>1, BoundMore, Zenon
<1>2. ASSUME NEW p \in E
      PROVE  /\ Fought(board, flying, fate)[p] \in PlanetState
             /\ \A o \in Player :
                  Mine(Fought(board, flying, fate)[p], o) <= Mine(board[p], o) + Landing(flying, fate, o, p)
  <2> DEFINE f0 == Landing(flying, fate, 0, p)
             f1 == Landing(flying, fate, 1, p)
  <2>1. board[p] \in PlanetState /\ f0 \in Nat /\ f1 \in Nat
    BY <1>1 DEF Player
  <2>2. Fought(board, flying, fate)[p] = Combat(board[p], f0, f1)
    BY DEF Fought
  <2>3. \A o \in Player : Landing(flying, fate, o, p) = IF o = 0 THEN f0 ELSE f1
    BY DEF Player
  <2> HIDE DEF f0, f1
  <2>4. Combat(board[p], f0, f1) \in PlanetState
        /\ \A o \in Player : Mine(Combat(board[p], f0, f1), o) <= Mine(board[p], o) + (IF o = 0 THEN f0 ELSE f1)
    BY <2>1, CombatKeeps DEF Player
  <2> QED
    BY <2>2, <2>3, <2>4
<1>3. Fought(board, flying, fate) = [p \in E |-> Fought(board, flying, fate)[p]]
  BY DEF Fought
<1> QED
  BY <1>2, <1>3

LEMMA FightKeeps ==
  ASSUME NEW E, IsFiniteSet(E), NEW board \in [E -> PlanetState],
         NEW flying, IsFiniteSet(flying), flying \subseteq Fleet, NEW fate, "flies" \notin E, NEW o \in Player
  PROVE  Score(Fought(board, flying, fate), {f \in flying : fate[f] = "flies"}, o) <=
           ShipsOf(board, Owned(board, o)) + SumShips(Flying(flying, o))
<1> DEFINE after == Fought(board, flying, fate)
           G == {S \in SUBSET E : On(after, o, S) <= On(board, o, S) + Bound(flying, fate, o, S)}
           stay == {f \in flying : fate[f] = "flies"}
<1>1. after \in [E -> PlanetState]
      /\ \A p \in E : Mine(after[p], o) <= Mine(board[p], o) + Landing(flying, fate, o, p)
  BY FoughtIsBoard
<1> HIDE DEF after
<1>2. {} \in G
  <2>1. {} \cap Owned(after, o) = {} /\ {} \cap Owned(board, o) = {}
        /\ {f \in flying : fate[f] \in {} /\ f.owner = o} = {}
    OBVIOUS
  <2>2. On(after, o, {}) = 0 /\ On(board, o, {}) = 0 /\ Bound(flying, fate, o, {}) = 0
    BY <2>1, ShipsOfNone, SumOfNone DEF On, Bound
  <2> QED
    BY <2>2
<1>3. ASSUME NEW S \in SUBSET E, NEW p \in E \ S, S \in G PROVE S \cup {p} \in G
  <2>1. On(after, o, S) \in Nat /\ On(after, o, S \cup {p}) = On(after, o, S) + Mine(after[p], o)
    BY <1>1, OnMore
  <2>2. On(board, o, S) \in Nat /\ On(board, o, S \cup {p}) = On(board, o, S) + Mine(board[p], o)
    BY OnMore
  <2>3. /\ Bound(flying, fate, o, S) \in Nat /\ Landing(flying, fate, o, p) \in Nat
        /\ Bound(flying, fate, o, S \cup {p}) = Bound(flying, fate, o, S) + Landing(flying, fate, o, p)
    BY BoundMore
  <2>4. Mine(after[p], o) <= Mine(board[p], o) + Landing(flying, fate, o, p)
    BY <1>1
  <2>5. Mine(after[p], o) \in Nat /\ Mine(board[p], o) \in Nat
    BY <1>1 DEF Mine, PlanetState
  <2>6. On(after, o, S) <= On(board, o, S) + Bound(flying, fate, o, S)
    BY <1>3
  <2>7. On(after, o, S \cup {p}) <= On(board, o, S \cup {p}) + Bound(flying, fate, o, S \cup {p})
    BY <2>1, <2>2, <2>3, <2>4, <2>5, <2>6
  <2> QED
    BY <2>7
<1>4. E \in G
  <2> HIDE DEF G
  <2> QED
    BY <1>2, <1>3, EverySet
<1>5. E \cap Owned(after, o) = Owned(after, o) /\ E \cap Owned(board, o) = Owned(board, o)
  BY <1>1 DEF Owned
<1>6. ShipsOf(after, Owned(after, o)) <= ShipsOf(board, Owned(board, o)) + Bound(flying, fate, o, E)
  BY <1>4, <1>5 DEF On
<1> DEFINE T == {f \in flying : fate[f] \in E /\ f.owner = o}
           U == Flying(stay, o)
           V == Flying(flying, o)
<1>7. T \cap U = {} /\ T \cup U \in SUBSET V /\ V \in SUBSET flying /\ T \in SUBSET flying /\ U \in SUBSET flying
  BY DEF Flying
<1>8. Bound(flying, fate, o, E) = SumShips(T)
  BY DEF Bound
<1>9. Score(after, stay, o) = ShipsOf(after, Owned(after, o)) + SumShips(U)
  BY ScoreIs
<1> HIDE DEF T, U, V, stay
<1>10. IsFiniteSet(T) /\ (\A f \in T : f.ships \in Nat) /\ SumShips(T) \in Nat
  BY <1>7, FleetNumbers
<1>11. IsFiniteSet(U) /\ (\A f \in U : f.ships \in Nat) /\ SumShips(U) \in Nat
  BY <1>7, FleetNumbers
<1>12. IsFiniteSet(V) /\ (\A f \in V : f.ships \in Nat) /\ SumShips(V) \in Nat
  BY <1>7, FleetNumbers
<1>13. SumShips(T \cup U) = SumShips(T) + SumShips(U)
  BY <1>7, <1>10, <1>11, SumOfBoth
<1>14. SumShips(T \cup U) <= SumShips(V)
  BY <1>7, <1>12, SumOfPart
<1>15. ShipsOf(after, Owned(after, o)) \in Nat /\ ShipsOf(board, Owned(board, o)) \in Nat
  <2>1. Owned(after, o) \in SUBSET E /\ Owned(board, o) \in SUBSET E
    BY <1>5
  <2> QED
    BY <1>1, <2>1, BoardNumbers
<1>16. Score(after, stay, o) <= ShipsOf(board, Owned(board, o)) + SumShips(V)
  BY <1>6, <1>8, <1>9, <1>10, <1>11, <1>12, <1>13, <1>14, <1>15
<1> QED
  BY <1>16 DEF after, stay, V

-----------------------------------------------------------------------------
(* The inductive invariant.                                                 *)

\* The page only lets the player queue what his planets have.
DraftFits == Fits(draft, planets, 0)

\* A comet on the board entered at its time and is not yet at the end of its path,
\* so that it is gone before the next one enters.
CometInTime == comet # Absent => step - comet \in SpawnSteps

EndsInTime == step = EpisodeSteps - 1 => done

EngineInv ==
  TypeOK /\ DraftFits /\ CometInTime /\ EndsInTime /\ skipped = 0 /\ OutcomeFits

-----------------------------------------------------------------------------
(* The board at the start of a step.                                        *)

Garrisons == IF step + 1 \in SpawnSteps THEN 0 .. MaxGarrison ELSE {0}

Squares(garrison) == IF garrison > 0 \/ comet # Absent THEN Planet \cup {Comet} ELSE Planet

LEMMA SquaresAreFinite ==
  ASSUME NEW garrison
  PROVE  /\ IsFiniteSet(Squares(garrison))
         /\ Squares(garrison) \subseteq Planet \cup {Comet} /\ "flies" \notin Squares(garrison)
<1>1. IsFiniteSet(Planet) /\ "flies" \notin Planet \cup {Comet}
  BY EngineRulesAssumption
<1>2. IsFiniteSet(Planet \cup {Comet})
  BY <1>1, FS_AddElement
<1> QED
  BY <1>1, <1>2 DEF Squares

LEMMA NoCometMeets ==
  ASSUME TypeOK, CometInTime, NEW garrison \in Garrisons, garrison # 0
  PROVE  comet = Absent
<1> SUFFICES ASSUME comet # Absent PROVE FALSE
  OBVIOUS
<1>1. step + 1 \in SpawnSteps
  BY DEF Garrisons
<1>2. step - comet \in SpawnSteps
  BY DEF CometInTime
<1>3. step \in Nat /\ comet \in Nat /\ comet <= CometLife - 1 /\ CometLife \in Nat
  BY EngineRulesAssumption DEF TypeOK, Absent
<1>4. step - comet < step + 1
  BY <1>3
<1>5. (step + 1) - (step - comet) > CometLife
  BY <1>1, <1>2, <1>4, EngineRulesAssumption
<1> QED
  BY <1>3, <1>5

LEMMA StartOfStep ==
  ASSUME TypeOK, CometInTime, NEW garrison \in Garrisons
  PROVE  /\ Game(Start(garrison), Squares(garrison))
         /\ Start(garrison).next = next
         /\ \A p \in DOMAIN planets :
              p \in Squares(garrison) /\ Start(garrison).planets[p] = planets[p]
         /\ \A p \in Squares(garrison) \ DOMAIN planets : Start(garrison).planets[p].owner = Neutral
<1> DEFINE D == DOMAIN planets
           board == Spawn(planets, garrison)
<1>1. CometsLeft = planets
  BY EngineRulesAssumption DEF TypeOK, CometsLeft, Absent
<1>2. Start(garrison) = [planets |-> board, fleets |-> fleets, next |-> next]
  BY <1>1 DEF Start
<1>3. planets \in [D -> PlanetState] /\ D = IF comet = Absent THEN Planet ELSE Planet \cup {Comet}
  BY DEF TypeOK
<1>4. garrison \in Nat
  BY EngineRulesAssumption DEF Garrisons
<1>5. Fleets(fleets, next)
  BY DEF TypeOK, Fleets
<1>6. CASE garrison = 0
  <2>1. board = planets /\ Squares(garrison) = D
    BY <1>3, <1>6 DEF Spawn, Squares
  <2> QED
    BY <1>2, <1>3, <1>5, <2>1 DEF Game
<1>7. CASE garrison # 0
  <2>1. comet = Absent
    BY <1>7, NoCometMeets
  <2>2. D = Planet /\ Squares(garrison) = D \cup {Comet} /\ Comet \notin D
    BY <1>3, <1>4, <1>7, <2>1, EngineRulesAssumption DEF Squares
  <2>3. board = [p \in D \cup {Comet} |->
                   IF p = Comet THEN [owner |-> Neutral, ships |-> garrison] ELSE planets[p]]
    BY <1>7 DEF Spawn
  <2>4. [owner |-> Neutral, ships |-> garrison] \in PlanetState
    BY <1>4 DEF PlanetState
  <2>5. board \in [D \cup {Comet} -> PlanetState]
    BY <1>3, <2>3, <2>4
  <2>6. (\A p \in D : board[p] = planets[p]) /\ board[Comet].owner = Neutral
    BY <2>2, <2>3
  <2> HIDE DEF board
  <2> QED
    BY <1>2, <1>5, <2>2, <2>5, <2>6 DEF Game
<1> QED
  BY <1>6, <1>7

LEMMA StartScores ==
  ASSUME TypeOK, CometInTime, NEW garrison \in Garrisons, NEW o \in Player
  PROVE  /\ Owned(Start(garrison).planets, o) = Owned(planets, o)
         /\ Score(Start(garrison).planets, Start(garrison).fleets, o) = Score(planets, fleets, o)
<1> DEFINE board == Start(garrison).planets
           O == Owned(planets, o)
<1>1. /\ Game(Start(garrison), Squares(garrison))
      /\ \A p \in DOMAIN planets : p \in Squares(garrison) /\ board[p] = planets[p]
      /\ \A p \in Squares(garrison) \ DOMAIN planets : board[p].owner = Neutral
  BY StartOfStep
<1>2. DOMAIN board = Squares(garrison)
  BY <1>1 DEF Game
<1>3. Start(garrison).fleets = fleets
  BY DEF Start
<1>4. o # Neutral
  BY DEF Player, Neutral
<1> HIDE DEF board
<1>5. Owned(board, o) = O
  BY <1>1, <1>2, <1>4 DEF Owned
<1>6. \A p \in O : board[p].ships = planets[p].ships
  BY <1>1 DEF Owned
<1>7. ShipsOf(board, O) = ShipsOf(planets, O)
  BY <1>6, ShipsOfSame
<1> QED
  BY <1>3, <1>5, <1>7, ScoreIs DEF board

LEMMA StartFits ==
  ASSUME TypeOK, CometInTime, NEW garrison \in Garrisons,
         NEW batch \in Seq(Launch), Fits(batch, planets, 0)
  PROVE  Fits(batch, Start(garrison).planets, 0)
<1> DEFINE board == Start(garrison).planets
<1>1. /\ Game(Start(garrison), Squares(garrison))
      /\ \A p \in DOMAIN planets : p \in Squares(garrison) /\ board[p] = planets[p]
  BY StartOfStep
<1>2. board \in [Squares(garrison) -> PlanetState]
  BY <1>1 DEF Game
<1> HIDE DEF board
<1>3. \A i \in DOMAIN batch :
        batch[i].from \in DOMAIN board /\ board[batch[i].from].owner = 0 /\ batch[i].ships # 0
  BY <1>1, <1>2 DEF Fits
<1>4. ASSUME NEW p \in DOMAIN board PROVE Used(batch, p) <= board[p].ships
  <2>1. CASE p \in DOMAIN planets
    BY <1>1, <2>1 DEF Fits
  <2>2. CASE p \notin DOMAIN planets
    <3>1. {j \in DOMAIN batch : batch[j].from = p} = {}
      BY <2>2 DEF Fits
    <3>2. Used(batch, p) = 0
      BY <3>1, ShipsOfNone DEF Used
    <3>3. board[p].ships \in Nat
      BY <1>2 DEF PlanetState
    <3> QED
      BY <3>2, <3>3
  <2> QED
    BY <2>1, <2>2
<1> QED
  BY <1>3, <1>4 DEF Fits, board

-----------------------------------------------------------------------------
(* A step of the kernel.                                                    *)

Moved(garrison, human) == ProcessMoves(Start(garrison), 0, human)

Opened(garrison, human, agent) == ProcessMoves(Moved(garrison, human), 1, agent)

Played(human, agent, garrison) ==
  /\ Play(Opened(garrison, human, agent), garrison > 0)
  /\ skipped' = skipped + Len(human) - (Moved(garrison, human).next - next)

Left(board, entered) ==
  IF Advanced(entered) = Absent THEN Without(Produce(board), {Comet}) ELSE Produce(board)

Stay(flying, fate) == {f \in flying : fate[f] = "flies"}

LEMMA PlayIs ==
  ASSUME NEW human, NEW agent, NEW garrison, Played(human, agent, garrison)
  PROVE  LET game == Opened(garrison, human, agent) IN
         /\ \E fate :
              /\ planets' = Fought(Left(game.planets, garrison > 0), game.fleets, fate)
              /\ fleets' = Stay(game.fleets, fate)
         /\ next' = game.next
         /\ comet' = Advanced(garrison > 0)
         /\ done' = (step >= EpisodeSteps - 2 \/ Cardinality(Alive(planets', fleets')) <= 1)
         /\ rewards' = IF done' THEN Rewards(planets', fleets') ELSE rewards
         /\ skipped' = skipped + Len(human) - (Moved(garrison, human).next - next)
BY Zenon DEF Played, Play, Opened, Moved, Left, Stay, Fought, Landing

LEMMA OpenedKeeps ==
  ASSUME TypeOK, CometInTime, NEW garrison \in Garrisons,
         NEW human \in Seq(Launch), NEW agent \in Seq(Launch)
  PROVE  /\ Kept(Moved(garrison, human), Start(garrison), Squares(garrison))
         /\ Kept(Opened(garrison, human, agent), Start(garrison), Squares(garrison))
<1>1. Game(Start(garrison), Squares(garrison)) /\ IsFiniteSet(Squares(garrison))
  BY StartOfStep, SquaresAreFinite
<1>2. 0 \in Player /\ 1 \in Player
  BY DEF Player
<1>3. Kept(Moved(garrison, human), Start(garrison), Squares(garrison))
  BY <1>1, <1>2, ProcessKeeps DEF Moved
<1>4. Game(Moved(garrison, human), Squares(garrison))
  BY <1>3 DEF Kept
<1>5. Kept(Opened(garrison, human, agent), Moved(garrison, human), Squares(garrison))
  BY <1>1, <1>2, <1>4, ProcessKeeps DEF Opened
<1> QED
  BY <1>3, <1>5 DEF Kept, SameOwners, SameScores

\* The board after production, without the comet whose path is over.
LEMMA LeftKeeps ==
  ASSUME TypeOK, NEW garrison \in Garrisons, NEW board \in [Squares(garrison) -> PlanetState]
  PROVE  LET E == IF Advanced(garrison > 0) = Absent THEN Planet ELSE Planet \cup {Comet} IN
         /\ IsFiniteSet(E) /\ "flies" \notin E
         /\ Left(board, garrison > 0) \in [E -> PlanetState]
         /\ \A o \in Player :
              ShipsOf(Left(board, garrison > 0), Owned(Left(board, garrison > 0), o)) <=
                ShipsOf(board, Owned(board, o)) + Production * Cardinality(Owned(board, o))
<1> DEFINE D == Squares(garrison)
           E == IF Advanced(garrison > 0) = Absent THEN Planet ELSE Planet \cup {Comet}
           grown == Produce(board)
           left == Left(board, garrison > 0)
<1>1. IsFiniteSet(D)
  BY SquaresAreFinite
<1>2. grown \in [D -> PlanetState]
  BY <1>1, ProduceKeeps DEF Player
<1>3. IsFiniteSet(Planet) /\ "flies" \notin Planet \cup {Comet} /\ Comet \notin Planet
  BY EngineRulesAssumption
<1>4. IsFiniteSet(E) /\ "flies" \notin E
  BY <1>3, FS_AddElement
<1>5. left = [p \in E |-> grown[p]] /\ E \in SUBSET D
  <2>1. CASE Advanced(garrison > 0) = Absent
    <3>1. D \ {Comet} = Planet
      BY <1>3 DEF Squares
    <3> QED
      BY <1>2, <2>1, <3>1 DEF Left, Without
  <2>2. CASE Advanced(garrison > 0) # Absent
    <3>1. D = Planet \cup {Comet}
      BY <2>2 DEF Squares, Advanced
    <3> QED
      BY <1>2, <2>2, <3>1 DEF Left
  <2> QED
    BY <2>1, <2>2
<1> HIDE DEF grown, left, E, D
<1>6. left \in [E -> PlanetState]
  BY <1>2, <1>5
<1>7. ASSUME NEW o \in Player
      PROVE  ShipsOf(left, Owned(left, o)) <=
               ShipsOf(board, Owned(board, o)) + Production * Cardinality(Owned(board, o))
  <2>1. Owned(grown, o) = Owned(board, o)
        /\ ShipsOf(grown, Owned(board, o)) =
             ShipsOf(board, Owned(board, o)) + Production * Cardinality(Owned(board, o))
    BY <1>1, ProduceKeeps DEF grown, D
  <2>2. Owned(left, o) \in SUBSET Owned(grown, o) /\ Owned(grown, o) \in SUBSET D
    BY <1>2, <1>5 DEF Owned
  <2>3. \A p \in Owned(left, o) : left[p].ships = grown[p].ships
    BY <1>5 DEF Owned
  <2>4. ShipsOf(left, Owned(left, o)) = ShipsOf(grown, Owned(left, o))
    BY <2>3, ShipsOfSame
  <2>5. IsFiniteSet(Owned(grown, o)) /\ \A p \in Owned(grown, o) : grown[p].ships \in Nat
    BY <1>1, <1>2, <2>2, FS_Subset DEF PlanetState
  <2>6. ShipsOf(grown, Owned(left, o)) <= ShipsOf(grown, Owned(grown, o))
    BY <2>2, <2>5, ShipsOfPart
  <2> QED
    BY <2>1, <2>4, <2>6
<1> QED
  BY <1>4, <1>6, <1>7 DEF left, E

LEMMA ScoreNumber ==
  ASSUME NEW E, IsFiniteSet(E), NEW board \in [E -> PlanetState],
         NEW flying, IsFiniteSet(flying), flying \subseteq Fleet, NEW o
  PROVE  Score(board, flying, o) \in Nat
<1>1. Owned(board, o) \in SUBSET E /\ Flying(flying, o) \in SUBSET flying
  BY DEF Owned, Flying
<1>2. ShipsOf(board, Owned(board, o)) \in Nat /\ SumShips(Flying(flying, o)) \in Nat
  BY <1>1, BoardNumbers, FleetNumbers
<1> QED
  BY <1>2, ScoreIs

LEMMA RewardsFit ==
  ASSUME NEW E, IsFiniteSet(E), NEW board \in [E -> PlanetState],
         NEW flying, IsFiniteSet(flying), flying \subseteq Fleet
  PROVE  /\ Rewards(board, flying) \in [Player -> {-1, 1}]
         /\ \A o \in Player :
              Rewards(board, flying)[o] = 1 /\ Rewards(board, flying)[1 - o] = -1
                <=> Score(board, flying, o) > Score(board, flying, 1 - o)
<1>1. \A o \in Player : Score(board, flying, o) \in Nat
  BY ScoreNumber
<1>2. \A o \in Player : 1 - o \in Player /\ 1 - (1 - o) = o
  BY DEF Player
<1>3. \A o \in Player :
        Rewards(board, flying)[o] =
          IF Score(board, flying, o) > 0 /\ Score(board, flying, o) >= Score(board, flying, 1 - o)
          THEN 1 ELSE -1
  BY DEF Rewards
<1>4. Rewards(board, flying) = [o \in Player |-> Rewards(board, flying)[o]]
  BY DEF Rewards
<1>5. Rewards(board, flying) \in [Player -> {-1, 1}]
  <2>1. \A o \in Player : Rewards(board, flying)[o] \in {-1, 1}
    BY <1>3
  <2> QED
    BY <1>4, <2>1
<1>6. ASSUME NEW o \in Player
      PROVE  Rewards(board, flying)[o] = 1 /\ Rewards(board, flying)[1 - o] = -1
               <=> Score(board, flying, o) > Score(board, flying, 1 - o)
  <2> DEFINE m == Score(board, flying, o)
             n == Score(board, flying, 1 - o)
             r == Rewards(board, flying)[o]
             q == Rewards(board, flying)[1 - o]
  <2>1. m \in Nat /\ n \in Nat
    BY <1>1, <1>2
  <2>2. r = IF m > 0 /\ m >= n THEN 1 ELSE -1
    BY <1>3
  <2>3. q = IF n > 0 /\ n >= m THEN 1 ELSE -1
    BY <1>2, <1>3
  <2> HIDE DEF m, n, r, q
  <2>4. r = 1 /\ q = -1 <=> m > n
    BY <2>1, <2>2, <2>3
  <2> QED
    BY <2>4 DEF m, n, r, q
<1> QED
  BY <1>5, <1>6

LEMMA NothingFits ==
  ASSUME NEW D, NEW board \in [D -> PlanetState], NEW o
  PROVE  Fits(<<>>, board, o)
<1>1. DOMAIN <<>> = {}
  OBVIOUS
<1>2. \A p \in D : Used(<<>>, p) = 0 /\ board[p].ships \in Nat
  <2> TAKE p \in D
  <2>1. {j \in DOMAIN <<>> : <<>>[j].from = p} = {}
    BY <1>1
  <2> QED
    BY <2>1, ShipsOfNone DEF Used, PlanetState
<1> QED
  BY <1>1, <1>2 DEF Fits

LEMMA BatchesAreBatches ==
  ASSUME TypeOK
  PROVE  <<>> \in Seq(Launch) /\ draft \in Seq(Launch) /\ Batches \subseteq Seq(Launch)
<1>1. [from : Planet \cup {Comet}, ships : 1 .. MaxShips] \subseteq Launch
  BY EngineRulesAssumption DEF Launch
<1>2. Batches \subseteq Seq(Launch)
  <2> SUFFICES ASSUME NEW b \in Batches PROVE b \in Seq(Launch)
    OBVIOUS
  <2> DEFINE S == [from : Planet \cup {Comet}, ships : 1 .. MaxShips]
  <2>1. PICK n \in 0 .. MaxBatch : b \in [1 .. n -> S]
    BY DEF Batches, BoundedSeq, SeqOf
  <2>2. n \in Nat
    BY EngineRulesAssumption
  <2> QED
    BY <1>1, <2>1, <2>2
<1> QED
  BY <1>2 DEF TypeOK

\* The worker's check passes a batch exactly if the board has the planets it launches
\* from and the ships it spends.
LEMMA ValidFits ==
  ASSUME TypeOK, NEW batch \in Seq(Launch), \A i \in DOMAIN batch : batch[i].ships # 0,
         Valid(batch, 0)
  PROVE  Fits(batch, planets, 0)
<1>1. \A p \in DOMAIN planets : Used(batch, p) <= planets[p].ships
  <2> TAKE p \in DOMAIN planets
  <2>1. CASE \E i \in DOMAIN batch : batch[i].from = p
    <3>1. PICK i \in DOMAIN batch : batch[i].from = p
      BY <2>1
    <3>2. ShipsOf(batch, {j \in DOMAIN batch : batch[j].from = batch[i].from})
            <= planets[batch[i].from].ships
      BY Zenon DEF Valid
    <3> QED
      BY <3>1, <3>2, Zenon DEF Used
  <2>2. CASE ~ \E i \in DOMAIN batch : batch[i].from = p
    <3>1. {j \in DOMAIN batch : batch[j].from = p} = {}
      BY <2>2
    <3>2. planets[p].ships \in Nat
      BY DEF TypeOK, PlanetState
    <3>3. Used(batch, p) = 0
      BY <3>1, ShipsOfNone, Zenon DEF Used
    <3> QED
      BY <3>2, <3>3
  <2> QED
    BY <2>1, <2>2
<1> QED
  BY <1>1 DEF Fits, Valid

LEMMA BatchesAreNotEmpty ==
  ASSUME NEW b \in Batches
  PROVE  \A i \in DOMAIN b : b[i].ships # 0
<1> DEFINE S == [from : Planet \cup {Comet}, ships : 1 .. MaxShips]
<1>1. PICK n \in 0 .. MaxBatch : b \in [1 .. n -> S]
  BY DEF Batches, BoundedSeq, SeqOf
<1> QED
  BY <1>1, EngineRulesAssumption

\* What a step makes of the state.
LEMMA StepIs ==
  ASSUME EngineInv, EngineStep
  PROVE  \E garrison \in Garrisons, human \in Seq(Launch), agent \in Seq(Launch) :
           Played(human, agent, garrison) /\ Fits(human, planets, 0)
<1>1. PICK human \in {<<>>} \cup {b \in IF draft = <<>> THEN Batches ELSE {draft} : Valid(b, 0)},
           agent \in Batches, garrison \in Garrisons : Played(human, agent, garrison)
  BY Zenon DEF EngineStep, Garrisons, Played, Opened, Moved
<1>2. human \in Seq(Launch) /\ agent \in Seq(Launch)
  BY BatchesAreBatches DEF EngineInv
<1>3. planets \in [DOMAIN planets -> PlanetState]
  BY DEF EngineInv, TypeOK
<1>4. Fits(human, planets, 0)
  <2>1. CASE human = <<>>
    BY <1>3, <2>1, NothingFits
  <2>2. CASE human = draft
    BY <2>2 DEF EngineInv, DraftFits
  <2>3. CASE human \in Batches /\ Valid(human, 0)
    BY <1>2, <2>3, BatchesAreNotEmpty, ValidFits DEF EngineInv
  <2> QED
    BY <1>1, <2>1, <2>2, <2>3
<1> QED
  BY <1>1, <1>2, <1>4

LEMMA PlayedBoard ==
  ASSUME TypeOK, CometInTime, NEW garrison \in Garrisons,
         NEW human \in Seq(Launch), NEW agent \in Seq(Launch), Played(human, agent, garrison)
  PROVE  /\ planets' \in [IF comet' = Absent THEN Planet ELSE Planet \cup {Comet} -> PlanetState]
         /\ Fleets(fleets', next')
         /\ \A o \in Player :
              Score(planets', fleets', o) <=
                Score(planets, fleets, o) + Production * Cardinality(Owned(planets, o))
<1> DEFINE game == Opened(garrison, human, agent)
           D == Squares(garrison)
           E == IF Advanced(garrison > 0) = Absent THEN Planet ELSE Planet \cup {Comet}
           left == Left(game.planets, garrison > 0)
<1>1. Kept(game, Start(garrison), D)
  BY OpenedKeeps
<1>2. Game(game, D)
  BY <1>1 DEF Kept
<1>3. game.planets \in [D -> PlanetState] /\ Fleets(game.fleets, game.next)
  BY <1>2 DEF Game
<1>4. IsFiniteSet(game.fleets) /\ game.fleets \subseteq Fleet
  BY <1>3 DEF Fleets
<1>5. PICK fate : planets' = Fought(left, game.fleets, fate) /\ fleets' = Stay(game.fleets, fate)
  BY PlayIs, Zenon
<1>6. next' = game.next /\ comet' = Advanced(garrison > 0)
  BY PlayIs, Zenon
<1>7. IsFiniteSet(E) /\ "flies" \notin E /\ left \in [E -> PlanetState]
  BY <1>3, LeftKeeps
<1>8. planets' \in [E -> PlanetState]
  BY <1>4, <1>5, <1>7, FoughtIsBoard
<1>9. Fleets(fleets', next')
  <2>1. fleets' \in SUBSET game.fleets
    BY <1>5 DEF Stay
  <2>2. IsFiniteSet(fleets')
    BY <1>4, <2>1, FS_Subset
  <2> QED
    BY <1>3, <1>6, <2>1, <2>2 DEF Fleets
<1>10. ASSUME NEW o \in Player
       PROVE  Score(planets', fleets', o) <=
                Score(planets, fleets, o) + Production * Cardinality(Owned(planets, o))
  <2> DEFINE O == Owned(planets, o)
             was == Start(garrison)
  <2>1. Owned(was.planets, o) = O /\ Score(was.planets, was.fleets, o) = Score(planets, fleets, o)
    BY StartScores
  <2>2. Game(was, D)
    BY StartOfStep
  <2>3. Owned(game.planets, o) = O
    BY <1>1, <1>3, <2>1, <2>2 DEF Kept, SameOwners, Owned, Game
  <2>4. Score(game.planets, game.fleets, o) = Score(planets, fleets, o)
    BY <1>1, <2>1 DEF Kept, SameScores
  <2>5. Score(game.planets, game.fleets, o) =
          ShipsOf(game.planets, O) + SumShips(Flying(game.fleets, o))
    BY <2>3, ScoreIs
  <2>6. ShipsOf(left, Owned(left, o)) <= ShipsOf(game.planets, O) + Production * Cardinality(O)
    BY <1>3, <2>3, LeftKeeps
  <2>7. Score(planets', fleets', o) <= ShipsOf(left, Owned(left, o)) + SumShips(Flying(game.fleets, o))
    BY <1>4, <1>5, <1>7, FightKeeps DEF Stay
  <2>8. O \in SUBSET D
    BY <1>3, <2>3 DEF Owned
  <2>9. IsFiniteSet(O) /\ ShipsOf(game.planets, O) \in Nat
    BY <1>3, <2>8, SquaresAreFinite, BoardNumbers
  <2>10. ShipsOf(left, Owned(left, o)) \in Nat
    <3>1. Owned(left, o) \in SUBSET E
      BY <1>7 DEF Owned
    <3> QED
      BY <1>7, <3>1, BoardNumbers
  <2>11. SumShips(Flying(game.fleets, o)) \in Nat
    BY <1>4, FleetNumbers DEF Flying
  <2>12. Production * Cardinality(O) \in Nat
    BY <2>9, FS_CardinalityType, EngineRulesAssumption
  <2>13. Score(planets', fleets', o) \in Nat
    BY <1>4, <1>7, <1>8, <1>9, ScoreNumber DEF Fleets
  <2> HIDE DEF O, left, game
  <2> QED
    BY <2>4, <2>5, <2>6, <2>7, <2>9, <2>10, <2>11, <2>12, <2>13 DEF O
<1> QED
  BY <1>6, <1>8, <1>9, <1>10

LEMMA PlayedInFull ==
  ASSUME TypeOK, CometInTime, NEW garrison \in Garrisons, NEW human \in Seq(Launch), NEW agent,
         Fits(human, planets, 0), skipped = 0, Played(human, agent, garrison)
  PROVE  skipped' = 0
<1>1. skipped' = skipped + Len(human) - (Moved(garrison, human).next - next)
  BY PlayIs, Zenon
<1>2. Game(Start(garrison), Squares(garrison)) /\ Start(garrison).next = next /\ next \in Nat
  BY StartOfStep DEF TypeOK
<1>3. Fits(human, Start(garrison).planets, 0)
  BY StartFits
<1>4. Moved(garrison, human).next = Start(garrison).next + Len(human)
  BY <1>2, <1>3, ProcessInFull, SquaresAreFinite DEF Moved, Player
<1>5. Len(human) \in Nat
  BY LenProperties
<1> QED
  BY <1>1, <1>2, <1>4, <1>5

LEMMA CometKeepsTime ==
  ASSUME TypeOK, CometInTime, NEW garrison \in Garrisons, step' = step + 1,
         comet' = Advanced(garrison > 0)
  PROVE  comet' \in Absent .. CometLife - 1 /\ CometInTime'
<1>1. step \in Nat /\ comet \in Absent .. CometLife - 1 /\ CometLife \in Nat \ {0}
  BY EngineRulesAssumption DEF TypeOK
<1>2. garrison \in Nat /\ (garrison > 0 => step + 1 \in SpawnSteps)
  BY EngineRulesAssumption DEF Garrisons
<1>3. CASE garrison > 0
  BY <1>1, <1>2, <1>3 DEF Advanced, CometInTime, Absent
<1>4. CASE ~ (garrison > 0) /\ (comet = Absent \/ comet + 1 >= CometLife)
  BY <1>1, <1>4 DEF Advanced, CometInTime, Absent
<1>5. CASE ~ (garrison > 0) /\ ~ (comet = Absent \/ comet + 1 >= CometLife)
  <2>1. comet' = comet + 1 /\ comet # Absent
    BY <1>5 DEF Advanced
  <2>2. step' - comet' = step - comet
    BY <1>1, <2>1
  <2> QED
    BY <1>1, <1>5, <2>1, <2>2 DEF CometInTime, Absent
<1> QED
  BY <1>3, <1>4, <1>5

LEMMA StepKeeps ==
  ASSUME EngineInv, EngineStep
  PROVE  EngineInv'
<1>1. PICK garrison \in Garrisons, human \in Seq(Launch), agent \in Seq(Launch) :
        Played(human, agent, garrison) /\ Fits(human, planets, 0)
  BY StepIs
<1>2. ~ done /\ step' = step + 1 /\ draft' = <<>>
  BY DEF EngineStep
<1>3. TypeOK /\ CometInTime /\ EndsInTime /\ skipped = 0
  BY DEF EngineInv
<1>4. planets' \in [IF comet' = Absent THEN Planet ELSE Planet \cup {Comet} -> PlanetState]
      /\ Fleets(fleets', next')
  BY <1>1, <1>3, PlayedBoard
<1>5. skipped' = 0
  BY <1>1, <1>3, PlayedInFull
<1>6. comet' = Advanced(garrison > 0)
      /\ done' = (step >= EpisodeSteps - 2 \/ Cardinality(Alive(planets', fleets')) <= 1)
      /\ rewards' = IF done' THEN Rewards(planets', fleets') ELSE rewards
  BY <1>1, PlayIs, Zenon
<1>7. comet' \in Absent .. CometLife - 1 /\ CometInTime'
  BY <1>2, <1>3, <1>6, CometKeepsTime
<1>8. step \in Nat /\ EpisodeSteps \in Nat /\ step \in 0 .. EpisodeSteps - 1 /\ step # EpisodeSteps - 1
  BY <1>2, <1>3, EngineRulesAssumption DEF TypeOK, EndsInTime
<1>9. step' \in 0 .. EpisodeSteps - 1 /\ (step' = EpisodeSteps - 1 <=> step >= EpisodeSteps - 2)
  BY <1>2, <1>8
<1>10. done' \in BOOLEAN
  BY <1>6, Zenon
<1>11. done' <=> step >= EpisodeSteps - 2 \/ Cardinality(Alive(planets', fleets')) <= 1
  BY <1>6, Zenon
<1>12. EndsInTime'
  BY <1>9, <1>11 DEF EndsInTime
<1> DEFINE E == IF comet' = Absent THEN Planet ELSE Planet \cup {Comet}
<1>13. IsFiniteSet(E)
  BY EngineRulesAssumption, FS_AddElement
<1>14. /\ Rewards(planets', fleets') \in [Player -> {-1, 1}]
       /\ \A o \in Player :
            Rewards(planets', fleets')[o] = 1 /\ Rewards(planets', fleets')[1 - o] = -1
              <=> Score(planets', fleets', o) > Score(planets', fleets', 1 - o)
  BY <1>4, <1>13, RewardsFit DEF Fleets
<1>15. rewards' \in [Player -> {-1, 0, 1}] /\ (done' <=> \A o \in Player : rewards'[o] # 0)
  <2>1. CASE done'
    BY <1>6, <1>14, <2>1
  <2>2. CASE ~ done'
    BY <1>2, <1>3, <1>6, <2>2 DEF TypeOK
  <2> QED
    BY <2>1, <2>2
<1>16. OutcomeFits'
  <2> SUFFICES ASSUME done'
               PROVE  /\ \A o \in Player :
                           rewards'[o] = 1 /\ rewards'[1 - o] = -1
                             <=> Score(planets', fleets', o) > Score(planets', fleets', 1 - o)
                      /\ step' < EpisodeSteps - 1 => Cardinality(Alive(planets', fleets')) <= 1
    BY DEF OutcomeFits
  <2>1. rewards' = Rewards(planets', fleets')
    BY <1>6
  <2>2. step' < EpisodeSteps - 1 => ~ (step >= EpisodeSteps - 2)
    BY <1>2, <1>8
  <2> QED
    BY <1>11, <1>14, <2>1, <2>2
<1>17. draft' \in Seq(Launch) /\ Len(draft') <= MaxQueue /\ DraftFits'
  <2>1. Fits(<<>>, planets', 0)
    BY <1>4, NothingFits
  <2> QED
    BY <1>2, <2>1, EngineRulesAssumption DEF DraftFits
<1>18. TypeOK'
  BY <1>4, <1>5, <1>7, <1>9, <1>10, <1>15, <1>17 DEF TypeOK, Fleets
<1> QED
  BY <1>5, <1>7, <1>12, <1>16, <1>17, <1>18 DEF EngineInv

-----------------------------------------------------------------------------
(* The player at the page.                                                  *)

LEMMA UsedNumber ==
  ASSUME NEW batch \in Seq(Launch), NEW p
  PROVE  Used(batch, p) \in Nat /\ Used(batch, p) = UsedTo(batch, p, Len(batch))
<1>1. Len(batch) \in Nat /\ DOMAIN batch = 1 .. Len(batch)
  BY LenProperties
<1>2. Used(batch, p) = UsedTo(batch, p, Len(batch))
  BY <1>1 DEF Used, UsedTo
<1> QED
  BY <1>1, <1>2, UsedToNumber

LEMMA UsedByMore ==
  ASSUME NEW batch \in Seq(Launch), NEW c \in Launch, NEW p
  PROVE  Used(Append(batch, c), p) = Used(batch, p) + (IF c.from = p THEN c.ships ELSE 0)
<1> DEFINE more == Append(batch, c)
           n == Len(batch)
<1>1. more \in Seq(Launch) /\ Len(more) = n + 1 /\ more[n + 1] = c
      /\ \A i \in 1 .. n : more[i] = batch[i]
  BY AppendProperties
<1>2. n \in Nat /\ DOMAIN batch = 1 .. n
  BY LenProperties
<1> HIDE DEF more, n
<1>3. UsedTo(more, p, n + 1) = UsedTo(more, p, n) + (IF c.from = p THEN c.ships ELSE 0)
  BY <1>1, <1>2, UsedToNext
<1>4. UsedTo(more, p, n) = Used(batch, p)
  <2> DEFINE J == {j \in 1 .. n : batch[j].from = p}
  <2>1. {j \in 1 .. n : more[j].from = p} = J /\ \A j \in J : more[j].ships = batch[j].ships
    BY <1>1
  <2> HIDE DEF J
  <2>2. ShipsOf(more, J) = ShipsOf(batch, J)
    BY <2>1, ShipsOfSame
  <2> QED
    BY <1>2, <2>1, <2>2 DEF UsedTo, Used, J
<1>5. Used(more, p) = UsedTo(more, p, n + 1)
  BY <1>1, UsedNumber
<1> QED
  BY <1>3, <1>4, <1>5 DEF more

\* The other launches from a planet, and one of them.
LEMMA UsedByOne ==
  ASSUME NEW batch \in Seq(Launch), NEW i \in DOMAIN batch, NEW p, batch[i].from = p
  PROVE  LET others == ShipsOf(batch, {j \in DOMAIN batch \ {i} : batch[j].from = p}) IN
         others \in Nat /\ Used(batch, p) = others + batch[i].ships
<1> DEFINE J == {j \in DOMAIN batch \ {i} : batch[j].from = p}
<1>1. DOMAIN batch = 1 .. Len(batch) /\ Len(batch) \in Nat
      /\ \A j \in 1 .. Len(batch) : batch[j] \in Launch
  BY LenProperties, ElementOfSeq
<1>2. {j \in DOMAIN batch : batch[j].from = p} = J \cup {i} /\ i \notin J /\ J \in SUBSET DOMAIN batch
  OBVIOUS
<1>3. \A j \in J \cup {i} : batch[j].ships \in Nat
  BY <1>1 DEF Launch
<1>4. IsFiniteSet(DOMAIN batch)
  BY <1>1, FS_Interval
<1>5. IsFiniteSet(J)
  BY <1>2, <1>4, FS_Subset
<1> HIDE DEF J
<1>6. ShipsOf(batch, J \cup {i}) = ShipsOf(batch, J) + batch[i].ships
  BY <1>2, <1>3, <1>5, ShipsOfMore
<1>7. ShipsOf(batch, J) \in Nat
  BY <1>3, <1>5, ShipsOfNumber
<1> QED
  BY <1>2, <1>6, <1>7 DEF Used, J

LEMMA DraftChanges ==
  ASSUME EngineInv, ~ done, EditDraft, draft' \in Seq(Launch), Len(draft') <= MaxQueue,
         Fits(draft', planets, 0)
  PROVE  EngineInv'
BY DEF EngineInv, EditDraft, TypeOK, DraftFits, CometInTime, EndsInTime, OutcomeFits

LEMMA QueueKeeps ==
  ASSUME EngineInv, ~ done, NEW p \in DOMAIN planets, NEW n \in 1 .. planets[p].ships,
         QueueLaunch(p, n)
  PROVE  EngineInv'
<1> DEFINE c == [from |-> p, ships |-> n]
<1>1. TypeOK /\ Fits(draft, planets, 0)
  BY DEF EngineInv, DraftFits
<1>2. p \in Planet \cup {Comet} /\ planets[p].ships \in Nat /\ \A q \in DOMAIN planets : planets[q].ships \in Nat
  BY <1>1 DEF TypeOK, PlanetState
<1>3. n \in Nat \ {0}
  BY <1>2
<1>4. c \in Launch /\ c.from = p /\ c.ships = n
  BY <1>2, <1>3 DEF Launch
<1>5. draft \in Seq(Launch) /\ DOMAIN draft = 1 .. Len(draft) /\ Len(draft) \in Nat
  BY <1>1, LenProperties DEF TypeOK
<1>6. draft' = Append(draft, c) /\ planets[p].owner = 0 /\ Len(draft) < MaxQueue
      /\ Queued(p, 0) + n <= planets[p].ships /\ EditDraft
  BY DEF QueueLaunch
<1> HIDE DEF c
<1>7. draft' \in Seq(Launch) /\ Len(draft') = Len(draft) + 1
      /\ DOMAIN draft' = 1 .. Len(draft) + 1 /\ draft'[Len(draft) + 1] = c
      /\ \A i \in 1 .. Len(draft) : draft'[i] = draft[i]
  BY <1>4, <1>5, <1>6, AppendProperties, LenProperties
<1>8. Queued(p, 0) = Used(draft, p)
  <2>1. DOMAIN draft \ {0} = DOMAIN draft
    BY <1>5
  <2> QED
    BY <2>1 DEF Queued, Used
<1>9. ASSUME NEW q \in DOMAIN planets PROVE Used(draft', q) <= planets[q].ships
  <2>1. Used(draft', q) = Used(draft, q) + (IF p = q THEN n ELSE 0)
    BY <1>4, <1>5, <1>6, UsedByMore
  <2>2. Used(draft, q) \in Nat /\ Used(draft, q) <= planets[q].ships
    BY <1>1, <1>5, UsedNumber DEF Fits
  <2> QED
    BY <1>2, <1>3, <1>6, <1>8, <2>1, <2>2
<1>10. ASSUME NEW i \in DOMAIN draft'
       PROVE  draft'[i].from \in DOMAIN planets /\ planets[draft'[i].from].owner = 0 /\ draft'[i].ships # 0
  <2>1. CASE i = Len(draft) + 1
    BY <1>3, <1>4, <1>6, <1>7, <2>1
  <2>2. CASE i # Len(draft) + 1
    <3>1. i \in DOMAIN draft /\ draft'[i] = draft[i]
      BY <1>5, <1>7, <2>2
    <3> QED
      BY <1>1, <3>1 DEF Fits
  <2> QED
    BY <2>1, <2>2
<1>11. Fits(draft', planets, 0)
  BY <1>9, <1>10 DEF Fits
<1>12. Len(draft') <= MaxQueue
  BY <1>5, <1>6, <1>7, EngineRulesAssumption
<1> QED
  BY <1>6, <1>7, <1>11, <1>12, DraftChanges

LEMMA UpdateKeeps ==
  ASSUME EngineInv, ~ done, NEW i \in DOMAIN draft, NEW n \in 0 .. HomeShips + 1, UpdateLaunch(i, n)
  PROVE  EngineInv'
<1> DEFINE p == draft[i].from
           left == AtLeastOne(planets[p].ships - Queued(p, i))
           m == AtLeastOne(IF n > left THEN left ELSE n)
<1>1. TypeOK /\ Fits(draft, planets, 0)
  BY DEF EngineInv, DraftFits
<1>2. draft \in Seq(Launch) /\ DOMAIN draft = 1 .. Len(draft) /\ Len(draft) \in Nat
      /\ \A j \in 1 .. Len(draft) : draft[j] \in Launch
  BY <1>1, LenProperties, ElementOfSeq DEF TypeOK
<1>3. p \in DOMAIN planets /\ planets[p].owner = 0 /\ draft[i].ships \in Nat \ {0}
  BY <1>1, <1>2 DEF Fits, Launch
<1>4. \A q \in DOMAIN planets : planets[q].ships \in Nat /\ Used(draft, q) <= planets[q].ships
  BY <1>1 DEF TypeOK, PlanetState, Fits
<1>5. Queued(p, i) \in Nat /\ Used(draft, p) = Queued(p, i) + draft[i].ships
  BY <1>2, UsedByOne DEF Queued
<1>6. draft' = [draft EXCEPT ![i].ships = m] /\ EditDraft
  BY Zenon DEF UpdateLaunch
<1>7. planets[p].ships - Queued(p, i) >= 1
  BY <1>3, <1>4, <1>5
<1>8. m \in Nat \ {0} /\ m <= planets[p].ships - Queued(p, i)
  <2>1. n \in Int /\ planets[p].ships \in Nat
    BY <1>3, <1>4, EngineRulesAssumption
  <2>2. left = planets[p].ships - Queued(p, i)
    BY <1>5, <1>7, <2>1 DEF AtLeastOne
  <2> HIDE DEF left, p
  <2> QED
    BY <1>5, <1>7, <2>1, <2>2 DEF AtLeastOne
<1> DEFINE c == [draft[i] EXCEPT !.ships = m]
<1>9. c \in Launch /\ c.from = p /\ c.ships = m
  BY <1>2, <1>8 DEF Launch
<1>10. draft' = [draft EXCEPT ![i] = c]
  BY <1>6
<1> HIDE DEF c, m, left
<1>11. draft' \in Seq(Launch) /\ Len(draft') = Len(draft) /\ DOMAIN draft' = DOMAIN draft
       /\ draft'[i] = c /\ \A j \in DOMAIN draft \ {i} : draft'[j] = draft[j]
  BY <1>2, <1>9, <1>10, ExceptSeq, LenProperties
<1>12. \A j \in DOMAIN draft : draft'[j].from = draft[j].from
  BY <1>9, <1>11
<1>13. ASSUME NEW q \in DOMAIN planets PROVE Used(draft', q) <= planets[q].ships
  <2>1. CASE q = p
    <3> DEFINE J == {j \in DOMAIN draft \ {i} : draft[j].from = p}
    <3>1. {j \in DOMAIN draft' \ {i} : draft'[j].from = p} = J
          /\ \A j \in J : draft'[j].ships = draft[j].ships
      BY <1>11, <1>12
    <3> HIDE DEF J
    <3>2. ShipsOf(draft', J) = ShipsOf(draft, J)
      BY <3>1, ShipsOfSame
    <3>3. Used(draft', p) = ShipsOf(draft', J) + draft'[i].ships
      BY <1>9, <1>11, <3>1, UsedByOne
    <3>4. Queued(p, i) = ShipsOf(draft, J)
      BY DEF Queued, J
    <3>5. planets[q].ships \in Nat
      BY <1>4
    <3> QED
      BY <1>5, <1>8, <1>9, <1>11, <2>1, <3>2, <3>3, <3>4, <3>5
  <2>2. CASE q # p
    <3> DEFINE J == {j \in DOMAIN draft : draft[j].from = q}
    <3>1. {j \in DOMAIN draft' : draft'[j].from = q} = J /\ \A j \in J : draft'[j].ships = draft[j].ships
      BY <1>11, <1>12, <2>2
    <3> HIDE DEF J
    <3>2. ShipsOf(draft', J) = ShipsOf(draft, J)
      BY <3>1, ShipsOfSame
    <3>3. Used(draft', q) = Used(draft, q)
      BY <3>1, <3>2 DEF Used, J
    <3> QED
      BY <1>4, <3>3
  <2> QED
    BY <2>1, <2>2
<1>14. ASSUME NEW j \in DOMAIN draft'
       PROVE  draft'[j].from \in DOMAIN planets /\ planets[draft'[j].from].owner = 0 /\ draft'[j].ships # 0
  <2>1. CASE j = i
    BY <1>3, <1>8, <1>9, <1>11, <2>1
  <2>2. CASE j # i
    BY <1>1, <1>11, <2>2 DEF Fits
  <2> QED
    BY <2>1, <2>2
<1>15. Fits(draft', planets, 0)
  BY <1>13, <1>14 DEF Fits
<1>16. Len(draft') <= MaxQueue
  BY <1>1, <1>11 DEF TypeOK
<1> QED
  BY <1>6, <1>11, <1>15, <1>16, DraftChanges

\* A queue without one of its launches.
LEMMA RemovedIs ==
  ASSUME NEW batch \in Seq(Launch), NEW i \in DOMAIN batch
  PROVE  /\ RemoveAt(batch, i) \in Seq(Launch)
         /\ Len(RemoveAt(batch, i)) = Len(batch) - 1
         /\ \A j \in 1 .. Len(batch) - 1 :
              RemoveAt(batch, i)[j] = batch[IF j < i THEN j ELSE j + 1]
<1> DEFINE s == SubSeq(batch, 1, i - 1)
           t == SubSeq(batch, i + 1, Len(batch))
<1>1. DOMAIN batch = 1 .. Len(batch) /\ Len(batch) \in Nat
      /\ \A j \in 1 .. Len(batch) : batch[j] \in Launch
  BY LenProperties, ElementOfSeq
<1>2. i \in Nat /\ 1 <= i /\ i <= Len(batch)
  BY <1>1
<1>3. s \in Seq(Launch) /\ Len(s) = i - 1 /\ \A j \in 1 .. i - 1 : s[j] = batch[j]
  <2>1. \A j \in 1 .. i - 1 : batch[j] \in Launch
    BY <1>1, <1>2
  <2>2. 1 \in Int /\ i - 1 \in Int
    BY <1>2
  <2>3. /\ s \in Seq(Launch) /\ Len(s) = (IF 1 <= i - 1 THEN (i - 1) - 1 + 1 ELSE 0)
        /\ \A j \in 1 .. (i - 1) - 1 + 1 : s[j] = batch[1 + j - 1]
    BY <2>1, <2>2, SubSeqProperties
  <2> HIDE DEF s
  <2> QED
    BY <1>2, <2>3
<1>4. t \in Seq(Launch) /\ Len(t) = Len(batch) - i /\ \A j \in 1 .. Len(batch) - i : t[j] = batch[i + j]
  <2>1. \A j \in i + 1 .. Len(batch) : batch[j] \in Launch
    BY <1>1, <1>2
  <2>2. i + 1 \in Int /\ Len(batch) \in Int
    BY <1>1, <1>2
  <2>3. /\ t \in Seq(Launch) /\ Len(t) = (IF i + 1 <= Len(batch) THEN Len(batch) - (i + 1) + 1 ELSE 0)
        /\ \A j \in 1 .. Len(batch) - (i + 1) + 1 : t[j] = batch[(i + 1) + j - 1]
    BY <2>1, <2>2, SubSeqProperties
  <2> HIDE DEF t
  <2>4. \A j \in 1 .. Len(batch) - i : (i + 1) + j - 1 = i + j
    BY <1>1, <1>2
  <2> QED
    BY <1>1, <1>2, <2>3, <2>4
<1>5. RemoveAt(batch, i) = s \o t
  BY DEF RemoveAt
<1> HIDE DEF s, t
<1>6. /\ s \o t \in Seq(Launch) /\ Len(s \o t) = Len(s) + Len(t)
      /\ \A j \in 1 .. Len(s) + Len(t) : (s \o t)[j] = IF j <= Len(s) THEN s[j] ELSE t[j - Len(s)]
  BY <1>3, <1>4, ConcatProperties
<1>7. Len(s \o t) = Len(batch) - 1
  BY <1>1, <1>2, <1>3, <1>4, <1>6
<1>8. ASSUME NEW j \in 1 .. Len(batch) - 1
      PROVE  (s \o t)[j] = batch[IF j < i THEN j ELSE j + 1]
  <2>1. j \in 1 .. Len(s) + Len(t)
    BY <1>1, <1>2, <1>3, <1>4
  <2>2. CASE j < i
    <3>1. j <= Len(s) /\ j \in 1 .. i - 1
      BY <1>1, <1>2, <1>3, <2>2
    <3> QED
      BY <1>3, <1>6, <2>1, <2>2, <3>1
  <2>3. CASE ~ (j < i)
    <3>1. ~ (j <= Len(s)) /\ j - Len(s) \in 1 .. Len(batch) - i /\ i + (j - Len(s)) = j + 1
      BY <1>1, <1>2, <1>3, <2>3
    <3>2. (s \o t)[j] = t[j - Len(s)]
      BY <1>6, <2>1, <3>1
    <3>3. t[j - Len(s)] = batch[i + (j - Len(s))]
      BY <1>4, <3>1
    <3> QED
      BY <2>3, <3>1, <3>2, <3>3
  <2> QED
    BY <2>2, <2>3
<1> QED
  BY <1>5, <1>6, <1>7, <1>8

LEMMA RemoveKeeps ==
  ASSUME EngineInv, ~ done, NEW i \in DOMAIN draft, RemoveLaunch(i)
  PROVE  EngineInv'
<1> DEFINE at == [j \in 1 .. Len(draft) - 1 |-> IF j < i THEN j ELSE j + 1]
<1>1. TypeOK /\ Fits(draft, planets, 0)
  BY DEF EngineInv, DraftFits
<1>2. draft \in Seq(Launch) /\ DOMAIN draft = 1 .. Len(draft) /\ Len(draft) \in Nat
      /\ \A j \in 1 .. Len(draft) : draft[j] \in Launch
  BY <1>1, LenProperties, ElementOfSeq DEF TypeOK
<1>3. draft' = RemoveAt(draft, i) /\ EditDraft
  BY DEF RemoveLaunch
<1>4. draft' \in Seq(Launch) /\ Len(draft') = Len(draft) - 1 /\ DOMAIN draft' = 1 .. Len(draft) - 1
      /\ \A j \in 1 .. Len(draft) - 1 : draft'[j] = draft[at[j]]
  BY <1>2, <1>3, RemovedIs, LenProperties
<1>5. \A j \in DOMAIN draft' : at[j] \in DOMAIN draft
  BY <1>2, <1>4
<1>6. \A j, k \in DOMAIN draft' : at[j] = at[k] => j = k
  BY <1>2, <1>4
<1>7. \A j \in DOMAIN draft' : draft'[j] = draft[at[j]]
  BY <1>4
<1>8. IsFiniteSet(DOMAIN draft) /\ IsFiniteSet(DOMAIN draft')
  BY <1>2, <1>4, FS_Interval
<1> HIDE DEF at
<1>9. ASSUME NEW q \in DOMAIN planets PROVE Used(draft', q) <= planets[q].ships
  <2> DEFINE J == {j \in DOMAIN draft' : draft'[j].from = q}
             K == {j \in DOMAIN draft : draft[j].from = q}
             L == {at[j] : j \in J}
  <2>1. L \in SUBSET K
    BY <1>5, <1>7
  <2>2. IsFiniteSet(J) /\ IsFiniteSet(K)
    BY <1>8, FS_Subset
  <2>3. \A j \in K : draft[j].ships \in Nat
    BY <1>2 DEF Launch
  <2>4. \A j \in J : draft'[j].ships \in Nat /\ draft'[j].ships = draft[at[j]].ships
    BY <1>2, <1>5, <1>7 DEF Launch
  <2>5. \A j, k \in J : at[j] = at[k] => j = k
    BY <1>6
  <2>6. Used(draft', q) = ShipsOf(draft', J) /\ Used(draft, q) = ShipsOf(draft, K)
    BY DEF Used
  <2> HIDE DEF J, K
  <2>7. ShipsOf(draft', J) = ShipsOf(draft, L)
    BY <2>2, <2>4, <2>5, ShipsOfRenumbered
  <2>8. ShipsOf(draft, L) \in Nat /\ ShipsOf(draft, L) <= ShipsOf(draft, K)
    BY <2>1, <2>2, <2>3, ShipsOfPart
  <2>9. Used(draft, q) <= planets[q].ships /\ planets[q].ships \in Nat /\ Used(draft, q) \in Nat
    BY <1>1, <1>2, UsedNumber DEF Fits, TypeOK, PlanetState
  <2> QED
    BY <2>6, <2>7, <2>8, <2>9
<1>10. ASSUME NEW j \in DOMAIN draft'
       PROVE  draft'[j].from \in DOMAIN planets /\ planets[draft'[j].from].owner = 0 /\ draft'[j].ships # 0
  <2>1. draft'[j] = draft[at[j]] /\ at[j] \in DOMAIN draft
    BY <1>5, <1>7
  <2> QED
    BY <1>1, <2>1 DEF Fits
<1>11. Fits(draft', planets, 0)
  BY <1>9, <1>10 DEF Fits
<1>12. Len(draft') <= MaxQueue
  <2>1. Len(draft) <= MaxQueue /\ MaxQueue \in Nat
    BY <1>1, EngineRulesAssumption DEF TypeOK
  <2> QED
    BY <1>2, <1>4, <2>1
<1> QED
  BY <1>3, <1>4, <1>11, <1>12, DraftChanges

LEMMA EditKeeps ==
  ASSUME EngineInv, ~ done, Edit
  PROVE  EngineInv'
<1>1. CASE ClearDraft
  <2>1. planets \in [DOMAIN planets -> PlanetState]
    BY DEF EngineInv, TypeOK
  <2>2. Fits(<<>>, planets, 0)
    BY <2>1, NothingFits
  <2>3. draft' = <<>> /\ EditDraft
    BY <1>1 DEF ClearDraft
  <2>4. <<>> \in Seq(Launch) /\ Len(<<>>) <= MaxQueue
    BY EngineRulesAssumption
  <2> QED
    BY <2>2, <2>3, <2>4, DraftChanges
<1>2. ASSUME NEW p \in DOMAIN planets, NEW n \in 1 .. planets[p].ships, QueueLaunch(p, n)
      PROVE  EngineInv'
  BY <1>2, QueueKeeps
<1>3. ASSUME NEW i \in DOMAIN draft, NEW n \in 0 .. HomeShips + 1, UpdateLaunch(i, n)
      PROVE  EngineInv'
  BY <1>3, UpdateKeeps
<1>4. ASSUME NEW i \in DOMAIN draft, RemoveLaunch(i) PROVE EngineInv'
  BY <1>4, RemoveKeeps
<1> QED
  BY <1>1, <1>2, <1>3, <1>4, Zenon DEF Edit

-----------------------------------------------------------------------------
LEMMA EngineInit == Init => EngineInv
<1> SUFFICES ASSUME Init PROVE EngineInv
  OBVIOUS
<1>1. PICK g \in 1 .. MaxGarrison :
        planets = [p \in Planet |->
          IF p = Home0 THEN [owner |-> 0, ships |-> HomeShips]
          ELSE IF p = Home1 THEN [owner |-> 1, ships |-> HomeShips]
          ELSE [owner |-> Neutral, ships |-> g]]
  BY DEF Init
<1>2. g \in Nat /\ HomeShips \in Nat /\ MaxQueue \in Nat /\ EpisodeSteps \in Nat /\ EpisodeSteps >= 2
      /\ CometLife \in Nat \ {0}
  BY EngineRulesAssumption
<1>3. planets \in [Planet -> PlanetState]
  BY <1>1, <1>2 DEF PlanetState, Player, Neutral
<1>4. /\ step = 0 /\ fleets = {} /\ next = 0 /\ comet = Absent /\ done = FALSE
      /\ rewards = [o \in Player |-> 0] /\ draft = <<>> /\ skipped = 0
  BY DEF Init
<1>5. DraftFits
  BY <1>3, <1>4, NothingFits DEF DraftFits
<1>6. CometInTime /\ EndsInTime /\ OutcomeFits
  BY <1>2, <1>4 DEF CometInTime, EndsInTime, OutcomeFits
<1>7. rewards \in [Player -> {-1, 0, 1}] /\ (done <=> \A o \in Player : rewards[o] # 0)
  BY <1>4 DEF Player
<1>8. IsFiniteSet(fleets) /\ fleets \subseteq Fleet
  BY <1>4, FS_EmptySet
<1>9. draft \in Seq(Launch) /\ Len(draft) = 0
  BY <1>4
<1>10. comet \in Absent .. CometLife - 1 /\ step \in 0 .. EpisodeSteps - 1
  BY <1>2, <1>4 DEF Absent
<1>11. planets \in [IF comet = Absent THEN Planet ELSE Planet \cup {Comet} -> PlanetState]
  BY <1>3, <1>4
<1>12. next \in Nat /\ skipped \in Int /\ Len(draft) <= MaxQueue
  BY <1>2, <1>4, <1>9
<1>13. \A f, h \in fleets : (f.id = h.id => f = h) /\ f.id < next
  BY <1>4
<1>14. done \in BOOLEAN
  BY <1>4, Zenon
<1>15. TypeOK
  BY <1>7, <1>8, <1>9, <1>10, <1>11, <1>12, <1>13, <1>14 DEF TypeOK
<1> QED
  BY <1>4, <1>5, <1>6, <1>15 DEF EngineInv

LEMMA EngineStutters ==
  ASSUME EngineInv, UNCHANGED vars
  PROVE  EngineInv'
BY DEF EngineInv, TypeOK, DraftFits, CometInTime, EndsInTime, OutcomeFits, vars

LEMMA EngineInvariant == Spec => []EngineInv
<1>1. EngineInv /\ [Next]_vars => EngineInv'
  BY EditKeeps, StepKeeps, EngineStutters DEF Next
<1> QED
  BY <1>1, EngineInit, PTL DEF Spec

-----------------------------------------------------------------------------
\* Engine types.  The board, the fleets, the comet and the rewards have their types,
\* fleets have ids of their own, and a match is over when its rewards are set
\* (_pinned_kernel.interpreter).
THEOREM EngineTyped == Spec => []TypeOK
<1>1. EngineInv => TypeOK
  BY DEF EngineInv
<1> QED
  BY <1>1, EngineInvariant, PTL

\* One budget.  What the page lets a player queue passes the worker's check, and a
\* batch that passes it is launched in full by the kernel, whatever comet enters or
\* leaves at that moment (battle.ts, validate_command_batch, process_moves).
THEOREM LaunchesAreCounted == Spec => []BatchesLaunchInFull
<1>1. EngineInv => BatchesLaunchInFull
  BY DEF EngineInv, BatchesLaunchInFull, DraftFits, Fits, Valid, Used
<1> QED
  BY <1>1, EngineInvariant, PTL

\* The outcome.  The winner has more ships than the other player on the last board,
\* and a match that ends before the limit ends with one player at most
\* (_pinned_kernel.interpreter, rewards).
THEOREM OutcomeIsRight == Spec => []OutcomeFits
<1>1. EngineInv => OutcomeFits
  BY DEF EngineInv
<1> QED
  BY <1>1, EngineInvariant, PTL

\* Nothing from nothing.  No step gives a player more ships than the planets he had
\* produce (_pinned_kernel.interpreter, production and combat).
THEOREM ShipsAreProduced == Spec => NoFreeShips
<1> DEFINE Bounded ==
      \A o \in Player :
        Score(planets', fleets', o) <=
          Score(planets, fleets, o)
          + Production * Cardinality({p \in DOMAIN planets : planets[p].owner = o})
<1>1. EngineInv /\ [Next]_vars => [Bounded]_vars
  <2> SUFFICES ASSUME EngineInv, Next PROVE Bounded
    OBVIOUS
  <2> SUFFICES ASSUME NEW o \in Player
               PROVE  Score(planets', fleets', o) <=
                        Score(planets, fleets, o) + Production * Cardinality(Owned(planets, o))
    BY DEF Owned
  <2>1. CASE EngineStep
    <3>1. TypeOK /\ CometInTime
      BY DEF EngineInv
    <3> QED
      BY <2>1, <3>1, StepIs, PlayedBoard
  <2>2. CASE ~ done /\ Edit
    <3>1. planets' = planets /\ fleets' = fleets
      BY <2>2 DEF Edit, ClearDraft, QueueLaunch, UpdateLaunch, RemoveLaunch, EditDraft
    <3> DEFINE D == DOMAIN planets
    <3>2. IsFiniteSet(D) /\ planets \in [D -> PlanetState] /\ IsFiniteSet(fleets) /\ fleets \subseteq Fleet
      BY EngineRulesAssumption, FS_AddElement DEF EngineInv, TypeOK
    <3>3. Owned(planets, o) \in SUBSET D
      BY DEF Owned
    <3> HIDE DEF D
    <3>4. Score(planets, fleets, o) \in Nat
      BY <3>2, ScoreNumber
    <3>5. Production * Cardinality(Owned(planets, o)) \in Nat
      BY <3>2, <3>3, FS_Subset, FS_CardinalityType, EngineRulesAssumption
    <3> QED
      BY <3>1, <3>4, <3>5
  <2> QED
    BY <2>1, <2>2 DEF Next
<1> QED
  BY <1>1, EngineInvariant, PTL DEF Spec, NoFreeShips
=============================================================================
