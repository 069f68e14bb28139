---------------------------- MODULE EngineRules ----------------------------
(***************************************************************************)
(* The rules of a two-player match as the pinned kernel plays them, from   *)
(* the batch a player puts together on the page to the outcome the worker  *)
(* records: the page's budget, the worker's check of a batch and the       *)
(* kernel's launches all count the same ships.                             *)
(*                                                                         *)
(* Where planets and fleets are is left out: a fleet that flies may hit    *)
(* any planet that can be hit, leave the board or be burnt, in any step.   *)
(* One planet stands for the four of a comet group, which share a path     *)
(* length; a group is gone before the next one enters.                     *)
(*                                                                         *)
(* A "variant of X" is a plausible slip in the code X models, which a run  *)
(* must catch; no specification uses it.                                   *)
(***************************************************************************)
EXTENDS Integers, Sequences, FiniteSets, SequencesExt

CONSTANTS
  Planet,        \* the planets of the map, two of them homes
  Home0, Home1,  \* the home planets of the players
  Comet,         \* the planet that comes and goes
  SpawnSteps,    \* the steps that begin with a comet (50, 150, ... in the code)
  CometLife,     \* the length of its path (5 to 40 in the code)
  EpisodeSteps,  \* 500 in the code
  HomeShips,     \* 10 in the code
  MaxGarrison,   \* bound: ships of a neutral planet or comet at first (99)
  Production,    \* of every planet (1 to 5 by planet in the code)
  MaxQueue,      \* launches on the page (6 in the code)
  MaxFlying,     \* bound: fleets in flight after a step (none in the code)
  MaxBatch,      \* bound: launches of a batch that is not the page's (none in the code)
  MaxShips       \* bound: ships of such a launch (none in the code)

Player == {0, 1}
Neutral == -1

ASSUME EngineRulesAssumption ==
  /\ IsFiniteSet(Planet) /\ {Home0, Home1} \subseteq Planet /\ Home0 # Home1
  /\ Comet \notin Planet /\ {"flies", "gone"} \cap (Planet \cup {Comet}) = {}
  /\ SpawnSteps \subseteq Nat /\ \A s, t \in SpawnSteps : s < t => t - s > CometLife
  /\ CometLife \in Nat \ {0} /\ EpisodeSteps \in Nat /\ EpisodeSteps >= 2
  /\ {HomeShips, MaxGarrison, Production, MaxQueue, MaxFlying} \subseteq Nat \ {0}
  /\ MaxBatch \in Nat /\ MaxShips \in Nat

VARIABLES
  step,
  planets,  \* the planets on the board: owner and ships
  fleets,   \* the fleets in flight
  next,     \* next_fleet_id
  comet,    \* path_index of the comet, Absent without one
  done,
  rewards,
  draft,    \* the launches pending on the page of player 0, a human
  skipped   \* history: commands of a validated batch that the kernel skipped

vars == <<step, planets, fleets, next, comet, done, rewards, draft, skipped>>

Absent == -1
PlanetState == [owner : Player \cup {Neutral}, ships : Nat]
Launch == [from : Planet \cup {Comet}, ships : Nat]
Fleet == [id : Nat, owner : Player, ships : Nat \ {0}]

TypeOK ==
  /\ step \in 0 .. EpisodeSteps - 1
  /\ planets \in [IF comet = Absent THEN Planet ELSE Planet \cup {Comet} -> PlanetState]
  /\ fleets \subseteq Fleet /\ IsFiniteSet(fleets) /\ next \in Nat
  /\ \A f, g \in fleets : f.id = g.id => f = g
  /\ \A f \in fleets : f.id < next
  /\ comet \in Absent .. CometLife - 1
  /\ done \in BOOLEAN /\ (done <=> \A o \in Player : rewards[o] # 0)
  /\ rewards \in [Player -> {-1, 0, 1}]
  /\ draft \in Seq(Launch) /\ Len(draft) <= MaxQueue
  /\ skipped \in Int

Init ==
  /\ step = 0
  /\ \E g \in 1 .. MaxGarrison :
       planets = [p \in Planet |->
         IF p = Home0 THEN [owner |-> 0, ships |-> HomeShips]
         ELSE IF p = Home1 THEN [owner |-> 1, ships |-> HomeShips]
         ELSE [owner |-> Neutral, ships |-> g]]
  /\ fleets = {} /\ next = 0 /\ comet = Absent
  /\ done = FALSE /\ rewards = [o \in Player |-> 0]
  /\ draft = <<>> /\ skipped = 0

\* The ships of S, counted one by one.
SumShips(S) == Cardinality(UNION {{s} \X (1 .. s.ships) : s \in S})

\* The ships of the launches J of a batch or of the planets J of a board.
ShipsOf(f, J) == SumShips({[id |-> j, ships |-> f[j].ships] : j \in J})

-----------------------------------------------------------------------------
(* The page.                                                                *)

\* queuedShipsForPlanet, without the launch at index i.
Queued(p, i) == ShipsOf(draft, {j \in DOMAIN draft \ {i} : draft[j].from = p})

EditDraft == UNCHANGED <<step, planets, fleets, next, comet, done, rewards, skipped>>

\* selectPlanet, setShips and queueLaunch: an owned planet, at least one ship, and
\* no more than the planet still has.
QueueLaunch(p, n) ==
  /\ planets[p].owner = 0
  /\ Len(draft) < MaxQueue
  /\ Queued(p, 0) + n <= planets[p].ships
  /\ draft' = Append(draft, [from |-> p, ships |-> n])
  /\ EditDraft

\* A variant of UpdateLaunch that counts the launch it changes twice.
UpdateLaunchLoose(i, n) ==
  /\ draft' = [draft EXCEPT ![i].ships = n]
  /\ n <= planets[draft[i].from].ships
  /\ EditDraft

AtLeastOne(n) == IF n < 1 THEN 1 ELSE n

\* updateQueuedLaunch: any number is brought between one and what is left.
UpdateLaunch(i, n) ==
  LET p == draft[i].from
      left == AtLeastOne(planets[p].ships - Queued(p, i))
  IN /\ draft' = [draft EXCEPT ![i].ships = AtLeastOne(IF n > left THEN left ELSE n)]
     /\ EditDraft

RemoveLaunch(i) == draft' = RemoveAt(draft, i) /\ EditDraft

\* Backspace on the page.
ClearDraft == draft' = <<>> /\ EditDraft

Edit ==
  \/ ClearDraft
  \/ \E p \in DOMAIN planets : \E n \in 1 .. planets[p].ships : QueueLaunch(p, n)
  \/ \E i \in DOMAIN draft, n \in 0 .. HomeShips + 1 : UpdateLaunch(i, n)
  \/ \E i \in DOMAIN draft : RemoveLaunch(i)

-----------------------------------------------------------------------------
(* The worker's check: validate_command_batch.                              *)

Valid(batch, slot) ==
  \A i \in DOMAIN batch :
    LET p == batch[i].from IN
    /\ p \in DOMAIN planets
    /\ planets[p].owner = slot
    /\ ShipsOf(batch, {j \in DOMAIN batch : batch[j].from = p}) <= planets[p].ships

-----------------------------------------------------------------------------
(* The kernel.                                                              *)

Without(board, S) == [p \in DOMAIN board \ S |-> board[p]]

\* Comets whose path is over leave before anyone launches.
CometsLeft == IF comet >= CometLife THEN Without(planets, {Comet}) ELSE planets

\* A comet enters with its garrison, 0 if no path was found for one.
Spawn(board, garrison) ==
  IF garrison = 0 THEN board
  ELSE [p \in DOMAIN board \cup {Comet} |->
          IF p = Comet THEN [owner |-> Neutral, ships |-> garrison] ELSE board[p]]

\* A variant of LaunchOne that does not look how many ships are there.
LaunchOneUnchecked(game, slot, c) ==
  IF c.from \in DOMAIN game.planets /\ game.planets[c.from].owner = slot /\ c.ships > 0
  THEN [planets |-> [game.planets EXCEPT ![c.from].ships = @ - c.ships],
        fleets |-> game.fleets \cup {[id |-> game.next, owner |-> slot, ships |-> c.ships]},
        next |-> game.next + 1]
  ELSE game

\* A launch from a planet that the player has, with ships that are there; any
\* other is skipped.
LaunchOne(game, slot, c) ==
  IF c.from \in DOMAIN game.planets /\ game.planets[c.from].owner = slot
     /\ c.ships > 0 /\ game.planets[c.from].ships >= c.ships
  THEN [planets |-> [game.planets EXCEPT ![c.from].ships = @ - c.ships],
        fleets |-> game.fleets \cup {[id |-> game.next, owner |-> slot, ships |-> c.ships]},
        next |-> game.next + 1]
  ELSE game

\* The game after all commands of a batch, one after the other.
ProcessMoves(game, slot, batch) ==
  LET after[i \in 0 .. Len(batch)] ==
        IF i = 0 THEN game ELSE LaunchOne(after[i - 1], slot, batch[i])
  IN after[Len(batch)]

Produce(board) ==
  [p \in DOMAIN board |->
     IF board[p].owner = Neutral THEN board[p] ELSE [board[p] EXCEPT !.ships = @ + Production]]

\* What the stronger force has left joins the garrison or fights it, and takes the
\* planet only with a ship to spare.
Combat(planet, f0, f1) ==
  LET s == IF f0 > f1 THEN f0 - f1 ELSE f1 - f0
      winner == IF f0 > f1 THEN 0 ELSE 1
  IN IF s = 0 THEN planet
     ELSE IF planet.owner = winner THEN [planet EXCEPT !.ships = @ + s]
     ELSE IF planet.ships >= s THEN [planet EXCEPT !.ships = @ - s]
     ELSE [owner |-> winner, ships |-> s - planet.ships]

\* A variant of Advanced that leaves a comet on the board when its path is over.
AdvancedLate(spawned) ==
  IF spawned THEN 0 ELSE IF comet = Absent \/ comet >= CometLife THEN Absent ELSE comet + 1

\* The comet's path_index after this step, Absent if the path is over.
Advanced(spawned) ==
  IF spawned THEN 0
  ELSE IF comet = Absent \/ comet + 1 >= CometLife THEN Absent ELSE comet + 1

\* By owner: the ships on planets and in flight.
Score(board, flying, o) ==
  ShipsOf(board, {p \in DOMAIN board : board[p].owner = o}) + SumShips({f \in flying : f.owner = o})

Alive(board, flying) ==
  ({board[p].owner : p \in DOMAIN board} \cup {f.owner : f \in flying}) \ {Neutral}

\* A variant of Rewards that pays for survival.
RewardsAlive(board, flying) ==
  [o \in Player |-> IF o \in Alive(board, flying) THEN 1 ELSE -1]

Rewards(board, flying) ==
  [o \in Player |->
     LET mine == Score(board, flying, o) IN
     IF mine > 0 /\ mine >= Score(board, flying, 1 - o) THEN 1 ELSE -1]

\* The rest of a step, once both players have launched: planets produce, fleets fly
\* and fight, comets leave, and the match may be over.  fate says for each fleet what
\* it hits, if anything; a comet cannot be hit in the step it enters.
Play(launched, entered) ==
  LET grown == Produce(launched.planets)
      hittable == IF entered THEN DOMAIN grown \ {Comet} ELSE DOMAIN grown
      board == IF Advanced(entered) = Absent THEN Without(grown, {Comet}) ELSE grown
  IN \E fate \in [launched.fleets -> hittable \cup {"flies", "gone"}] :
       LET Force(o, p) == SumShips({f \in launched.fleets : fate[f] = p /\ f.owner = o}) IN
       /\ fleets' = {f \in launched.fleets : fate[f] = "flies"}
       /\ Cardinality(fleets') <= MaxFlying
       /\ planets' = [p \in DOMAIN board |-> Combat(board[p], Force(0, p), Force(1, p))]
       /\ next' = launched.next
       /\ comet' = Advanced(entered)
       /\ done' = (step >= EpisodeSteps - 2 \/ Cardinality(Alive(planets', fleets')) <= 1)
       /\ rewards' = IF done' THEN Rewards(planets', fleets') ELSE rewards

\* The game when the launches begin.
Start(garrison) == [planets |-> Spawn(CometsLeft, garrison), fleets |-> fleets, next |-> next]

\* The batches an agent or a client other than the page may send: any planets, his
\* own or not, several launches from one, more ships than there are.
Batches == BoundedSeq([from : Planet \cup {Comet}, ships : 1 .. MaxShips], MaxBatch)

\* The worker takes the batch of player 0, the page's or that of a client without one,
\* if it came in time and is valid, else an empty one; the agent of player 1 is
\* believed without a check.  The new frame clears the draft.
EngineStep ==
  /\ ~ done
  /\ \E human \in {<<>>} \cup {b \in IF draft = <<>> THEN Batches ELSE {draft} : Valid(b, 0)},
        garrison \in IF step + 1 \in SpawnSteps THEN 0 .. MaxGarrison ELSE {0} :
       LET moved == ProcessMoves(Start(garrison), 0, human) IN
       /\ \E launched \in {ProcessMoves(moved, 1, agent) : agent \in Batches} :
            Play(launched, garrison > 0)
       /\ skipped' = skipped + Len(human) - (moved.next - next)
  /\ step' = step + 1
  /\ draft' = <<>>

-----------------------------------------------------------------------------
Next == (~ done /\ Edit) \/ EngineStep

Spec == Init /\ [][Next]_vars

-----------------------------------------------------------------------------
(* Properties.                                                              *)

\* The three places that count ships agree: what the page lets a player queue on
\* the board it shows passes the worker's check, and what passes it, from the page or
\* not, the kernel launches in full, whatever enters or leaves the board just then.
BatchesLaunchInFull == (~ done => Valid(draft, 0)) /\ skipped = 0

\* Nobody gains ships but by the production of the planets he had, whatever batches
\* are played: also an agent's that spends the ships of a planet twice.
NoFreeShips ==
  [][\A o \in Player :
       Score(planets', fleets', o) <=
         Score(planets, fleets, o)
         + Production * Cardinality({p \in DOMAIN planets : planets[p].owner = o})]_vars

\* The outcome the worker derives, a winner if exactly one reward is 1 and a reason
\* by the step, fits the board: the winner has more ships than the other, and a match
\* that ends before the limit ends because one of them has nothing left.
OutcomeFits ==
  done =>
    /\ \A o \in Player :
         rewards[o] = 1 /\ rewards[1 - o] = -1
           <=> Score(planets, fleets, o) > Score(planets, fleets, 1 - o)
    /\ step < EpisodeSteps - 1 => Cardinality(Alive(planets, fleets)) <= 1
=============================================================================
