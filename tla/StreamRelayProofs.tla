-------------------------- MODULE StreamRelayProofs --------------------------
(***************************************************************************)
(* Proofs about StreamRelay, for every set of cameras and of browsers,      *)
(* every cap on the delay and every bound.                                  *)
(***************************************************************************)
EXTENDS StreamRelay, TLAPS

(* The history variable never counts what the camera owes: it is 0 while    *)
(* there is video, while the relay is off and while no transport works.     *)
DarkResets ==
    \A r \in Relays :
        /\ ff[r] \in {"off", "streaming"} \/ works[r] = {} => dark[r] = 0
        /\ ff[r] \in {"off", "starting"} => wait[r] = 0

(* The budget behind DarkBounded: what has been waited and what is still to *)
(* be waited is at most one full delay when the next attempt is going to be *)
(* wasted, and at most two when it is not.                                  *)
DarkBudget ==
    \A r \in Relays :
        /\ ff[r] \in {"waiting", "starting"}
        /\ works[r] # {}
        => /\ dark[r] + wait[r] <= 2 * Cap
           /\ Transport(retry[r]) \notin works[r] => dark[r] + wait[r] <= Cap

IInv == TypeOK /\ DarkResets /\ DarkBudget

----------------------------------------------------------------------------
(* A retry takes the other transport, also where the model's retry counter  *)
(* wraps from Cap + 1 to Cap.                                               *)
LEMMA RetryAlternates ==
    ASSUME NEW n \in 0 .. Cap + 1
    PROVE  /\ Transport(Succ(n)) \in Transports
           /\ Transport(n) \in Transports
           /\ Transport(Succ(n)) # Transport(n)
           /\ Succ(n) \in 0 .. Cap + 1
  BY RelayBounds DEF Transport, Succ, Transports

(* min(3000 * (retry + 1), 30000) is a positive delay of at most the cap. *)
LEMMA DelayBounded ==
    ASSUME NEW n \in 0 .. Cap + 1
    PROVE  Delay(n) \in 1 .. Cap
  BY RelayBounds DEF Delay

(* Another transport than one that does not work does, if any does. *)
LEMMA OtherTransportWorks ==
    ASSUME NEW n \in 0 .. Cap + 1, NEW w \in SUBSET Transports,
           w # {}, Transport(n) \notin w
    PROVE  Transport(Succ(n)) \in w
  <1>1. /\ Transport(Succ(n)) \in Transports /\ Transport(n) \in Transports
        /\ Transport(Succ(n)) # Transport(n)
    BY RetryAlternates
  <1>2. PICK x \in w : TRUE
    OBVIOUS
  <1>3. x \in Transports /\ x # Transport(n)
    BY <1>2
  <1>4. x = Transport(Succ(n))
    BY <1>1, <1>3 DEF Transports
  <1> QED BY <1>2, <1>4

(* Type correctness is inductive. *)
LEMMA TypeStep ==
    ASSUME TypeOK, [Next]_vars
    PROVE  TypeOK'
  <1> USE RelayBounds
  <1>1. CASE UNCHANGED vars
    BY <1>1 DEF TypeOK, vars, procVars, sockVars, hostVars
  <1>2. CASE StartStreamRelay
    BY <1>2 DEF TypeOK, StartStreamRelay, hostVars, sockVars
  <1>3. ASSUME NEW r \in Relays, FFmpegStreams(r) PROVE TypeOK'
    BY <1>3 DEF TypeOK, FFmpegStreams, hostVars, sockVars
  <1>4. ASSUME NEW r \in Relays, FFmpegFails(r) PROVE TypeOK'
    <2>1. retry[r] \in 0 .. Cap + 1 BY DEF TypeOK
    <2>2. Delay(retry[r]) \in 0 .. Cap /\ Succ(retry[r]) \in 0 .. Cap + 1
      BY <2>1, RetryAlternates, DelayBounded
    <2> QED BY <1>4, <2>2 DEF TypeOK, FFmpegFails, Closed, hostVars, sockVars
  <1>5. ASSUME NEW r \in Relays, SpawnError(r) PROVE TypeOK'
    BY <1>5 DEF TypeOK, SpawnError, procVars, sockVars
  <1>6. ASSUME NEW r \in Relays, StreamBreaks(r) PROVE TypeOK'
    <2>1. retry[r] \in 0 .. Cap + 1 BY DEF TypeOK
    <2>2. Delay(retry[r]) \in 0 .. Cap /\ Succ(retry[r]) \in 0 .. Cap + 1
      BY <2>1, RetryAlternates, DelayBounded
    <2> QED BY <1>6, <2>2 DEF TypeOK, StreamBreaks, Closed, hostVars, sockVars
  <1>7. ASSUME NEW r \in Relays, Tick(r) PROVE TypeOK'
    <2>1. Darker(r) \in 0 .. 2 * Cap + 1 BY DEF TypeOK, Darker
    <2>2. wait[r] - 1 \in 0 .. Cap BY <1>7 DEF TypeOK, Tick
    <2> QED BY <1>7, <2>1, <2>2 DEF TypeOK, Tick, hostVars, sockVars
  <1>8. ASSUME NEW r \in Relays, SpawnFFmpeg(r) PROVE TypeOK'
    BY <1>8 DEF TypeOK, SpawnFFmpeg, hostVars, sockVars
  <1>9. ASSUME NEW r \in Relays, NEW t \in SUBSET Transports, CameraChanges(r, t)
        PROVE TypeOK'
    <2>1. retry[r] \in 0 .. Cap + 1 BY DEF TypeOK
    <2>2. Delay(retry[r]) \in 0 .. Cap /\ Succ(retry[r]) \in 0 .. Cap + 1
      BY <2>1, RetryAlternates, DelayBounded
    <2>3. /\ ff' \in [Relays -> {"off", "starting", "streaming", "waiting"}]
          /\ retry' \in [Relays -> 0 .. Cap + 1]
          /\ wait' \in [Relays -> 0 .. Cap]
      BY <1>9, <2>2 DEF TypeOK, CameraChanges, Closed, procVars
    <2>4. /\ works' \in [Relays -> SUBSET Transports]
          /\ dark' \in [Relays -> 0 .. 2 * Cap + 1]
          /\ changes' \in Nat
      BY <1>9 DEF TypeOK, CameraChanges
    <2> QED BY <1>9, <2>3, <2>4 DEF TypeOK, CameraChanges, hostVars, sockVars
  <1>10. ASSUME NEW r \in Relays, NEW c \in Clients, WsConnect(r, c) PROVE TypeOK'
    <2>1. ws' \in [Relays -> [Clients -> {"closed", "open", "closing"}]]
      BY <1>10 DEF TypeOK, WsConnect
    <2>2. clients' \in [Relays -> SUBSET Clients]
      BY <1>10 DEF TypeOK, WsConnect
    <2> QED BY <1>10, <2>1, <2>2 DEF TypeOK, WsConnect, hostVars, procVars
  <1>11. ASSUME NEW r \in Relays, NEW c \in Clients, WsClosing(r, c) PROVE TypeOK'
    <2>1. ws' \in [Relays -> [Clients -> {"closed", "open", "closing"}]]
      BY <1>11 DEF TypeOK, WsClosing
    <2> QED BY <1>11, <2>1 DEF TypeOK, WsClosing, hostVars, procVars
  <1>12. ASSUME NEW r \in Relays, NEW c \in Clients, WsClose(r, c) PROVE TypeOK'
    <2>1. ws' \in [Relays -> [Clients -> {"closed", "open", "closing"}]]
      BY <1>12 DEF TypeOK, WsClose
    <2>2. clients' \in [Relays -> SUBSET Clients]
      BY <1>12 DEF TypeOK, WsClose
    <2> QED BY <1>12, <2>1, <2>2 DEF TypeOK, WsClose, hostVars, procVars
  <1>13. ASSUME NEW r \in Relays, Chunk(r) PROVE TypeOK'
    <2>1. beat' \in [Relays -> BOOLEAN]
      BY <1>13, Zenon DEF TypeOK, Chunk
    <2> QED BY <1>13, <2>1 DEF TypeOK, Chunk, hostVars, procVars
  <1> QED BY <1>1, <1>2, <1>3, <1>4, <1>5, <1>6, <1>7, <1>8, <1>9, <1>10,
             <1>11, <1>12, <1>13 DEF Next


(* What resets dark and wait keeps resetting them. *)
LEMMA ResetsStep ==
    ASSUME IInv, [Next]_vars
    PROVE  DarkResets'
  <1> USE RelayBounds DEF IInv
  <1>1. CASE UNCHANGED vars
    BY <1>1 DEF DarkResets, vars, procVars
  <1>2. CASE StartStreamRelay
    BY <1>2 DEF TypeOK, DarkResets, StartStreamRelay
  <1>3. ASSUME NEW r \in Relays, FFmpegStreams(r) PROVE DarkResets'
    BY <1>3 DEF TypeOK, DarkResets, FFmpegStreams
  <1>4. ASSUME NEW r \in Relays, FFmpegFails(r) PROVE DarkResets'
    BY <1>4 DEF TypeOK, DarkResets, FFmpegFails, Closed
  <1>5. ASSUME NEW r \in Relays, SpawnError(r) PROVE DarkResets'
    BY <1>5 DEF DarkResets, SpawnError, procVars
  <1>6. ASSUME NEW r \in Relays, StreamBreaks(r) PROVE DarkResets'
    BY <1>6 DEF TypeOK, DarkResets, StreamBreaks, Closed
  <1>7. ASSUME NEW r \in Relays, Tick(r) PROVE DarkResets'
    BY <1>7 DEF TypeOK, DarkResets, Tick, Darker
  <1>8. ASSUME NEW r \in Relays, SpawnFFmpeg(r) PROVE DarkResets'
    BY <1>8 DEF TypeOK, DarkResets, SpawnFFmpeg
  <1>9. ASSUME NEW r \in Relays, NEW t \in SUBSET Transports, CameraChanges(r, t)
        PROVE DarkResets'
    BY <1>9 DEF TypeOK, DarkResets, CameraChanges, Closed, procVars
  <1>10. ASSUME NEW r \in Relays, NEW c \in Clients,
                WsConnect(r, c) \/ WsClosing(r, c) \/ WsClose(r, c)
         PROVE DarkResets'
    BY <1>10 DEF DarkResets, WsConnect, WsClosing, WsClose, procVars
  <1>11. ASSUME NEW r \in Relays, Chunk(r) PROVE DarkResets'
    BY <1>11 DEF DarkResets, Chunk, procVars
  <1> QED BY <1>1, <1>2, <1>3, <1>4, <1>5, <1>6, <1>7, <1>8, <1>9, <1>10,
             <1>11 DEF Next

(* The budget is kept by every step: a failed attempt spends one delay more *)
(* only when the next attempt is the one that succeeds.                     *)
LEMMA BudgetStep ==
    ASSUME IInv, [Next]_vars
    PROVE  DarkBudget'
  <1> USE RelayBounds DEF IInv
  <1>1. CASE UNCHANGED vars
    BY <1>1 DEF DarkBudget, vars, procVars
  <1>2. CASE StartStreamRelay
    BY <1>2 DEF TypeOK, DarkResets, DarkBudget, StartStreamRelay
  <1>3. ASSUME NEW r \in Relays, FFmpegStreams(r) PROVE DarkBudget'
    BY <1>3 DEF TypeOK, DarkBudget, FFmpegStreams
  <1>4. ASSUME NEW r \in Relays, FFmpegFails(r) PROVE DarkBudget'
    <2>1. retry[r] \in 0 .. Cap + 1 /\ works[r] \in SUBSET Transports
      BY DEF TypeOK
    <2>2. Delay(retry[r]) \in 1 .. Cap
      BY <2>1, DelayBounded
    <2>3. works[r] # {} => Transport(Succ(retry[r])) \in works[r]
      BY <1>4, <2>1, OtherTransportWorks DEF FFmpegFails
    <2>4. works[r] # {} => dark[r] + wait[r] <= Cap
      BY <1>4 DEF FFmpegFails, DarkBudget
    <2> QED BY <1>4, <2>2, <2>3, <2>4
            DEF TypeOK, DarkResets, DarkBudget, FFmpegFails, Closed
  <1>5. ASSUME NEW r \in Relays, SpawnError(r) PROVE DarkBudget'
    BY <1>5 DEF DarkBudget, SpawnError, procVars
  <1>6. ASSUME NEW r \in Relays, StreamBreaks(r) PROVE DarkBudget'
    <2>1. Delay(retry[r]) \in 1 .. Cap
      BY DelayBounded DEF TypeOK
    <2>2. dark[r] = 0
      BY <1>6 DEF DarkResets, StreamBreaks
    <2> QED BY <1>6, <2>1, <2>2 DEF TypeOK, DarkBudget, StreamBreaks, Closed
  <1>7. ASSUME NEW r \in Relays, Tick(r) PROVE DarkBudget'
    BY <1>7 DEF TypeOK, DarkBudget, Tick, Darker
  <1>8. ASSUME NEW r \in Relays, SpawnFFmpeg(r) PROVE DarkBudget'
    BY <1>8 DEF TypeOK, DarkBudget, SpawnFFmpeg
  <1>9. ASSUME NEW r \in Relays, NEW t \in SUBSET Transports, CameraChanges(r, t)
        PROVE DarkBudget'
    <2>1. Delay(retry[r]) \in 1 .. Cap
      BY DelayBounded DEF TypeOK
    <2>2. wait'[r] \in 0 .. Cap /\ dark'[r] = 0
      BY <1>9, <2>1 DEF TypeOK, CameraChanges, Closed, procVars
    <2>3. \A q \in Relays \ {r} :
             /\ ff'[q] = ff[q] /\ works'[q] = works[q] /\ dark'[q] = dark[q]
             /\ wait'[q] = wait[q] /\ retry'[q] = retry[q]
      BY <1>9 DEF TypeOK, CameraChanges, Closed, procVars
    <2> QED BY <2>2, <2>3 DEF TypeOK, DarkBudget
  <1>10. ASSUME NEW r \in Relays, NEW c \in Clients,
                WsConnect(r, c) \/ WsClosing(r, c) \/ WsClose(r, c)
         PROVE DarkBudget'
    BY <1>10 DEF DarkBudget, WsConnect, WsClosing, WsClose, procVars
  <1>11. ASSUME NEW r \in Relays, Chunk(r) PROVE DarkBudget'
    BY <1>11 DEF DarkBudget, Chunk, procVars
  <1> QED BY <1>1, <1>2, <1>3, <1>4, <1>5, <1>6, <1>7, <1>8, <1>9, <1>10,
             <1>11 DEF Next

(* The initial states satisfy the inductive invariant. *)
LEMMA InitIInv == Init => IInv
  BY RelayBounds DEF Init, IInv, TypeOK, DarkResets, DarkBudget

(* The inductive invariant holds throughout. *)
LEMMA InvariantHolds == Spec => []IInv
  <1>1. IInv /\ [Next]_vars => IInv'
    BY TypeStep, ResetsStep, BudgetStep DEF IInv
  <1> QED BY <1>1, InitIInv, PTL DEF Spec

(* TypeOK, with the cap on every delay, holds for every instance. *)
THEOREM TypeCorrect == Spec => []TypeOK
  <1>1. IInv => TypeOK BY DEF IInv
  <1> QED BY <1>1, InvariantHolds, PTL

(* spawnFFmpeg's alternation bounds the outage it causes: for every cap, a  *)
(* camera that answers on some transport is missed for at most two full     *)
(* delays.                                                                  *)
THEOREM OutageBounded == Spec => []DarkBounded
  <1>1. IInv => DarkBounded
    BY RelayBounds DEF IInv, TypeOK, DarkResets, DarkBudget, DarkBounded
  <1> QED BY <1>1, InvariantHolds, PTL

=============================================================================
