------------------------------ MODULE PongProofs ------------------------------
(***************************************************************************)
(* Proofs of the pong61 client's safety properties for every number of     *)
(* threads, connections and addresses, and every board.                    *)
(***************************************************************************)
EXTENDS PongProperties, FiniteSetTheorems, WellFoundedInduction, TLAPS

-----------------------------------------------------------------------------
(* The inductive invariant                                                 *)

\* Two slots with the same pointer: the later one has been closed.  A slot that
\* is not uninitialised points to an open connection.
PoolInv ==
    /\ \A i, j \in Slots : i < j /\ con_ptr[i] = con_ptr[j] /\ con_ptr[i] # NULL
                             => con_status[j] = "CON_UNINIT"
    /\ \A i \in Slots : con_status[i] # "CON_UNINIT" =>
                             con_ptr[i] # NULL /\ http_state[con_ptr[i]] # "freed"

\* Slots in use and threads with a connection correspond to each other.
Busy == {"wantSend", "send", "reading", "relock", "stopped", "answered", "discard", "release"}
HoldInv ==
    /\ \A t \in Thread : conn[t] # NULL <=> loc[t] \in Busy
    /\ \A t \in Holding : \E i \in Slots : con_ptr[i] = conn[t] /\ con_status[i] = "CON_INUSE"
    /\ \A t, u \in Holding : t # u => conn[t] # conn[u]
    /\ \A i \in Slots : con_status[i] = "CON_INUSE" => \E t \in Thread : conn[t] = con_ptr[i]

\* Who must have which mutex, and what the ball's owner knows of it.
OwnsPosition(t) ==
    \/ loc[t] \in {"getConn", "connecting", "wantSend", "send", "discard"}
    \/ loc[t] \in {"reading", "stopped", "answered"} /\ ~needToRelock[t]
OwnsSend(t) ==
    \/ loc[t] \in {"send", "stopped"}
    \/ loc[t] \in {"reading", "answered"} /\ ~needToRelock[t]
LockInv ==
    \A t \in Thread :
        /\ OwnsPosition(t) => serverLock = t /\ move[t] = <<ball.x, ball.y>>
        /\ OwnsSend(t) => sendLock = t
        /\ loc[t] = "relock" => needToRelock[t]

\* A connection that is past the status line has a status code, and only a body,
\* which is past it, asks for a pause.
CodeInv ==
    \A t \in Thread :
        /\ loc[t] = "reading" => http_state[conn[t]] \in {"HTTP_INITIAL", "HTTP_HEADERS", "HTTP_BODY"}
        /\ loc[t] = "reading" /\ http_state[conn[t]] # "HTTP_INITIAL" => Code(t) # -1
        /\ loc[t] \in {"relock", "stopped"} => Code(t) # -1

\* nthreads is the number of threads, but for one just created.
Uncounted == IF mainLoc = "count" THEN 1 ELSE 0
CountInv ==
    /\ IsFiniteSet(Live)
    /\ nthreads = Cardinality(Live) - Uncounted
    /\ Cardinality(Live) <= MAXTHREADS
    /\ mainLoc = "create" => Cardinality(Live) < MAXTHREADS

IInv == PongTypeOK /\ PoolInv /\ HoldInv /\ LockInv /\ CodeInv /\ CountInv

-----------------------------------------------------------------------------
(* The steps                                                               *)

Still == UNCHANGED <<poolvars, threadvars, ball, locks, mainvars>>
Advance(t) ==
    \/ TakePosition(t) \/ LockPool(t) \/ \E c \in Address : GetConn(t, c)
    \/ LockSend(t) \/ Send(t) \/ Receive(t)
    \/ Relock(t) \/ PauseOver(t) \/ GiveUp(t) \/ Accept(t)
    \/ Discard(t) \/ Release(t)

\* A step that ends the program changes nothing else; any other is a step of main,
\* or a thread advances or leaves.
LEMMA StepCases ==
    ASSUME [Next]_vars
    PROVE  \/ Still /\ program' \in {program, "exited", "aborted"}
           \/ MainCheck \/ MainCount \/ \E t \in Thread : MainCreate(t)
           \/ \E t \in Thread : Advance(t) \/ Leave(t)
<1>1. CASE UNCHANGED vars
  BY <1>1 DEF vars, Still, poolvars, threadvars, locks, mainvars
<1>2. CASE Ended
  BY <1>2 DEF Ended, vars, Still, poolvars, threadvars, locks, mainvars
<1>3. CASE MainStep
  BY <1>3 DEF MainStep
<1>4. CASE \E t \in Thread : ThreadStep(t)
  <2>1. PICK t \in Thread : ThreadStep(t)
    BY <1>4
  <2>2. CASE Fails(t)
    BY <2>2 DEF Fails, ConnectFails, SendFails, SendAssertFails, ServerError,
                AnswerAssertFails, ServerComplains, Stop, Still
  <2> QED BY <2>1, <2>2 DEF ThreadStep, Advance
<1> QED BY <1>1, <1>2, <1>3, <1>4 DEF Next

\* A thread that advances stays alive, and main does not notice.
LEMMA AdvanceLives ==
    ASSUME PongTypeOK, NEW t \in Thread, Advance(t)
    PROVE  Live' = Live /\ UNCHANGED mainvars /\ program' = program
<1> USE DEF PongTypeOK, Live, At, Go, mainvars
<1>1. CASE TakePosition(t) \/ LockPool(t) \/ LockSend(t)
  BY <1>1 DEF TakePosition, LockPool, LockSend
<1>2. CASE \E c \in Address : GetConn(t, c)
  BY <1>2 DEF GetConn
<1>3. CASE Send(t) \/ Relock(t) \/ PauseOver(t)
  BY <1>3 DEF Send, Relock, PauseOver
<1>4. CASE Receive(t)
  <2>1. PICK new \in Open, code \in StatusCode :
            ReadMore(t, new, code) \/ \E says \in {"ok", "stop", "error"} : ReadLast(t, new, code, says)
    BY <1>4 DEF Receive
  <2>2. CASE ReadMore(t, new, code)
    BY <2>2 DEF ReadMore, Read
  <2>3. ASSUME NEW says \in {"ok", "stop", "error"}, ReadLast(t, new, code, says)
        PROVE  Live' = Live /\ UNCHANGED mainvars /\ program' = program
    BY <2>3 DEF ReadLast, Read
  <2> QED BY <2>1, <2>2, <2>3
<1>5. CASE GiveUp(t) \/ Accept(t)
  BY <1>5 DEF GiveUp, Accept
<1>6. CASE Discard(t) \/ Release(t)
  BY <1>6 DEF Discard, Release
<1> QED BY <1>1, <1>2, <1>3, <1>4, <1>5, <1>6 DEF Advance

-----------------------------------------------------------------------------
(* Counting threads                                                        *)

\* The count of threads follows their creation and their end.
LEMMA CountStep ==
    ASSUME PongTypeOK, CountInv, [Next]_vars
    PROVE  CountInv'
<1> DEFINE N == Cardinality(Live)
<1>1. IsFiniteSet(Live) /\ N \in Nat /\ nthreads = N - Uncounted /\ N <= MAXTHREADS
      /\ (mainLoc = "create" => N < MAXTHREADS) /\ MAXTHREADS \in Nat
  BY FS_CardinalityType, BoardAssumption DEF CountInv
<1> HIDE DEF N
<1>2. CASE Live' = Live /\ UNCHANGED mainvars
  <2>1. Cardinality(Live)' = N
    BY <1>2 DEF N
  <2> QED BY <1>1, <1>2, <2>1 DEF CountInv, Uncounted, mainvars, N
<1>3. CASE MainCheck
  <2>1. Live' = Live /\ nthreads' = nthreads /\ mainLoc = "check" /\ mainLoc' = "create" /\ nthreads < MAXTHREADS
    BY <1>3 DEF MainCheck, RoomForThread, Live, threadvars
  <2>2. Cardinality(Live)' = N
    BY <2>1 DEF N
  <2> QED BY <1>1, <2>1, <2>2 DEF CountInv, Uncounted, N
<1>4. ASSUME NEW t \in Thread, MainCreate(t)
      PROVE  CountInv'
  <2>1. Live' = Live \cup {t} /\ t \notin Live /\ nthreads' = nthreads
        /\ mainLoc = "create" /\ mainLoc' = "count"
    BY <1>4 DEF MainCreate, Live, Go, PongTypeOK
  <2>2. IsFiniteSet(Live)' /\ Cardinality(Live)' = N + 1
    BY <1>1, <2>1, FS_AddElement DEF N
  <2> QED BY <1>1, <2>1, <2>2 DEF CountInv, Uncounted
<1>5. CASE MainCount
  <2>1. Live' = Live /\ nthreads' = nthreads + 1 /\ mainLoc = "count" /\ mainLoc' = "check"
    BY <1>5 DEF MainCount, Live, threadvars
  <2>2. Cardinality(Live)' = N
    BY <2>1 DEF N
  <2> QED BY <1>1, <2>1, <2>2 DEF CountInv, Uncounted, N
<1>6. ASSUME NEW t \in Thread, Leave(t)
      PROVE  CountInv'
  <2>1. Live' = Live \ {t} /\ t \in Live /\ nthreads' = nthreads - 1 /\ mainLoc' = mainLoc
    BY <1>6 DEF Leave, Live, Go, At, PongTypeOK
  <2>2. IsFiniteSet(Live)' /\ Cardinality(Live)' = N - 1
    BY <1>1, <2>1, FS_RemoveElement DEF N
  <2> QED BY <1>1, <2>1, <2>2 DEF CountInv, Uncounted
<1>7. CASE Still
  BY <1>2, <1>7 DEF Still, threadvars, Live
<1>8. ASSUME NEW t \in Thread, Advance(t)
      PROVE  CountInv'
  BY <1>2, <1>8, AdvanceLives
<1> QED BY StepCases, <1>3, <1>4, <1>5, <1>6, <1>7, <1>8

-----------------------------------------------------------------------------
(* Types                                                                   *)

\* A coordinate stays on the board when it moves, and came from where it was.
LEMMA BounceFacts ==
    ASSUME NEW size \in Nat, size >= 2, NEW p \in 0..size-1, NEW d \in {-1, 1}
    PROVE  /\ Bounce(p, d, size).p \in 0..size-1
           /\ Bounce(p, d, size).d \in {-1, 1}
           /\ Bounce(p, d, size).p - Bounce(p, d, size).d = p
<1>1. CASE p + d < 0 \/ p + d >= size
  BY <1>1 DEF Bounce
<1>2. CASE ~(p + d < 0 \/ p + d >= size)
  BY <1>2 DEF Bounce
<1> QED BY <1>1, <1>2

\* The ball moves one diagonal step on the board.
LEMMA MovedFacts ==
    ASSUME PongTypeOK
    PROVE  /\ Moved(ball) \in [x : 0..Width-1, y : 0..Height-1, dx : {-1, 1}, dy : {-1, 1}]
           /\ Moved(ball).x - Moved(ball).dx = ball.x
           /\ Moved(ball).y - Moved(ball).dy = ball.y
<1>1. ball.x \in 0..Width-1 /\ ball.y \in 0..Height-1 /\ ball.dx \in {-1, 1} /\ ball.dy \in {-1, 1}
  BY DEF PongTypeOK
<1>2. Width \in Nat /\ Width >= 2 /\ Height \in Nat /\ Height >= 2
  BY BoardAssumption
<1> DEFINE h == Bounce(ball.x, ball.dx, Width)
           v == Bounce(ball.y, ball.dy, Height)
<1>3. h.p \in 0..Width-1 /\ h.d \in {-1, 1} /\ h.p - h.d = ball.x
  BY <1>1, <1>2, BounceFacts
<1>4. v.p \in 0..Height-1 /\ v.d \in {-1, 1} /\ v.p - v.d = ball.y
  BY <1>1, <1>2, BounceFacts
<1>5. Moved(ball) = [x |-> h.p, y |-> v.p, dx |-> h.d, dy |-> v.d]
  BY DEF Moved
<1> HIDE DEF h, v
<1> QED BY <1>3, <1>4, <1>5

\* Every step of a thread keeps the types, but for the count of threads.
LEMMA AdvanceTypes ==
    ASSUME PongTypeOK, NEW t \in Thread, Advance(t)
    PROVE  PongTypeOK'
<1>1. UNCHANGED mainvars /\ program' = program
  BY AdvanceLives
<1>2. nthreads' \in -1..MAXTHREADS /\ mainLoc' \in {"check", "create", "count"}
      /\ program' \in {"running", "exited", "aborted"}
  BY <1>1 DEF PongTypeOK, mainvars
<1>3. \A l \in Location : Go(t, l) => loc' \in [Thread -> Location]
  BY DEF PongTypeOK, Go
<1>4. CASE TakePosition(t)
  <2>1. ball' \in [x : 0..Width-1, y : 0..Height-1, dx : {-1, 1}, dy : {-1, 1}]
    BY <1>4, MovedFacts DEF TakePosition
  <2>2. <<ball'.x, ball'.y>> \in Position
    BY <2>1 DEF Position
  <2>3. move' \in [Thread -> Position]
    BY <1>4, <2>2 DEF TakePosition, PongTypeOK
  <2> QED BY <1>2, <1>3, <1>4, <2>1, <2>3 DEF TakePosition, PongTypeOK, poolvars, Location
<1>5. CASE LockPool(t) \/ LockSend(t) \/ Relock(t) \/ PauseOver(t)
  BY <1>2, <1>3, <1>5 DEF LockPool, LockSend, Relock, PauseOver, PongTypeOK, poolvars, Location
<1>6. ASSUME NEW c \in Address, GetConn(t, c)
      PROVE  PongTypeOK'
  <2>1. /\ con_status' \in [Slots -> ConStatus]
        /\ con_ptr' \in [Slots -> Address \cup {NULL}]
        /\ http_state' \in [Address -> Open \cup {"freed"}]
        /\ status_code' = status_code
    <3>1. CASE Reuse(c)
      BY <3>1 DEF Reuse, PongTypeOK, ConStatus
    <3>2. CASE Connect(c)
      BY <3>2 DEF Connect, PongTypeOK, ConStatus, Open
    <3> QED BY <1>6, <3>1, <3>2 DEF GetConn
  <2> QED BY <1>2, <1>3, <1>6, <2>1 DEF GetConn, PongTypeOK, Location
<1>7. CASE Send(t)
  BY <1>2, <1>3, <1>7 DEF Send, PongTypeOK, Location, Open, StatusCode, locks
<1>8. CASE Receive(t)
  <2>1. PICK new \in Open, code \in StatusCode :
            ReadMore(t, new, code) \/ \E says \in {"ok", "stop", "error"} : ReadLast(t, new, code, says)
    BY <1>8 DEF Receive
  <2>2. Read(t, new, code)
    BY <2>1 DEF ReadMore, ReadLast
  <2>3. http_state' \in [Address -> Open \cup {"freed"}] /\ status_code' \in [Address -> StatusCode]
    BY <2>2 DEF Read, PongTypeOK
  <2>4. CASE ReadMore(t, new, code)
    <3>1. /\ needToRelock' \in [Thread -> BOOLEAN]
          /\ serverLock' \in {serverLock, Nobody} /\ sendLock' \in {sendLock, Nobody}
      BY <2>4 DEF ReadMore, PongTypeOK
    <3>2. UNCHANGED <<loc, body, con_status, con_ptr, conn, move, ball, connLock>>
      BY <2>2, <2>4 DEF ReadMore, Read
    <3> QED BY <1>2, <2>3, <3>1, <3>2 DEF PongTypeOK
  <2>5. ASSUME NEW says \in {"ok", "stop", "error"}, ReadLast(t, new, code, says)
        PROVE  PongTypeOK'
    BY <1>2, <1>3, <2>2, <2>3, <2>5 DEF ReadLast, Read, PongTypeOK, Location
  <2> QED BY <2>1, <2>4, <2>5
<1>9. CASE GiveUp(t) \/ Accept(t)
  <2>1. <<0, 0>> \in Position
    BY BoardAssumption DEF Position
  <2>2. /\ needToRelock' \in [Thread -> BOOLEAN]
        /\ move' \in [Thread -> Position]
        /\ body' \in [Thread -> {"ok", "stop", "error"}]
        /\ serverLock' \in {serverLock, Nobody} /\ sendLock' \in {sendLock, Nobody}
        /\ loc' \in [Thread -> Location]
    <3>1. CASE GiveUp(t)
      BY <1>3, <3>1 DEF GiveUp, PongTypeOK, Location
    <3>2. CASE Accept(t)
      <4>1. needToRelock' \in [Thread -> BOOLEAN]
        BY <3>2 DEF Accept, PongTypeOK
      <4>2. serverLock' \in {serverLock, Nobody} /\ sendLock' \in {sendLock, Nobody}
        BY <3>2 DEF Accept
      <4>3. loc' \in [Thread -> Location]
        BY <1>3, <3>2 DEF Accept, Location
      <4>4. /\ move' \in [Thread -> Position]
            /\ body' \in [Thread -> {"ok", "stop", "error"}]
        BY <2>1, <3>2 DEF Accept, PongTypeOK
      <4> QED BY <4>1, <4>2, <4>3, <4>4
    <3> QED BY <1>9, <3>1, <3>2
  <2>3. UNCHANGED <<poolvars, conn, ball, connLock>>
    BY <1>9 DEF GiveUp, Accept
  <2> QED BY <1>2, <2>2, <2>3 DEF PongTypeOK, poolvars
<1>10. CASE Discard(t) \/ Release(t)
  <2>1. /\ con_status' \in [Slots -> ConStatus]
        /\ con_ptr' \in [Slots -> Address \cup {NULL}]
        /\ http_state' \in [Address -> Open \cup {"freed"}]
        /\ status_code' \in [Address -> StatusCode]
    BY <1>10 DEF Discard, Release, releaseConn, PongTypeOK, ConStatus, StatusCode
  <2> QED BY <1>2, <1>3, <1>10, <2>1 DEF Discard, Release, PongTypeOK, Location, locks
<1> QED BY <1>4, <1>5, <1>6, <1>7, <1>8, <1>9, <1>10 DEF Advance

\* Every step keeps the types.
LEMMA TypeStep ==
    ASSUME PongTypeOK, CountInv, [Next]_vars
    PROVE  PongTypeOK'
<1>1. nthreads' \in -1..MAXTHREADS
  <2>1. CountInv' /\ Cardinality(Live)' \in Nat
    BY CountStep, FS_CardinalityType DEF CountInv
  <2> HIDE DEF Live
  <2> QED BY <2>1, BoardAssumption DEF CountInv, Uncounted
<1>2. CASE Still /\ program' \in {program, "exited", "aborted"}
  BY <1>2 DEF Still, PongTypeOK, poolvars, threadvars, locks, mainvars
<1>3. CASE MainCheck \/ MainCount \/ \E t \in Thread : MainCreate(t)
  BY <1>1, <1>3 DEF MainCheck, MainCount, MainCreate, Go, Location, PongTypeOK, poolvars, threadvars, locks
<1>4. ASSUME NEW t \in Thread, Leave(t)
      PROVE  PongTypeOK'
  BY <1>1, <1>4 DEF Leave, Go, Location, PongTypeOK, poolvars, locks
<1> QED BY StepCases, AdvanceTypes, <1>2, <1>3, <1>4

-----------------------------------------------------------------------------
(* The pool                                                                *)

\* First is the least element of a nonempty set of slots.
LEMMA FirstFacts ==
    ASSUME NEW S \in SUBSET Slots, S # {}
    PROVE  First(S) \in S /\ \A j \in S : First(S) <= j
<1>1. IsWellFoundedOn(OpToRel(<, Nat), Nat)
  BY NatLessThanWellFounded
<1>2. S \subseteq Nat
  BY PoolAssumption DEF Slots
<1>3. PICK x \in S : \A y \in S : ~ (<<y, x>> \in OpToRel(<, Nat))
  BY <1>1, <1>2, WFMin
<1>4. \A y \in S : x <= y
  <2> SUFFICES ASSUME NEW y \in S PROVE x <= y
    OBVIOUS
  <2>1. x \in Nat /\ y \in Nat
    BY <1>2
  <2>2. ~(y < x)
    BY <1>3, <2>1 DEF OpToRel
  <2> QED BY <2>1, <2>2
<1> QED BY <1>4 DEF First

\* An open connection is found in its own slot.
LEMMA SlotFound ==
    ASSUME PoolInv, NEW i \in Slots, con_status[i] # "CON_UNINIT"
    PROVE  slotOfConnection(con_ptr[i]) = i
<1> DEFINE S == {j \in Slots : con_ptr[j] = con_ptr[i]}
           s == First(S)
<1>1. s \in S /\ s <= i
  BY FirstFacts
<1>2. con_ptr[s] = con_ptr[i] /\ con_ptr[i] # NULL
  BY <1>1 DEF PoolInv
<1>3. ~(s < i)
  BY <1>1, <1>2 DEF PoolInv
<1>4. s \in Int /\ i \in Int
  BY <1>1, PoolAssumption DEF Slots
<1>5. s = i
  BY <1>1, <1>3, <1>4
<1> QED BY <1>5 DEF slotOfConnection

\* Reuse marks the slot of a valid connection.
LEMMA ReuseFacts ==
    ASSUME NEW c, Reuse(c)
    PROVE  \E s \in Slots : /\ con_status[s] = "CON_VALID" /\ con_ptr[s] = c
                            /\ con_status' = [con_status EXCEPT ![s] = "CON_INUSE"]
<1>1. connectionSlotWithStatus("CON_VALID") \in SlotsWithStatus("CON_VALID")
  BY FirstFacts DEF Reuse, connectionSlotWithStatus, SlotsWithStatus
<1> QED BY <1>1 DEF Reuse, SlotsWithStatus

\* Connect takes the first slot that is free.
LEMMA ConnectFacts ==
    ASSUME NEW c, Connect(c)
    PROVE  \E s \in Slots : /\ con_status[s] = "CON_UNINIT"
                            /\ \A j \in Slots : j < s => con_status[j] # "CON_UNINIT"
                            /\ con_status' = [con_status EXCEPT ![s] = "CON_INUSE"]
                            /\ con_ptr' = [con_ptr EXCEPT ![s] = c]
<1> DEFINE s == connectionSlotWithStatus("CON_UNINIT")
<1>1. s \in SlotsWithStatus("CON_UNINIT") /\ \A j \in SlotsWithStatus("CON_UNINIT") : s <= j
  BY FirstFacts DEF Connect, connectionSlotWithStatus, SlotsWithStatus
<1>2. con_status[s] = "CON_UNINIT" /\ s \in Slots
  BY <1>1 DEF SlotsWithStatus
<1>3. \A j \in Slots : j < s => con_status[j] # "CON_UNINIT"
  BY <1>1, <1>2, PoolAssumption DEF SlotsWithStatus, Slots
<1>4. con_status' = [con_status EXCEPT ![s] = "CON_INUSE"] /\ con_ptr' = [con_ptr EXCEPT ![s] = c]
  BY DEF Connect
<1> HIDE DEF s
<1> QED BY <1>2, <1>3, <1>4

\* The pool stays in order when a connection is handed out ...
LEMMA GetPool ==
    ASSUME PongTypeOK, PoolInv, NEW c \in Address, Reuse(c) \/ Connect(c)
    PROVE  PoolInv'
<1>1. CASE Reuse(c)
  <2>1. PICK s \in Slots : /\ con_status[s] = "CON_VALID" /\ con_ptr[s] = c
                           /\ con_status' = [con_status EXCEPT ![s] = "CON_INUSE"]
    BY <1>1, ReuseFacts
  <2>2. UNCHANGED <<con_ptr, http_state>>
    BY <1>1 DEF Reuse
  <2> QED BY <2>1, <2>2 DEF PoolInv, PongTypeOK
<1>2. CASE Connect(c)
  <2>1. PICK s \in Slots : /\ con_status[s] = "CON_UNINIT"
                           /\ \A j \in Slots : j < s => con_status[j] # "CON_UNINIT"
                           /\ con_status' = [con_status EXCEPT ![s] = "CON_INUSE"]
                           /\ con_ptr' = [con_ptr EXCEPT ![s] = c]
    BY <1>2, ConnectFacts
  <2>2. http_state[c] = "freed" /\ http_state' = [http_state EXCEPT ![c] = "HTTP_REQUEST"]
    BY <1>2 DEF Connect
  <2>3. \A j \in Slots : j # s /\ con_status[j] # "CON_UNINIT" => con_ptr[j] # c
    BY <2>2 DEF PoolInv
  <2>4. \A i, j \in Slots : i < j /\ con_ptr'[i] = con_ptr'[j] /\ con_ptr'[i] # NULL
                               => con_status'[j] = "CON_UNINIT"
    <3> SUFFICES ASSUME NEW i \in Slots, NEW j \in Slots, i < j, con_ptr'[i] = con_ptr'[j], con_ptr'[i] # NULL
                 PROVE  con_status'[j] = "CON_UNINIT"
      OBVIOUS
    <3>1. i # j
      BY PoolAssumption DEF Slots
    <3>2. CASE i = s
      BY <2>1, <2>3, <3>1, <3>2 DEF PongTypeOK
    <3>3. CASE j = s
      BY <2>1, <2>3, <3>1, <3>3 DEF PongTypeOK
    <3>4. CASE i # s /\ j # s
      BY <2>1, <3>4 DEF PongTypeOK, PoolInv
    <3> QED BY <3>2, <3>3, <3>4
  <2>5. \A i \in Slots : con_status'[i] # "CON_UNINIT" =>
                             con_ptr'[i] # NULL /\ http_state'[con_ptr'[i]] # "freed"
    <3> SUFFICES ASSUME NEW i \in Slots, con_status'[i] # "CON_UNINIT"
                 PROVE  con_ptr'[i] # NULL /\ http_state'[con_ptr'[i]] # "freed"
      OBVIOUS
    <3>1. CASE i = s
      BY <2>1, <2>2, <3>1, PoolAssumption DEF PongTypeOK
    <3>2. CASE i # s
      <4>1. con_status[i] # "CON_UNINIT" /\ con_ptr'[i] = con_ptr[i]
        BY <2>1, <3>2 DEF PongTypeOK
      <4>2. con_ptr[i] # NULL /\ http_state[con_ptr[i]] # "freed" /\ con_ptr[i] \in Address
        BY <4>1 DEF PoolInv, PongTypeOK
      <4> QED BY <2>2, <4>1, <4>2 DEF PongTypeOK
    <3> QED BY <3>1, <3>2
  <2> QED BY <2>4, <2>5 DEF PoolInv
<1> QED BY <1>1, <1>2

\* ... and when one is given back.
LEMMA ReleasePool ==
    ASSUME PongTypeOK, PoolInv, NEW s \in Slots, con_status[s] = "CON_INUSE", releaseConn(con_ptr[s])
    PROVE  /\ PoolInv'
           /\ con_status' = [con_status EXCEPT ![s] = "CON_VALID"]
              \/ con_status' = [con_status EXCEPT ![s] = "CON_UNINIT"]
           /\ con_ptr' = con_ptr
<1> DEFINE c == con_ptr[s]
<1>1. slotOfConnection(c) = s /\ c \in Address
  BY SlotFound DEF PoolInv, PongTypeOK
<1>2. con_ptr' = con_ptr
  BY DEF releaseConn
<1>3. CASE Reusable(c)
  <2>1. con_status' = [con_status EXCEPT ![s] = "CON_VALID"] /\ http_state' = http_state
    BY <1>1, <1>3 DEF releaseConn
  <2> QED BY <1>2, <2>1 DEF PoolInv, PongTypeOK
<1>4. CASE ~Reusable(c)
  <2>1. con_status' = [con_status EXCEPT ![s] = "CON_UNINIT"]
        /\ http_state' = [http_state EXCEPT ![c] = "freed"]
    BY <1>1, <1>4 DEF releaseConn
  <2>2. \A j \in Slots : con_status'[j] # "CON_UNINIT" => j # s /\ con_status[j] # "CON_UNINIT"
    BY <2>1 DEF PongTypeOK
  <2>3. \A j \in Slots : con_status'[j] # "CON_UNINIT" => con_ptr[j] # c
    <3> SUFFICES ASSUME NEW j \in Slots, con_status'[j] # "CON_UNINIT", con_ptr[j] = c
                 PROVE  FALSE
      OBVIOUS
    <3>1. slotOfConnection(con_ptr[j]) = j
      BY <2>2, SlotFound
    <3> QED BY <1>1, <2>2, <3>1
  <2>4. \A j \in Slots : con_status'[j] # "CON_UNINIT" =>
                             con_ptr'[j] # NULL /\ http_state'[con_ptr'[j]] # "freed"
    BY <1>1, <1>2, <2>1, <2>2, <2>3 DEF PoolInv, PongTypeOK
  <2>5. \A i, j \in Slots : i < j /\ con_ptr'[i] = con_ptr'[j] /\ con_ptr'[i] # NULL
                               => con_status'[j] = "CON_UNINIT"
    BY <1>2, <2>1 DEF PoolInv, PongTypeOK
  <2> QED BY <1>2, <2>1, <2>4, <2>5 DEF PoolInv
<1> QED BY <1>3, <1>4

\* A step that neither hands out nor gives back a connection, nor frees one.
KeepsConnections ==
    /\ UNCHANGED <<con_status, con_ptr, conn>>
    /\ \A u \in Thread : loc'[u] \in Busy <=> loc[u] \in Busy
    /\ \A a \in Address : http_state'[a] = "freed" => http_state[a] = "freed"

\* Such a step keeps the pool and its correspondence with the threads.
LEMMA KeepsPool ==
    ASSUME PongTypeOK, PoolInv, HoldInv, KeepsConnections
    PROVE  PoolInv' /\ HoldInv'
<1>1. PoolInv'
  BY DEF PongTypeOK, PoolInv, KeepsConnections
<1>2. HoldInv'
  BY DEF HoldInv, Holding, KeepsConnections
<1> QED BY <1>1, <1>2

\* The steps of a thread between taking a connection and giving it back.
LEMMA AdvanceKeeps ==
    ASSUME PongTypeOK, NEW t \in Thread,
           \/ TakePosition(t) \/ LockPool(t) \/ LockSend(t) \/ Send(t) \/ Receive(t)
           \/ Relock(t) \/ PauseOver(t) \/ GiveUp(t) \/ Accept(t)
    PROVE  KeepsConnections
<1> USE DEF KeepsConnections, Go, At, Busy, PongTypeOK, poolvars
<1>1. CASE TakePosition(t) \/ LockPool(t) \/ LockSend(t)
  BY <1>1 DEF TakePosition, LockPool, LockSend
<1>2. CASE Send(t)
  BY <1>2 DEF Send
<1>3. CASE Receive(t)
  <2>1. PICK new \in Open, code \in StatusCode :
            ReadMore(t, new, code) \/ \E says \in {"ok", "stop", "error"} : ReadLast(t, new, code, says)
    BY <1>3 DEF Receive
  <2>2. Read(t, new, code)
    BY <2>1 DEF ReadMore, ReadLast
  <2>3. UNCHANGED <<con_status, con_ptr, conn>> /\ loc[t] = "reading"
    BY <2>2 DEF Read
  <2>4. \A a \in Address : http_state'[a] = "freed" => http_state[a] = "freed"
    BY <2>2 DEF Read, Open
  <2>5. loc' = loc \/ \E l \in Busy : loc' = [loc EXCEPT ![t] = l]
    BY <2>1 DEF ReadMore, ReadLast
  <2> QED BY <2>3, <2>4, <2>5
<1>4. CASE Relock(t) \/ PauseOver(t)
  BY <1>4 DEF Relock, PauseOver
<1>5. CASE GiveUp(t) \/ Accept(t)
  BY <1>5 DEF GiveUp, Accept
<1> QED BY <1>1, <1>2, <1>3, <1>4, <1>5

\* A thread takes a connection.
LEMMA GetHold ==
    ASSUME PongTypeOK, PoolInv, HoldInv, NEW t \in Thread, NEW c \in Address, GetConn(t, c)
    PROVE  HoldInv'
<1>1. conn[t] = NULL /\ c # NULL /\ conn' = [conn EXCEPT ![t] = c] /\ loc' = [loc EXCEPT ![t] = "wantSend"]
  BY PoolAssumption DEF HoldInv, GetConn, At, Go, Busy
<1>2. PICK s \in Slots : /\ con_status[s] # "CON_INUSE" /\ con_ptr'[s] = c
                         /\ con_status' = [con_status EXCEPT ![s] = "CON_INUSE"]
                         /\ \A i \in Slots : i # s => con_ptr'[i] = con_ptr[i]
                         /\ \A i \in Slots : i # s /\ con_status[i] = "CON_INUSE" => con_ptr[i] # c
  <2>1. CASE Reuse(c)
    <3>1. PICK s \in Slots : /\ con_status[s] = "CON_VALID" /\ con_ptr[s] = c
                             /\ con_status' = [con_status EXCEPT ![s] = "CON_INUSE"]
      BY <2>1, ReuseFacts
    <3>2. con_ptr' = con_ptr
      BY <2>1 DEF Reuse
    <3>3. \A i \in Slots : i # s /\ con_status[i] = "CON_INUSE" => con_ptr[i] # c
      BY <3>1, SlotFound
    <3> QED BY <3>1, <3>2, <3>3
  <2>2. CASE Connect(c)
    <3>1. PICK s \in Slots : /\ con_status[s] = "CON_UNINIT"
                             /\ con_status' = [con_status EXCEPT ![s] = "CON_INUSE"]
                             /\ con_ptr' = [con_ptr EXCEPT ![s] = c]
      BY <2>2, ConnectFacts
    <3>2. \A i \in Slots : con_status[i] = "CON_INUSE" => con_ptr[i] # c
      BY <2>2 DEF Connect, PoolInv
    <3> QED BY <3>1, <3>2 DEF PongTypeOK
  <2> QED BY <2>1, <2>2 DEF GetConn
<1>3. \A u \in Holding : conn[u] # c
  BY <1>2 DEF HoldInv
<1>4. Holding' = Holding \cup {t} /\ t \notin Holding
  BY <1>1 DEF Holding, PongTypeOK
<1>5. \A u \in Thread : conn'[u] # NULL <=> loc'[u] \in Busy
  BY <1>1 DEF HoldInv, PongTypeOK, Busy
<1>6. \A u \in Holding' : \E i \in Slots : con_ptr'[i] = conn'[u] /\ con_status'[i] = "CON_INUSE"
  <2> SUFFICES ASSUME NEW u \in Holding'
               PROVE  \E i \in Slots : con_ptr'[i] = conn'[u] /\ con_status'[i] = "CON_INUSE"
    OBVIOUS
  <2>1. CASE u = t
    BY <1>1, <1>2, <2>1 DEF PongTypeOK
  <2>2. CASE u # t
    <3>1. u \in Holding /\ conn'[u] = conn[u]
      BY <1>1, <1>4, <2>2 DEF Holding, PongTypeOK
    <3>2. PICK i \in Slots : con_ptr[i] = conn[u] /\ con_status[i] = "CON_INUSE"
      BY <3>1 DEF HoldInv
    <3> QED BY <1>2, <3>1, <3>2 DEF PongTypeOK
  <2> QED BY <2>1, <2>2
<1>7. \A u, v \in Holding' : u # v => conn'[u] # conn'[v]
  BY <1>1, <1>3, <1>4 DEF HoldInv, Holding, PongTypeOK
<1>8. \A i \in Slots : con_status'[i] = "CON_INUSE" => \E u \in Thread : conn'[u] = con_ptr'[i]
  <2> SUFFICES ASSUME NEW i \in Slots, con_status'[i] = "CON_INUSE"
               PROVE  \E u \in Thread : conn'[u] = con_ptr'[i]
    OBVIOUS
  <2>1. CASE i = s
    BY <1>1, <1>2, <2>1 DEF PongTypeOK
  <2>2. CASE i # s
    <3>1. con_status[i] = "CON_INUSE" /\ con_ptr'[i] = con_ptr[i]
      BY <1>2, <2>2 DEF PongTypeOK
    <3>2. PICK u \in Thread : conn[u] = con_ptr[i]
      BY <3>1 DEF HoldInv
    <3>3. conn[u] # NULL
      BY <3>1, <3>2 DEF PoolInv
    <3> QED BY <1>1, <3>1, <3>2, <3>3 DEF PongTypeOK
  <2> QED BY <2>1, <2>2
<1> QED BY <1>5, <1>6, <1>7, <1>8 DEF HoldInv

\* A thread gives its connection back.
LEMMA ReleaseHold ==
    ASSUME PongTypeOK, PoolInv, HoldInv, NEW t \in Thread, Discard(t) \/ Release(t)
    PROVE  PoolInv' /\ HoldInv'
<1>1. /\ loc[t] \in Busy /\ releaseConn(conn[t]) /\ conn' = [conn EXCEPT ![t] = NULL]
      /\ \E l \in {"getConn", "leave"} : loc' = [loc EXCEPT ![t] = l]
  BY DEF Discard, Release, At, Go, Busy
<1>2. t \in Holding /\ conn[t] # NULL
  BY <1>1 DEF HoldInv, Holding
<1>3. PICK s \in Slots : con_ptr[s] = conn[t] /\ con_status[s] = "CON_INUSE"
  BY <1>2 DEF HoldInv
<1>4. /\ PoolInv'
      /\ con_status' = [con_status EXCEPT ![s] = "CON_VALID"]
         \/ con_status' = [con_status EXCEPT ![s] = "CON_UNINIT"]
      /\ con_ptr' = con_ptr
  BY <1>1, <1>3, ReleasePool
<1>5. Holding' = Holding \ {t}
  BY <1>1 DEF Holding, PongTypeOK
<1>6. \A u \in Thread : conn'[u] # NULL <=> loc'[u] \in Busy
  BY <1>1 DEF HoldInv, PongTypeOK, Busy
<1>7. \A u \in Holding' : \E i \in Slots : con_ptr'[i] = conn'[u] /\ con_status'[i] = "CON_INUSE"
  <2> SUFFICES ASSUME NEW u \in Holding'
               PROVE  \E i \in Slots : con_ptr'[i] = conn'[u] /\ con_status'[i] = "CON_INUSE"
    OBVIOUS
  <2>1. u \in Holding /\ u # t /\ conn'[u] = conn[u]
    BY <1>1, <1>5 DEF Holding, PongTypeOK
  <2>2. PICK i \in Slots : con_ptr[i] = conn[u] /\ con_status[i] = "CON_INUSE"
    BY <2>1 DEF HoldInv
  <2>3. i # s
    BY <1>2, <1>3, <2>1, <2>2 DEF HoldInv
  <2> QED BY <1>4, <2>1, <2>2, <2>3 DEF PongTypeOK
<1>8. \A u, v \in Holding' : u # v => conn'[u] # conn'[v]
  BY <1>1, <1>5 DEF HoldInv, Holding, PongTypeOK
<1>9. \A i \in Slots : con_status'[i] = "CON_INUSE" => \E u \in Thread : conn'[u] = con_ptr'[i]
  <2> SUFFICES ASSUME NEW i \in Slots, con_status'[i] = "CON_INUSE"
               PROVE  \E u \in Thread : conn'[u] = con_ptr'[i]
    OBVIOUS
  <2>1. i # s /\ con_status[i] = "CON_INUSE"
    BY <1>4 DEF PongTypeOK
  <2>2. PICK u \in Thread : conn[u] = con_ptr[i]
    BY <2>1 DEF HoldInv
  <2>3. u # t
    BY <1>3, <2>1, <2>2, SlotFound
  <2> QED BY <1>1, <1>4, <2>2, <2>3 DEF PongTypeOK
<1> QED BY <1>4, <1>6, <1>7, <1>8, <1>9 DEF HoldInv

\* Every step keeps the pool and its correspondence with the threads.
LEMMA PoolStep ==
    ASSUME PongTypeOK, PoolInv, HoldInv, [Next]_vars
    PROVE  PoolInv' /\ HoldInv'
<1>1. CASE Still \/ MainCheck \/ MainCount
  BY <1>1, KeepsPool DEF Still, MainCheck, MainCount, KeepsConnections, poolvars, threadvars
<1>2. ASSUME NEW t \in Thread, MainCreate(t) \/ Leave(t)
      PROVE  PoolInv' /\ HoldInv'
  BY <1>2, KeepsPool DEF MainCreate, Leave, At, Go, KeepsConnections, poolvars, PongTypeOK, Busy
<1>3. ASSUME NEW t \in Thread, Advance(t)
      PROVE  PoolInv' /\ HoldInv'
  <2>1. CASE \E c \in Address : GetConn(t, c)
    BY <2>1, GetHold, GetPool DEF GetConn
  <2>2. CASE Discard(t) \/ Release(t)
    BY <2>2, ReleaseHold
  <2> QED BY <1>3, <2>1, <2>2, AdvanceKeeps, KeepsPool DEF Advance
<1> QED BY StepCases, <1>1, <1>2, <1>3

-----------------------------------------------------------------------------
(* The mutexes                                                             *)

\* What the mutexes protect: the position, its owner's move, and the right to send.
\* Reading may release both, and only their owner does.
LEMMA ReceiveLocks ==
    ASSUME PongTypeOK, LockInv, NEW t \in Thread, Receive(t)
    PROVE  LockInv'
<1>1. PICK new \in Open, code \in StatusCode :
          ReadMore(t, new, code) \/ \E says \in {"ok", "stop", "error"} : ReadLast(t, new, code, says)
  BY DEF Receive
<1>2. loc[t] = "reading" /\ UNCHANGED <<move, ball>>
  BY <1>1 DEF ReadMore, ReadLast, Read, At
<1>3. ~needToRelock[t] => serverLock = t /\ sendLock = t /\ move[t] = <<ball.x, ball.y>>
  BY <1>2 DEF LockInv, OwnsPosition, OwnsSend
<1>4. CASE ReadMore(t, new, code) /\ ReleasesEarly(t, new)
  <2>1. /\ needToRelock' = [needToRelock EXCEPT ![t] = TRUE]
        /\ loc' = loc /\ sendLock' = Nobody /\ serverLock' = Nobody
    BY <1>4 DEF ReadMore
  <2>2. serverLock = t /\ sendLock = t
    BY <1>3, <1>4 DEF ReleasesEarly
  <2>3. \A u \in Thread : ~OwnsPosition(u)' /\ ~OwnsSend(u)' /\ (loc'[u] = "relock" => needToRelock'[u])
    <3> SUFFICES ASSUME NEW u \in Thread
                 PROVE  ~OwnsPosition(u)' /\ ~OwnsSend(u)' /\ (loc'[u] = "relock" => needToRelock'[u])
      OBVIOUS
    <3>1. CASE u = t
      BY <1>2, <2>1, <3>1 DEF OwnsPosition, OwnsSend, PongTypeOK
    <3>2. CASE u # t
      <4>1. ~OwnsPosition(u) /\ ~OwnsSend(u) /\ (loc[u] = "relock" => needToRelock[u])
        BY <2>2, <3>2 DEF LockInv
      <4>2. needToRelock'[u] = needToRelock[u] /\ loc'[u] = loc[u]
        BY <2>1, <3>2 DEF PongTypeOK
      <4> QED BY <4>1, <4>2 DEF OwnsPosition, OwnsSend
    <3> QED BY <3>1, <3>2
  <2> QED BY <2>1, <2>3 DEF LockInv
<1>5. CASE ReadMore(t, new, code) /\ ~ReleasesEarly(t, new)
  BY <1>2, <1>5 DEF ReadMore, LockInv, OwnsPosition, OwnsSend
<1>6. ASSUME NEW says \in {"ok", "stop", "error"}, ReadLast(t, new, code, says)
      PROVE  LockInv'
  <2>1. UNCHANGED <<needToRelock, sendLock, serverLock>>
    BY <1>6 DEF ReadLast
  <2>2. PICK l : /\ loc' = [loc EXCEPT ![t] = l]
                 /\ l = "answered" \/ (l = "relock" /\ needToRelock[t])
                    \/ (l = "stopped" /\ ~needToRelock[t])
    BY <1>6 DEF ReadLast, Go
  <2>3. ASSUME NEW u \in Thread
        PROVE  /\ OwnsPosition(u)' => OwnsPosition(u)
               /\ OwnsSend(u)' => OwnsSend(u)
               /\ loc'[u] = "relock" => needToRelock'[u]
    <3>1. CASE u = t
      BY <1>2, <2>1, <2>2, <3>1 DEF OwnsPosition, OwnsSend, PongTypeOK
    <3>2. CASE u # t
      BY <2>1, <2>2, <3>2 DEF OwnsPosition, OwnsSend, PongTypeOK, LockInv
    <3> QED BY <3>1, <3>2
  <2> QED BY <1>2, <2>1, <2>3 DEF LockInv
<1> QED BY <1>1, <1>4, <1>5, <1>6

\* The owner of the position and of the sending mutex gives both or only the
\* latter away when it knows whether it was answered.
LEMMA AnswerLocks ==
    ASSUME PongTypeOK, LockInv, NEW t \in Thread, GiveUp(t) \/ Accept(t)
    PROVE  LockInv'
<1>1. loc[t] = "answered"
  BY DEF GiveUp, Accept, At
<1>2. ~needToRelock[t] => serverLock = t /\ sendLock = t /\ move[t] = <<ball.x, ball.y>>
  BY <1>1 DEF LockInv, OwnsPosition, OwnsSend
<1>3. CASE GiveUp(t)
  <2>1. /\ ~needToRelock[t] /\ sendLock' = Nobody /\ loc' = [loc EXCEPT ![t] = "discard"]
        /\ UNCHANGED <<needToRelock, move, ball, serverLock>>
    BY <1>3 DEF GiveUp, Go
  <2>2. ASSUME NEW u \in Thread
        PROVE  /\ OwnsPosition(u)' => OwnsPosition(u)
               /\ ~OwnsSend(u)'
               /\ loc'[u] = "relock" => needToRelock'[u]
    <3>1. CASE u = t
      BY <1>1, <2>1, <3>1 DEF OwnsPosition, OwnsSend, PongTypeOK
    <3>2. CASE u # t
      BY <1>2, <2>1, <3>2 DEF OwnsPosition, OwnsSend, PongTypeOK, LockInv
    <3> QED BY <3>1, <3>2
  <2> QED BY <2>1, <2>2 DEF LockInv
<1>4. CASE Accept(t)
  <2>1. /\ loc' = [loc EXCEPT ![t] = "release"] /\ ball' = ball
        /\ needToRelock' = [needToRelock EXCEPT ![t] = FALSE]
        /\ move' = [move EXCEPT ![t] = <<0, 0>>]
    BY <1>4 DEF Accept, Go
  <2>2. ~OwnsPosition(t)' /\ ~OwnsSend(t)' /\ loc'[t] # "relock"
    BY <2>1 DEF OwnsPosition, OwnsSend, PongTypeOK
  <2>3. CASE needToRelock[t]
    <3>1. UNCHANGED <<sendLock, serverLock>>
      BY <1>4, <2>3 DEF Accept
    <3>2. ASSUME NEW u \in Thread, u # t
          PROVE  /\ OwnsPosition(u)' => OwnsPosition(u) /\ move'[u] = move[u]
                 /\ OwnsSend(u)' => OwnsSend(u)
                 /\ loc'[u] = "relock" => needToRelock'[u]
      BY <2>1, <3>2 DEF OwnsPosition, OwnsSend, PongTypeOK, LockInv
    <3> QED BY <2>1, <2>2, <3>1, <3>2 DEF LockInv
  <2>4. CASE ~needToRelock[t]
    <3>1. sendLock' = Nobody /\ serverLock' = Nobody
      BY <1>4, <2>4 DEF Accept
    <3>2. ASSUME NEW u \in Thread, u # t
          PROVE  /\ ~OwnsPosition(u)' /\ ~OwnsSend(u)'
                 /\ loc'[u] = "relock" => needToRelock'[u]
      BY <1>2, <2>1, <2>4, <3>2 DEF OwnsPosition, OwnsSend, PongTypeOK, LockInv
    <3> QED BY <2>1, <2>2, <3>1, <3>2 DEF LockInv
  <2> QED BY <2>3, <2>4
<1> QED BY <1>3, <1>4

\* The other steps of a thread.
LEMMA AdvanceLocks ==
    ASSUME PongTypeOK, LockInv, NEW t \in Thread, Advance(t)
    PROVE  LockInv'
<1> USE DEF At, Go, PongTypeOK
<1>0. Nobody \notin Thread
  BY BoardAssumption
<1>1. CASE TakePosition(t)
  <2>1. \A u \in Thread : ~OwnsPosition(u)
    BY <1>0, <1>1 DEF TakePosition, LockInv
  <2>2. /\ serverLock' = t /\ ball' = Moved(ball) /\ loc' = [loc EXCEPT ![t] = "getConn"]
        /\ move' = [move EXCEPT ![t] = <<ball'.x, ball'.y>>]
        /\ UNCHANGED <<needToRelock, sendLock>> /\ loc[t] = "start"
    BY <1>1 DEF TakePosition
  <2>4. move'[t] = <<ball'.x, ball'.y>>
    BY <2>2
  <2>5. ASSUME NEW u \in Thread
        PROVE  /\ OwnsPosition(u)' => u = t
               /\ OwnsSend(u)' => OwnsSend(u)
               /\ loc'[u] = "relock" => needToRelock'[u]
    <3>1. CASE u = t
      BY <2>2, <3>1 DEF OwnsPosition, OwnsSend
    <3>2. CASE u # t
      BY <2>1, <2>2, <3>2 DEF OwnsPosition, OwnsSend, LockInv
    <3> QED BY <3>1, <3>2
  <2> QED BY <2>2, <2>4, <2>5 DEF LockInv
<1>2. CASE LockPool(t) \/ \E c \in Address : GetConn(t, c)
  <2>1. /\ loc[t] \in {"getConn", "connecting"}
        /\ \E l \in {"connecting", "wantSend"} : loc' = [loc EXCEPT ![t] = l]
        /\ UNCHANGED <<needToRelock, move, ball, serverLock, sendLock>>
    BY <1>2 DEF LockPool, GetConn
  <2>2. ASSUME NEW u \in Thread
        PROVE  /\ OwnsPosition(u)' => OwnsPosition(u)
               /\ OwnsSend(u)' => OwnsSend(u)
               /\ loc'[u] = "relock" => needToRelock'[u]
    BY <2>1 DEF OwnsPosition, OwnsSend, LockInv
  <2> QED BY <2>1, <2>2 DEF LockInv
<1>3. CASE LockSend(t) \/ Relock(t)
  <2>1. /\ \/ (loc[t] = "wantSend" /\ loc' = [loc EXCEPT ![t] = "send"])
           \/ (loc[t] = "relock" /\ loc' = [loc EXCEPT ![t] = "stopped"])
        /\ sendLock = Nobody /\ sendLock' = t
        /\ UNCHANGED <<needToRelock, move, ball, serverLock>>
    <3>1. CASE LockSend(t)
      BY <3>1 DEF LockSend
    <3>2. CASE Relock(t)
      BY <3>2 DEF Relock
    <3> QED BY <1>3, <3>1, <3>2
  <2>2. ASSUME NEW u \in Thread
        PROVE  /\ OwnsPosition(u)' => OwnsPosition(u)
               /\ OwnsSend(u)' => u = t
               /\ loc'[u] = "relock" => needToRelock'[u]
    BY <1>0, <2>1 DEF OwnsPosition, OwnsSend, LockInv
  <2> QED BY <2>1, <2>2 DEF LockInv
<1>4. CASE Send(t)
  <2>1. /\ loc[t] = "send" /\ loc' = [loc EXCEPT ![t] = "reading"]
        /\ needToRelock' = [needToRelock EXCEPT ![t] = FALSE]
        /\ UNCHANGED <<move, ball, serverLock, sendLock>>
    BY <1>4 DEF Send, locks
  <2>2. ASSUME NEW u \in Thread
        PROVE  /\ OwnsPosition(u)' => OwnsPosition(u)
               /\ OwnsSend(u)' => OwnsSend(u)
               /\ loc'[u] = "relock" => needToRelock'[u]
    <3>1. CASE u = t
      BY <2>1, <3>1 DEF OwnsPosition, OwnsSend
    <3>2. CASE u # t
      BY <2>1, <3>2 DEF OwnsPosition, OwnsSend, LockInv
    <3> QED BY <3>1, <3>2
  <2> QED BY <2>1, <2>2 DEF LockInv
<1>5. CASE PauseOver(t)
  <2>1. /\ loc[t] = "stopped" /\ loc' = [loc EXCEPT ![t] = "answered"]
        /\ sendLock' = IF needToRelock[t] THEN Nobody ELSE sendLock
        /\ UNCHANGED <<needToRelock, move, ball, serverLock>>
    BY <1>5 DEF PauseOver
  <2>2. sendLock = t
    BY <2>1 DEF LockInv, OwnsSend
  <2>3. ASSUME NEW u \in Thread
        PROVE  /\ OwnsPosition(u)' => OwnsPosition(u)
               /\ OwnsSend(u)' => u = t /\ ~needToRelock[t]
               /\ loc'[u] = "relock" => needToRelock'[u]
    <3>1. CASE u = t
      BY <2>1, <3>1 DEF OwnsPosition, OwnsSend
    <3>2. CASE u # t
      BY <2>1, <2>2, <3>2 DEF OwnsPosition, OwnsSend, LockInv
    <3> QED BY <3>1, <3>2
  <2> QED BY <2>1, <2>2, <2>3 DEF LockInv
<1>6. CASE Discard(t) \/ Release(t)
  <2>1. /\ \/ (loc[t] = "discard" /\ loc' = [loc EXCEPT ![t] = "getConn"])
           \/ (loc[t] = "release" /\ loc' = [loc EXCEPT ![t] = "leave"])
        /\ UNCHANGED <<needToRelock, move, ball, serverLock, sendLock>>
    <3>1. CASE Discard(t)
      BY <3>1 DEF Discard, locks
    <3>2. CASE Release(t)
      BY <3>2 DEF Release, locks
    <3> QED BY <1>6, <3>1, <3>2
  <2>2. ASSUME NEW u \in Thread
        PROVE  /\ OwnsPosition(u)' => OwnsPosition(u)
               /\ OwnsSend(u)' => OwnsSend(u)
               /\ loc'[u] = "relock" => needToRelock'[u]
    BY <2>1 DEF OwnsPosition, OwnsSend, LockInv
  <2> QED BY <2>1, <2>2 DEF LockInv
<1> QED BY <1>1, <1>2, <1>3, <1>4, <1>5, <1>6, ReceiveLocks, AnswerLocks DEF Advance

\* Every step keeps the mutexes with their owners.
LEMMA LockStep ==
    ASSUME PongTypeOK, LockInv, [Next]_vars
    PROVE  LockInv'
<1>1. CASE Still \/ MainCheck \/ MainCount
  BY <1>1 DEF Still, MainCheck, MainCount, threadvars, locks, LockInv, OwnsPosition, OwnsSend
<1>2. ASSUME NEW t \in Thread, MainCreate(t) \/ Leave(t)
      PROVE  LockInv'
  <2>1. /\ \E l \in {"start", "none"} : loc' = [loc EXCEPT ![t] = l]
        /\ UNCHANGED <<needToRelock, move, ball, serverLock, sendLock>>
    BY <1>2 DEF MainCreate, Leave, Go, locks
  <2>2. ASSUME NEW u \in Thread
        PROVE  /\ OwnsPosition(u)' => OwnsPosition(u)
               /\ OwnsSend(u)' => OwnsSend(u)
               /\ loc'[u] = "relock" => needToRelock'[u]
    BY <2>1 DEF OwnsPosition, OwnsSend, LockInv, PongTypeOK
  <2> QED BY <2>1, <2>2 DEF LockInv
<1> QED BY StepCases, AdvanceLocks, <1>1, <1>2

-----------------------------------------------------------------------------
(* Status codes                                                            *)

\* A thread that advances does not touch what the others know of theirs.
LEMMA OthersKeep ==
    ASSUME PongTypeOK, PoolInv, HoldInv, NEW t \in Thread, Advance(t), NEW u \in Thread, u # t
    PROVE  /\ loc'[u] = loc[u]
           /\ loc[u] \in Busy => /\ conn'[u] = conn[u]
                                 /\ http_state'[conn[u]] = http_state[conn[u]]
                                 /\ Code(u)' = Code(u)
<1> USE DEF At, Go, PongTypeOK
<1>1. CASE \E c \in Address : GetConn(t, c)
  <2>1. PICK c \in Address : GetConn(t, c)
    BY <1>1
  <2>2. loc'[u] = loc[u] /\ conn'[u] = conn[u] /\ status_code' = status_code
    BY <2>1 DEF GetConn, Reuse, Connect
  <2>3. ASSUME loc[u] \in Busy
        PROVE  http_state'[conn[u]] = http_state[conn[u]]
    <3>1. PICK i \in Slots : con_ptr[i] = conn[u] /\ con_status[i] = "CON_INUSE"
      BY <2>3 DEF HoldInv, Holding
    <3>2. http_state[conn[u]] # "freed" /\ conn[u] \in Address
      BY <3>1 DEF PoolInv
    <3> QED BY <2>1, <3>2 DEF GetConn, Reuse, Connect
  <2> QED BY <2>2, <2>3 DEF Code
<1>2. CASE ~\E c \in Address : GetConn(t, c)
  <2>1. /\ loc'[u] = loc[u] /\ conn'[u] = conn[u]
        /\ \A a \in Address : a # conn[t] => http_state'[a] = http_state[a] /\ status_code'[a] = status_code[a]
    <3>1. CASE TakePosition(t) \/ LockPool(t) \/ LockSend(t)
      BY <3>1 DEF TakePosition, LockPool, LockSend, poolvars
    <3>2. CASE Send(t)
      BY <3>2 DEF Send
    <3>3. CASE Receive(t)
      <4>1. PICK new \in Open, code \in StatusCode :
                ReadMore(t, new, code) \/ \E says \in {"ok", "stop", "error"} : ReadLast(t, new, code, says)
        BY <3>3 DEF Receive
      <4>2. Read(t, new, code)
        BY <4>1 DEF ReadMore, ReadLast
      <4>3. loc'[u] = loc[u]
        BY <4>1 DEF ReadMore, ReadLast
      <4> QED BY <4>2, <4>3 DEF Read
    <3>4. CASE Relock(t) \/ PauseOver(t)
      BY <3>4 DEF Relock, PauseOver, poolvars
    <3>5. CASE GiveUp(t) \/ Accept(t)
      BY <3>5 DEF GiveUp, Accept, poolvars
    <3>6. CASE Discard(t) \/ Release(t)
      BY <3>6 DEF Discard, Release, releaseConn
    <3> QED BY <1>2, <3>1, <3>2, <3>3, <3>4, <3>5, <3>6 DEF Advance
  <2>2. ASSUME loc[u] \in Busy
        PROVE  conn[u] # conn[t] /\ conn[u] \in Address
    BY <2>2 DEF HoldInv, Holding
  <2> QED BY <2>1, <2>2 DEF Code
<1> QED BY <1>1, <1>2

\* What one read tells about the status.
LEMMA ReadFacts ==
    ASSUME PongTypeOK, HoldInv, CodeInv, NEW t \in Thread, NEW new \in Open, NEW code \in StatusCode,
           Read(t, new, code)
    PROVE  /\ loc[t] = "reading" /\ conn[t] \in Address /\ conn' = conn
           /\ http_state'[conn[t]] = new /\ Code(t)' = code
           /\ Code(t) # -1 => code # -1
           /\ new \notin {"HTTP_INITIAL", "HTTP_BROKEN"} => code # -1
           /\ http_state[conn[t]] # "HTTP_INITIAL" => code # -1
<1>1. loc[t] = "reading" /\ conn' = conn
  BY DEF Read, At
<1>2. conn[t] \in Address
  BY <1>1 DEF HoldInv, Busy, PongTypeOK
<1>3. http_state'[conn[t]] = new /\ Code(t)' = code
  BY <1>1, <1>2 DEF Read, Code, PongTypeOK
<1>4. CASE StatusLineSeen(http_state[conn[t]], new)
  BY <1>1, <1>2, <1>3, <1>4 DEF Read
<1>5. CASE ~StatusLineSeen(http_state[conn[t]], new)
  <2>1. code = Code(t)
    BY <1>5 DEF Read, Code
  <2>2. http_state[conn[t]] # "HTTP_INITIAL" => Code(t) # -1
    BY <1>1 DEF CodeInv
  <2> QED BY <1>1, <1>2, <1>3, <1>5, <2>1, <2>2 DEF StatusLineSeen
<1> QED BY <1>4, <1>5

\* Every step keeps the status codes in line with what has been read.
LEMMA CodeStep ==
    ASSUME PongTypeOK, PoolInv, HoldInv, CodeInv, [Next]_vars
    PROVE  CodeInv'
<1> USE DEF At, Go, PongTypeOK
<1> DEFINE Ok(t) ==
              /\ loc[t] = "reading" => http_state[conn[t]] \in {"HTTP_INITIAL", "HTTP_HEADERS", "HTTP_BODY"}
              /\ loc[t] = "reading" /\ http_state[conn[t]] # "HTTP_INITIAL" => Code(t) # -1
              /\ loc[t] \in {"relock", "stopped"} => Code(t) # -1
<1>1. CASE Still \/ MainCheck \/ MainCount
  BY <1>1 DEF Still, MainCheck, MainCount, poolvars, threadvars, CodeInv, Code
<1>2. ASSUME NEW t \in Thread, MainCreate(t) \/ Leave(t)
      PROVE  CodeInv'
  BY <1>2 DEF MainCreate, Leave, poolvars, CodeInv, Code
<1>3. ASSUME NEW t \in Thread, Advance(t)
      PROVE  CodeInv'
  <2>1. ASSUME NEW u \in Thread, u # t
        PROVE  Ok(u)'
    BY <1>3, <2>1, OthersKeep DEF CodeInv, Busy
  <2>2. Ok(t)'
    <3>1. CASE Send(t)
      <4>1. conn[t] \in Address
        BY <3>1 DEF Send, HoldInv, Busy
      <4> QED BY <3>1, <4>1 DEF Send
    <3>2. CASE Receive(t)
      <4>1. PICK new \in Open, code \in StatusCode :
                ReadMore(t, new, code) \/ \E says \in {"ok", "stop", "error"} : ReadLast(t, new, code, says)
        BY <3>2 DEF Receive
      <4>2. CASE ReadMore(t, new, code)
        <5>1. Read(t, new, code) /\ new \in {"HTTP_INITIAL", "HTTP_HEADERS", "HTTP_BODY"} /\ loc' = loc
          BY <4>2 DEF ReadMore
        <5> QED BY <5>1, ReadFacts
      <4>3. ASSUME NEW says \in {"ok", "stop", "error"}, ReadLast(t, new, code, says)
            PROVE  Ok(t)'
        <5>1. Read(t, new, code)
          BY <4>3 DEF ReadLast
        <5>2. /\ loc'[t] \in {"answered", "relock", "stopped"}
              /\ loc'[t] # "answered" => BodySeen(http_state[conn[t]], new)
          BY <4>3 DEF ReadLast
        <5>3. BodySeen(http_state[conn[t]], new) => code # -1
          BY <5>1, ReadFacts DEF BodySeen
        <5> QED BY <5>1, <5>2, <5>3, ReadFacts
      <4> QED BY <4>1, <4>2, <4>3
    <3>3. CASE Relock(t)
      BY <3>3 DEF Relock, poolvars, CodeInv, Code
    <3>4. CASE ~Send(t) /\ ~Receive(t) /\ ~Relock(t)
      <4>1. loc'[t] \notin {"reading", "relock", "stopped"}
        BY <1>3, <3>4 DEF Advance, TakePosition, LockPool, GetConn, LockSend, PauseOver, GiveUp,
                          Accept, Discard, Release
      <4> QED BY <4>1
    <3> QED BY <3>1, <3>2, <3>3, <3>4
  <2> QED BY <2>1, <2>2 DEF CodeInv
<1> QED BY StepCases, <1>1, <1>2, <1>3

-----------------------------------------------------------------------------
(* The theorems                                                            *)

\* The inductive invariant of the client holds in every reachable state.
THEOREM PongInvariant == Spec => []IInv
<1>1. Init => IInv
  <2> SUFFICES ASSUME Init PROVE IInv
    OBVIOUS
  <2> USE DEF Init, PoolInit
  <2>1. PongTypeOK
    <3>1. <<0, 0>> \in Position /\ 0 \in 0..Width-1 /\ 0 \in 0..Height-1 /\ 0 \in -1..MAXTHREADS
      BY BoardAssumption DEF Position
    <3> QED BY <3>1 DEF PongTypeOK, ConStatus, StatusCode, Location
  <2>2. PoolInv /\ HoldInv
    BY DEF PoolInv, HoldInv, Holding, Busy
  <2>3. LockInv /\ CodeInv
    BY DEF LockInv, OwnsPosition, OwnsSend, CodeInv
  <2>4. CountInv
    <3>1. Live = {}
      BY DEF Live
    <3> QED BY <3>1, FS_EmptySet, BoardAssumption DEF CountInv, Uncounted
  <2> QED BY <2>1, <2>2, <2>3, <2>4 DEF IInv
<1>2. IInv /\ [Next]_vars => IInv'
  BY TypeStep, PoolStep, LockStep, CodeStep, CountStep DEF IInv
<1> QED BY <1>1, <1>2, PTL DEF Spec

\* The type invariant.
THEOREM PongTypeCorrect == Spec => []PongTypeOK
<1>1. IInv => PongTypeOK
  BY DEF IInv
<1> QED BY <1>1, PongInvariant, PTL

\* releaseConn always finds the slot of the connection it is given.
THEOREM OwnSlotFound == Spec => []SlotIsMine
<1>1. IInv => SlotIsMine
  <2> SUFFICES ASSUME IInv, NEW t \in Holding
               PROVE  /\ \E i \in Slots : con_ptr[i] = conn[t] /\ con_status[i] = "CON_INUSE"
                      /\ con_status[slotOfConnection(conn[t])] = "CON_INUSE"
    BY DEF SlotIsMine
  <2>1. PICK i \in Slots : con_ptr[i] = conn[t] /\ con_status[i] = "CON_INUSE"
    BY DEF IInv, HoldInv
  <2>2. slotOfConnection(conn[t]) = i
    BY <2>1, SlotFound DEF IInv
  <2> QED BY <2>1, <2>2
<1> QED BY <1>1, PongInvariant, PTL

\* No two threads share a connection and none is used after it was freed.
THEOREM NoConnectionShared == Spec => []ConnectionsExclusive
<1>1. IInv => ConnectionsExclusive
  <2> SUFFICES ASSUME IInv PROVE ConnectionsExclusive
    OBVIOUS
  <2>1. \A t, u \in Holding : t # u => conn[t] # conn[u]
    BY DEF IInv, HoldInv
  <2>2. \A t \in Holding : http_state[conn[t]] # "freed"
    <3> SUFFICES ASSUME NEW t \in Holding PROVE http_state[conn[t]] # "freed"
      OBVIOUS
    <3>1. PICK i \in Slots : con_ptr[i] = conn[t] /\ con_status[i] = "CON_INUSE"
      BY DEF IInv, HoldInv
    <3> QED BY <3>1 DEF IInv, PoolInv
  <2>3. \A i \in Slots : con_status[i] = "CON_VALID" =>
            con_ptr[i] # NULL /\ http_state[con_ptr[i]] # "freed"
    BY DEF IInv, PoolInv
  <2> QED BY <2>1, <2>2, <2>3 DEF ConnectionsExclusive
<1> QED BY <1>1, PongInvariant, PTL

\* There are never more than MAXTHREADS threads, although main reads the count in
\* one critical section and increments it in another.
THEOREM ThreadsLimited == Spec => []ThreadLimit
<1>1. IInv => ThreadLimit
  BY DEF IInv, CountInv, ThreadLimit
<1> QED BY <1>1, PongInvariant, PTL

\* With a slot for every thread getConn's assertion never fails.
THEOREM SlotsSuffice ==
    ASSUME NCONNECTIONS >= MAXTHREADS
    PROVE  Spec => []NoDoom
<1>1. IInv => NoDoom
  <2> SUFFICES ASSUME IInv, NEW t \in Thread, At(t, "connecting"), NoSlot
               PROVE  FALSE
    BY DEF NoDoom
  <2> DEFINE f == [i \in Slots |-> CHOOSE u \in Thread : conn[u] = con_ptr[i]]
  <2>1. \A i \in Slots : con_status[i] = "CON_INUSE"
    BY DEF NoSlot, SlotsWithStatus, IInv, PongTypeOK, ConStatus
  <2>2. \A i \in Slots : f[i] \in Thread /\ conn[f[i]] = con_ptr[i]
    BY <2>1 DEF IInv, HoldInv
  <2>3. \A i \in Slots : con_ptr[i] # NULL
    BY <2>1 DEF IInv, PoolInv
  <2> HIDE DEF f
  <2>4. f \in [Slots -> Holding]
    BY <2>2, <2>3 DEF Holding, f
  <2>5. Holding \subseteq Live \ {t} /\ t \in Live
    BY DEF At, Holding, Live, IInv, HoldInv, Busy
  <2>6. IsFiniteSet(Live \ {t}) /\ Cardinality(Live \ {t}) = Cardinality(Live) - 1
    BY <2>5, FS_RemoveElement DEF IInv, CountInv
  <2>7. IsFiniteSet(Holding) /\ Cardinality(Holding) <= Cardinality(Live \ {t})
    BY <2>5, <2>6, FS_Subset
  <2>8. Cardinality(Live) <= MAXTHREADS /\ Cardinality(Live) \in Nat /\ Cardinality(Holding) \in Nat
    BY <2>7, FS_CardinalityType DEF IInv, CountInv
  <2>9. IsFiniteSet(Slots) /\ Cardinality(Slots) = NCONNECTIONS
    <3>1. NCONNECTIONS \in Nat /\ 0 \in Int /\ NCONNECTIONS - 1 \in Int
      BY PoolAssumption
    <3>2. IsFiniteSet(0..NCONNECTIONS-1)
          /\ Cardinality(0..NCONNECTIONS-1) = IF 0 > NCONNECTIONS-1 THEN 0 ELSE (NCONNECTIONS-1) - 0 + 1
      BY <3>1, FS_Interval
    <3> QED BY <3>1, <3>2 DEF Slots
  <2>10. Cardinality(Holding) < Cardinality(Slots)
    BY <2>6, <2>7, <2>8, <2>9, PoolAssumption, BoardAssumption
  <2>11. PICK i, j \in Slots : i # j /\ f[i] = f[j]
    BY <2>4, <2>7, <2>9, <2>10, FS_PigeonHole
  <2>12. con_ptr[i] = con_ptr[j]
    BY <2>2, <2>11
  <2> QED BY <2>1, <2>11, <2>12, SlotFound DEF IInv
<1> QED BY <1>1, PongInvariant, PTL

\* While the server has asked for a pause nobody sends a request.
THEOREM PausesKept == Spec => PauseKept
<1>1. IInv => \A t, u \in Thread : ~(loc[t] = "stopped" /\ loc[u] = "send")
  BY DEF IInv, LockInv, OwnsSend
<1>2. IInv /\ [Next]_vars =>
          [(\E t \in Thread : loc[t] = "stopped") =>
               \A t \in Thread : ~(loc[t] = "send" /\ loc'[t] = "reading")]_vars
  BY <1>1
<1> QED BY <1>2, PongInvariant, PTL DEF Spec, PauseKept

\* Every request is for the position the ball is at.
THEOREM MovesOrdered == Spec => MovesInOrder
<1>1. IInv => \A t \in Thread : loc[t] = "send" => move[t] = <<ball.x, ball.y>>
  BY DEF IInv, LockInv, OwnsPosition
<1>2. IInv /\ [Next]_vars =>
          [\A t \in Thread : loc[t] = "send" /\ loc'[t] = "reading" =>
               move[t] = <<ball.x, ball.y>>]_vars
  BY <1>1
<1> QED BY <1>2, PongInvariant, PTL DEF Spec, MovesInOrder

-----------------------------------------------------------------------------
(* The client implements the game                                          *)

\* Whether the position of the ball still waits for an answer or to be passed on.
Pending == \E t \in Thread : serverLock = t /\ Unanswered(t)

\* Where the game stands, by whether the position is pending.
LEMMA AnsweredFacts ==
    /\ Pending => Answered = <<ball.x - ball.dx, ball.y - ball.dy>>
    /\ ~Pending => Answered = <<ball.x, ball.y>>
    /\ Pending' => Answered' = <<ball'.x - ball'.dx, ball'.y - ball'.dy>>
    /\ ~Pending' => Answered' = <<ball'.x, ball'.y>>
  BY DEF Answered, Pending

\* The position stays pending or not when its owner and the ball stay what they are.
LEMMA PendingSame ==
    ASSUME NEW t \in Thread, serverLock' = serverLock, ball' = ball,
           serverLock = t => (Unanswered(t)' <=> Unanswered(t)),
           \A u \in Thread : u # t => (Unanswered(u)' <=> Unanswered(u))
    PROVE  Answered' = Answered
<1>1. Pending' <=> Pending
  BY DEF Pending
<1> QED BY <1>1, AnsweredFacts

\* What another thread waits for does not change when a thread advances.
LEMMA OthersUnanswered ==
    ASSUME PongTypeOK, PoolInv, HoldInv, NEW t \in Thread, Advance(t), NEW u \in Thread, u # t
    PROVE  Unanswered(u)' <=> Unanswered(u)
  BY OthersKeep DEF Unanswered, Busy

\* A read that brings the status line, or lets the next thread go ahead, moves the
\* game one step; any other leaves it where it is.
LEMMA ReceiveGame ==
    ASSUME IInv, NEW t \in Thread, Receive(t)
    PROVE  Game!Step \/ Answered' = Answered
<1>0. PongTypeOK /\ PoolInv /\ HoldInv /\ LockInv /\ CodeInv /\ Advance(t)
  BY DEF IInv, Advance
<1>1. PICK new \in Open, code \in StatusCode :
          ReadMore(t, new, code) \/ \E says \in {"ok", "stop", "error"} : ReadLast(t, new, code, says)
  BY DEF Receive
<1>2. Read(t, new, code)
  BY <1>1 DEF ReadMore, ReadLast
<1>3. Running /\ Running' /\ ball' = ball /\ loc[t] = "reading"
  BY <1>2 DEF Read, At, Running
<1>4. \A u \in Thread : u # t => (Unanswered(u)' <=> Unanswered(u))
  BY <1>0, OthersUnanswered
<1>5. Code(t) # -1 => ~Unanswered(t)'
  <2>1. Code(t) # -1 => Code(t)' # -1
    BY <1>0, <1>2, ReadFacts
  <2>2. loc'[t] \in {"reading", "answered", "relock", "stopped"}
    BY <1>0, <1>1, <1>3 DEF ReadMore, ReadLast, Go, PongTypeOK
  <2> QED BY <2>1, <2>2 DEF Unanswered
<1>6. serverLock' = serverLock \/ (serverLock = t /\ serverLock' = Nobody)
  <2>1. ReleasesEarly(t, new) => serverLock = t
    BY <1>0, <1>3 DEF ReleasesEarly, LockInv, OwnsPosition
  <2> QED BY <1>1, <2>1 DEF ReadMore, ReadLast
<1>7. Nobody \notin Thread
  BY BoardAssumption
<1>8. Unanswered(t) <=> Code(t) = -1
  BY <1>3 DEF Unanswered
<1>9. CASE Pending /\ ~Pending'
  <2>1. Answered = <<ball.x - ball.dx, ball.y - ball.dy>> /\ Answered' = <<ball.x, ball.y>>
    BY <1>3, <1>9, AnsweredFacts
  <2>2. ball.x \in 0..Width-1 /\ ball.y \in 0..Height-1 /\ ball.dx \in {-1, 1} /\ ball.dy \in {-1, 1}
    BY <1>0 DEF PongTypeOK
  <2>3. ball.x = (ball.x - ball.dx) + ball.dx /\ ball.y = (ball.y - ball.dy) + ball.dy
    BY <2>2, BoardAssumption
  <2>4. \E dx, dy \in {-1, 1} : Answered' = <<Answered[1] + dx, Answered[2] + dy>>
    BY <2>1, <2>2, <2>3
  <2>5. Answered' \in Game!Board
    BY <2>1, <2>2 DEF Game!Board
  <2> QED BY <1>3, <2>4, <2>5 DEF Game!Step
<1>10. CASE Pending' <=> Pending
  BY <1>3, <1>10, AnsweredFacts
<1>11. CASE ~Pending /\ Pending'
  <2>1. PICK u \in Thread : serverLock' = u /\ Unanswered(u)'
    BY <1>11 DEF Pending
  <2>2. serverLock = u
    BY <1>6, <1>7, <2>1
  <2>3. ~Unanswered(u)
    BY <1>11, <2>2 DEF Pending
  <2> QED BY <1>4, <1>5, <1>8, <2>1, <2>3
<1> QED BY <1>9, <1>10, <1>11

\* The other steps of a thread leave the game where it is.
LEMMA AdvanceGame ==
    ASSUME IInv, NEW t \in Thread, Advance(t), ~Receive(t)
    PROVE  Answered' = Answered
<1>0. PongTypeOK /\ PoolInv /\ HoldInv /\ LockInv /\ CodeInv
  BY DEF IInv
<1>1. \A u \in Thread : u # t => (Unanswered(u)' <=> Unanswered(u))
  BY <1>0, OthersUnanswered
<1>2. Nobody \notin Thread
  BY BoardAssumption
<1> USE DEF At, Go
<1>3. CASE TakePosition(t)
  <2>1. ~Pending
    BY <1>2, <1>3 DEF TakePosition, Pending
  <2>2. loc'[t] = "getConn" /\ serverLock' = t /\ ball' = Moved(ball)
    BY <1>0, <1>3 DEF TakePosition, PongTypeOK
  <2>3. Pending'
    BY <2>2 DEF Pending, Unanswered
  <2> QED BY <1>0, <2>1, <2>2, <2>3, AnsweredFacts, MovedFacts
<1>4. CASE LockPool(t) \/ (\E c \in Address : GetConn(t, c)) \/ LockSend(t) \/ Send(t) \/ Discard(t)
  <2>1. serverLock' = serverLock /\ ball' = ball
    BY <1>4 DEF LockPool, GetConn, LockSend, Send, Discard, locks
  <2>2. Unanswered(t)
    BY <1>4 DEF LockPool, GetConn, LockSend, Send, Discard, Unanswered
  <2>3. Unanswered(t)'
    <3>1. CASE Send(t)
      <4>1. conn[t] \in Address
        BY <1>0, <3>1 DEF Send, HoldInv, Busy, PongTypeOK
      <4> QED BY <1>0, <3>1, <4>1 DEF Send, Unanswered, Code, PongTypeOK
    <3>2. CASE ~Send(t)
      BY <1>0, <1>4, <3>2 DEF LockPool, GetConn, LockSend, Discard, Unanswered, PongTypeOK
    <3> QED BY <3>1, <3>2
  <2> QED BY <1>1, <2>1, <2>2, <2>3, PendingSame
<1>5. CASE Relock(t) \/ PauseOver(t)
  <2>1. /\ serverLock' = serverLock /\ ball' = ball /\ UNCHANGED <<status_code, conn>>
        /\ loc[t] \in {"relock", "stopped"} /\ loc'[t] \in {"stopped", "answered"}
    BY <1>0, <1>5 DEF Relock, PauseOver, poolvars, PongTypeOK
  <2>2. Code(t) # -1 /\ Code(t)' = Code(t)
    BY <1>0, <2>1 DEF CodeInv, Code
  <2>3. ~Unanswered(t) /\ ~Unanswered(t)'
    BY <2>1, <2>2 DEF Unanswered
  <2> QED BY <1>1, <2>1, <2>3, PendingSame
<1>6. CASE GiveUp(t)
  <2>1. /\ serverLock' = serverLock /\ ball' = ball
        /\ loc[t] = "answered" /\ Code(t) = -1 /\ loc'[t] = "discard"
    BY <1>0, <1>6 DEF GiveUp, PongTypeOK
  <2>2. Unanswered(t) /\ Unanswered(t)'
    BY <2>1 DEF Unanswered
  <2> QED BY <1>1, <2>1, <2>2, PendingSame
<1>7. CASE Accept(t)
  <2>1. /\ ball' = ball /\ loc[t] = "answered" /\ Code(t) # -1 /\ loc'[t] = "release"
        /\ serverLock' = IF needToRelock[t] THEN serverLock ELSE Nobody
    BY <1>0, <1>7 DEF Accept, PongTypeOK
  <2>2. ~Unanswered(t) /\ ~Unanswered(t)'
    BY <2>1 DEF Unanswered
  <2>3. CASE needToRelock[t]
    BY <1>1, <2>1, <2>2, <2>3, PendingSame
  <2>4. CASE ~needToRelock[t]
    <3>1. serverLock = t
      BY <1>0, <2>1, <2>4 DEF LockInv, OwnsPosition
    <3>2. ~Pending
      BY <2>2, <3>1 DEF Pending
    <3>3. ~Pending'
      BY <1>2, <2>1, <2>4 DEF Pending
    <3> QED BY <2>1, <3>2, <3>3, AnsweredFacts
  <2> QED BY <2>3, <2>4
<1>8. CASE Release(t)
  <2>1. serverLock' = serverLock /\ ball' = ball /\ loc[t] = "release" /\ loc'[t] = "leave"
    BY <1>0, <1>8 DEF Release, PongTypeOK, locks
  <2>2. ~Unanswered(t) /\ ~Unanswered(t)'
    BY <2>1 DEF Unanswered
  <2> QED BY <1>1, <2>1, <2>2, PendingSame
<1> QED BY <1>3, <1>4, <1>5, <1>6, <1>7, <1>8 DEF Advance

\* The client implements the game: however threads overlap and requests are
\* retried, the server sees the ball go one step at a time.
THEOREM ClientPlaysPong == Spec => PlaysPong
<1>1. Init => Game!GameInit
  <2> SUFFICES ASSUME Init PROVE Game!GameInit
    OBVIOUS
  <2>1. ~Pending /\ ball.x = 0 /\ ball.y = 0 /\ Running
    BY BoardAssumption DEF Init, Pending, Running
  <2> QED BY <2>1, AnsweredFacts DEF Game!GameInit
<1>2. IInv /\ [Next]_vars => [Game!Step \/ Game!End]_<<Answered, ~Running>>
  <2> SUFFICES ASSUME IInv, [Next]_vars
               PROVE  Game!Step \/ Game!End \/ (Answered' = Answered /\ Running' = Running)
    OBVIOUS
  <2>1. CASE Still /\ program' \in {program, "exited", "aborted"}
    <3>1. Answered' = Answered
      BY <2>1 DEF Still, Answered, Unanswered, Code, poolvars, threadvars, locks
    <3>2. Running' = Running \/ (~Running)' = TRUE
      BY <2>1 DEF Running
    <3> QED BY <3>1, <3>2 DEF Game!End
  <2>2. CASE MainCheck \/ MainCount
    BY <2>2 DEF MainCheck, MainCount, Answered, Unanswered, Code, poolvars, threadvars, locks, Running
  <2>3. ASSUME NEW t \in Thread, MainCreate(t) \/ Leave(t)
        PROVE  Answered' = Answered /\ Running' = Running
    <3>1. /\ UNCHANGED <<serverLock, ball, conn, status_code, program>>
          /\ loc[t] \in {"none", "leave"} /\ \E l \in {"start", "none"} : loc' = [loc EXCEPT ![t] = l]
      BY <2>3 DEF MainCreate, Leave, At, Go, locks, poolvars
    <3>2. \A u \in Thread : Unanswered(u)' <=> Unanswered(u)
      BY <3>1 DEF Unanswered, Code, IInv, PongTypeOK
    <3> QED BY <3>1, <3>2, PendingSame DEF Running
  <2>4. ASSUME NEW t \in Thread, Advance(t)
        PROVE  Game!Step \/ (Answered' = Answered /\ Running' = Running)
    <3>1. Running' = Running
      BY <2>4, AdvanceLives DEF Running, IInv
    <3> QED BY <2>4, <3>1, ReceiveGame, AdvanceGame
  <2> QED BY StepCases, <2>1, <2>2, <2>3, <2>4
<1> QED BY <1>1, <1>2, PongInvariant, PTL DEF Spec, PlaysPong, Game!GameSpec
==============================================================================
