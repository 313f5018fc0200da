------------------------------ MODULE PongClient ------------------------------
(***************************************************************************)
(* The pong61 client (pset5): the main loop creates threads; each thread   *)
(* moves the ball one step and tells the server, in the order of the       *)
(* moves, although a thread whose answer is slow to arrive lets the next   *)
(* one go ahead.  The server is the environment: it may answer in pieces,  *)
(* not at all, wrongly, or ask for a pause.                                *)
(*                                                                         *)
(* An action is the code between two points where another thread can see   *)
(* or change what it depends on: the acquisition of a mutex, a blocking    *)
(* read, the creation or the end of a thread.                              *)
(***************************************************************************)
EXTENDS ConnectionPool, FiniteSets

CONSTANTS Thread, Nobody, \* thread identities; the owner of a free mutex
          MAXTHREADS,
          Width, Height  \* the board's dimensions, from the reset request

\* main() checks the dimensions only for being positive; a board one cell wide
\* sends the ball to -1 (startConnection), so the game needs 2.
ASSUME BoardAssumption == /\ Width \in Nat /\ Height \in Nat
                          /\ Width >= 2 /\ Height >= 2
                          /\ MAXTHREADS \in Nat /\ Nobody \notin Thread

VARIABLES
    loc,          \* where each thread is in startConnection
    conn,         \* its http_connection
    move,         \* the position in its url
    needToRelock, \* it has released serverLock and sendLock before the body came
    body,         \* what the response body says: "ok", "stop" or "error"
    ball,         \* the shared coord_info
    serverLock, sendLock, connLock,     \* the owner of each mutex
    nthreads,     \* the shared count of threads
    mainLoc,      \* where main() is in its loop
    program       \* "running", "exited" or "aborted" (an assertion failed)

threadvars == <<loc, conn, move, needToRelock, body>>
locks      == <<serverLock, sendLock, connLock>>
mainvars   == <<nthreads, mainLoc>>
vars == <<poolvars, threadvars, ball, locks, mainvars, program>>

Location == {"none", "start", "getConn", "connecting", "wantSend", "send", "reading",
             "relock", "stopped", "answered", "discard", "release", "leave"}

Init ==
    /\ PoolInit
    /\ loc = [t \in Thread |-> "none"]
    /\ conn = [t \in Thread |-> NULL]
    /\ move = [t \in Thread |-> <<0, 0>>]
    /\ needToRelock = [t \in Thread |-> FALSE]
    /\ body = [t \in Thread |-> "ok"]
    /\ ball = [x |-> 0, y |-> 0, dx |-> 1, dy |-> 1]
    /\ serverLock = Nobody /\ sendLock = Nobody /\ connLock = Nobody
    /\ nthreads = 0
    /\ mainLoc = "check"
    /\ program = "running"

Running == program = "running"
At(t, l) == Running /\ loc[t] = l
Go(t, l) == loc' = [loc EXCEPT ![t] = l]

\* exit(1) in any thread ends the process, and so does a failed assertion.
Stop(how) == program' = how
             /\ UNCHANGED <<poolvars, threadvars, ball, locks, mainvars>>

-----------------------------------------------------------------------------
(* main                                                                    *)

\* Mistake: one thread more than there is room for.
RoomForOneMore == nthreads <= MAXTHREADS

RoomForThread == nthreads < MAXTHREADS

MainCheck ==
    /\ Running /\ mainLoc = "check" /\ RoomForThread
    /\ mainLoc' = "create"
    /\ UNCHANGED <<poolvars, threadvars, ball, locks, nthreads, program>>

MainCreate(t) ==
    /\ Running /\ mainLoc = "create" /\ loc[t] = "none"
    /\ Go(t, "start")
    /\ mainLoc' = "count"
    /\ UNCHANGED <<poolvars, conn, move, needToRelock, body, ball, locks, nthreads, program>>

MainCount ==
    /\ Running /\ mainLoc = "count"
    /\ nthreads' = nthreads + 1
    /\ mainLoc' = "check"
    /\ UNCHANGED <<poolvars, threadvars, ball, locks, program>>

-----------------------------------------------------------------------------
(* startConnection: taking a position                                      *)

\* Mistakes: the ball bounces one cell too late; it stays at the wall for a move.
BounceLate(p, d, size) ==
    IF p + d < 0 \/ p + d > size THEN [p |-> p - d, d |-> -d] ELSE [p |-> p + d, d |-> d]
BounceInPlace(p, d, size) ==
    IF p + d < 0 \/ p + d >= size THEN [p |-> p, d |-> -d] ELSE [p |-> p + d, d |-> d]

\* One coordinate of the ball, moved and bounced off the walls.
Bounce(p, d, size) ==
    IF p + d < 0 \/ p + d >= size THEN [p |-> p - d, d |-> -d] ELSE [p |-> p + d, d |-> d]

Moved(b) == LET h == Bounce(b.x, b.dx, Width)
                v == Bounce(b.y, b.dy, Height)
            IN  [x |-> h.p, y |-> v.p, dx |-> h.d, dy |-> v.d]

TakePosition(t) ==
    /\ At(t, "start") /\ serverLock = Nobody
    /\ serverLock' = t
    /\ ball' = Moved(ball)
    /\ move' = [move EXCEPT ![t] = <<ball'.x, ball'.y>>]
    /\ Go(t, "getConn")
    /\ UNCHANGED <<poolvars, conn, needToRelock, body, sendLock, connLock, mainvars, program>>

-----------------------------------------------------------------------------
(* getConn                                                                 *)

LockPool(t) ==
    /\ At(t, "getConn") /\ connLock = Nobody
    /\ connLock' = t
    /\ Go(t, "connecting")
    /\ UNCHANGED <<poolvars, conn, move, needToRelock, body, ball, serverLock, sendLock,
                   mainvars, program>>

\* The code reads the pointer after it has unlocked; the slot is marked as in use,
\* so no other thread changes it in between (SlotIsMine).
GetConn(t, c) ==
    /\ At(t, "connecting")
    /\ Reuse(c) \/ Connect(c)
    /\ conn' = [conn EXCEPT ![t] = c]
    /\ connLock' = Nobody
    /\ Go(t, "wantSend")
    /\ UNCHANGED <<move, needToRelock, body, ball, serverLock, sendLock, mainvars, program>>

ConnectFails(t) == At(t, "connecting") /\ SlotsWithStatus("CON_VALID") = {}
                   /\ ~NoSlot /\ Stop("exited")

\* getConn's assertion that there is a slot is the invariant NoDoom: it never fails.

-----------------------------------------------------------------------------
(* http_send_request                                                       *)

LockSend(t) ==
    /\ At(t, "wantSend") /\ sendLock = Nobody
    /\ sendLock' = t
    /\ Go(t, "send")
    /\ UNCHANGED <<poolvars, conn, move, needToRelock, body, ball, serverLock, connLock,
                   mainvars, program>>

ReadyToSend(t) == http_state[conn[t]] \in {"HTTP_REQUEST", "HTTP_DONE"}

Send(t) ==
    /\ At(t, "send") /\ ReadyToSend(t)
    /\ http_state' = [http_state EXCEPT ![conn[t]] = "HTTP_INITIAL"]
    /\ status_code' = [status_code EXCEPT ![conn[t]] = -1]
    /\ needToRelock' = [needToRelock EXCEPT ![t] = FALSE]
    /\ Go(t, "reading")
    /\ UNCHANGED <<con_status, con_ptr, conn, move, body, ball, locks, mainvars, program>>

SendFails(t) == At(t, "send") /\ ReadyToSend(t) /\ Stop("exited")

SendAssertFails(t) == At(t, "send") /\ ~ReadyToSend(t) /\ Stop("aborted")

-----------------------------------------------------------------------------
(* http_receive_response                                                   *)

\* The states http_consume_headers can reach when more bytes arrive, and when
\* the server closes the connection instead.  A status line that cannot be
\* parsed breaks the response; a body ends at its Content-Length or, without
\* one, where the connection does.
MoreBytes ==
    [HTTP_INITIAL |-> {"HTTP_INITIAL", "HTTP_HEADERS", "HTTP_BODY", "HTTP_DONE", "HTTP_BROKEN"},
     HTTP_HEADERS |-> {"HTTP_HEADERS", "HTTP_BODY", "HTTP_DONE"},
     HTTP_BODY    |-> {"HTTP_BODY", "HTTP_DONE"}]
EndOfFile ==
    [HTTP_INITIAL |-> {"HTTP_BROKEN"},
     HTTP_HEADERS |-> {"HTTP_BROKEN"},
     HTTP_BODY    |-> {"HTTP_CLOSED", "HTTP_BROKEN"}]

\* The status line is in the bytes that have arrived.
StatusLineSeen(old, new) == old = "HTTP_INITIAL" /\ new \notin {"HTTP_INITIAL", "HTTP_BROKEN"}

\* What the buffer may say when the response is complete: only a body can ask
\* for a pause or report an error.
BodySeen(old, new) == new \in {"HTTP_DONE", "HTTP_CLOSED"} \/ old = "HTTP_BODY"

\* The loop goes round again: the mutexes are released unless the headers are
\* still coming.
ReleasesEarly(t, new) == ~needToRelock[t] /\ new # "HTTP_HEADERS"

\* One read and the parsing of what it brought.
Read(t, new, code) ==
    LET c   == conn[t]
        old == http_state[c]
    IN  /\ At(t, "reading")
        /\ new \in MoreBytes[old] \cup EndOfFile[old]
        /\ code \in IF StatusLineSeen(old, new) THEN {200, 0} ELSE {status_code[c]}
        /\ http_state' = [http_state EXCEPT ![c] = new]
        /\ status_code' = [status_code EXCEPT ![c] = code]
        /\ UNCHANGED <<con_status, con_ptr, conn, move, ball, connLock, mainvars, program>>

ReadMore(t, new, code) ==
    /\ Read(t, new, code)
    /\ new \in {"HTTP_INITIAL", "HTTP_HEADERS", "HTTP_BODY"}
    /\ IF ReleasesEarly(t, new)
       THEN /\ needToRelock' = [needToRelock EXCEPT ![t] = TRUE]
            /\ sendLock' = Nobody /\ serverLock' = Nobody
       ELSE UNCHANGED <<needToRelock, sendLock, serverLock>>
    /\ UNCHANGED <<loc, body>>

ReadLast(t, new, code, says) ==
    /\ Read(t, new, code)
    /\ new \in {"HTTP_DONE", "HTTP_CLOSED", "HTTP_BROKEN"}
    /\ says \in IF BodySeen(http_state[conn[t]], new) THEN {"ok", "stop", "error"} ELSE {"ok"}
    /\ body' = [body EXCEPT ![t] = says]
    /\ Go(t, IF says # "stop" THEN "answered" ELSE IF needToRelock[t] THEN "relock" ELSE "stopped")
    /\ UNCHANGED <<needToRelock, sendLock, serverLock>>

\* Mistake: the pause is slept through without keeping the others from sending.
RelockNothing(t) ==
    /\ At(t, "relock")
    /\ Go(t, "stopped")
    /\ UNCHANGED <<poolvars, conn, move, needToRelock, body, ball, locks, mainvars, program>>

\* The server asks for a pause: nobody may send until it is over.
Relock(t) ==
    /\ At(t, "relock") /\ sendLock = Nobody
    /\ sendLock' = t
    /\ Go(t, "stopped")
    /\ UNCHANGED <<poolvars, conn, move, needToRelock, body, ball, serverLock, connLock,
                   mainvars, program>>

PauseOver(t) ==
    /\ At(t, "stopped")
    /\ sendLock' = IF needToRelock[t] THEN Nobody ELSE sendLock
    /\ Go(t, "answered")
    /\ UNCHANGED <<poolvars, conn, move, needToRelock, body, ball, serverLock, connLock,
                   mainvars, program>>

Code(t) == status_code[conn[t]]

\* The status is 500 or more.
ServerError(t) == At(t, "answered") /\ Code(t) = 0 /\ Stop("exited")

AnswerAssertFails(t) == At(t, "answered") /\ Code(t) = -1 /\ needToRelock[t] /\ Stop("aborted")

-----------------------------------------------------------------------------
(* startConnection: after the response                                     *)

\* Mistakes: the position is given up with the request; nobody can send any more.
GiveUpPosition(t) ==
    /\ At(t, "answered") /\ Code(t) = -1 /\ ~needToRelock[t]
    /\ sendLock' = Nobody /\ serverLock' = Nobody
    /\ Go(t, "discard")
    /\ UNCHANGED <<poolvars, conn, move, needToRelock, body, ball, connLock, mainvars, program>>
GiveUpLocked(t) ==
    /\ At(t, "answered") /\ Code(t) = -1 /\ ~needToRelock[t]
    /\ Go(t, "discard")
    /\ UNCHANGED <<poolvars, conn, move, needToRelock, body, ball, locks, mainvars, program>>

\* No response: try again, still owning the position.
GiveUp(t) ==
    /\ At(t, "answered") /\ Code(t) = -1 /\ ~needToRelock[t]
    /\ sendLock' = Nobody
    /\ Go(t, "discard")
    /\ UNCHANGED <<poolvars, conn, move, needToRelock, body, ball, serverLock, connLock,
                   mainvars, program>>

\* The url and the response are not looked at any more.
Accept(t) ==
    /\ At(t, "answered") /\ Code(t) # -1 /\ body[t] # "error"
    /\ IF needToRelock[t] THEN UNCHANGED <<sendLock, serverLock>>
                          ELSE sendLock' = Nobody /\ serverLock' = Nobody
    /\ move' = [move EXCEPT ![t] = <<0, 0>>]
    /\ body' = [body EXCEPT ![t] = "ok"]
    /\ needToRelock' = [needToRelock EXCEPT ![t] = FALSE]
    /\ Go(t, "release")
    /\ UNCHANGED <<poolvars, conn, ball, connLock, mainvars, program>>

ServerComplains(t) ==
    At(t, "answered") /\ Code(t) # -1 /\ body[t] = "error" /\ Stop("exited")

Discard(t) ==
    /\ At(t, "discard") /\ connLock = Nobody
    /\ releaseConn(conn[t])
    /\ conn' = [conn EXCEPT ![t] = NULL]
    /\ Go(t, "getConn")
    /\ UNCHANGED <<move, needToRelock, body, ball, locks, mainvars, program>>

Release(t) ==
    /\ At(t, "release") /\ connLock = Nobody
    /\ releaseConn(conn[t])
    /\ conn' = [conn EXCEPT ![t] = NULL]
    /\ Go(t, "leave")
    /\ UNCHANGED <<move, needToRelock, body, ball, locks, mainvars, program>>

Leave(t) ==
    /\ At(t, "leave")
    /\ nthreads' = nthreads - 1
    /\ Go(t, "none")
    /\ UNCHANGED <<poolvars, conn, move, needToRelock, body, ball, locks, mainLoc, program>>

-----------------------------------------------------------------------------

Receive(t) ==
    /\ At(t, "reading")
    /\ \E new \in Open, code \in StatusCode :
          ReadMore(t, new, code) \/ \E says \in {"ok", "stop", "error"} : ReadLast(t, new, code, says)

Fails(t) == \/ ConnectFails(t) \/ SendFails(t) \/ SendAssertFails(t)
            \/ ServerError(t) \/ AnswerAssertFails(t) \/ ServerComplains(t)

ThreadStep(t) ==
    \/ TakePosition(t) \/ LockPool(t) \/ \E c \in Address : GetConn(t, c)
    \/ LockSend(t) \/ Send(t) \/ Receive(t)
    \/ Relock(t) \/ PauseOver(t) \/ GiveUp(t) \/ Accept(t)
    \/ Discard(t) \/ Release(t) \/ Leave(t)
    \/ Fails(t)

Ended == ~Running /\ UNCHANGED vars

MainStep == MainCheck \/ MainCount \/ \E t \in Thread : MainCreate(t)

Next == MainStep \/ (\E t \in Thread : ThreadStep(t)) \/ Ended

Spec == Init /\ [][Next]_vars

\* The server begins to answer with a status line.
AnswerBegins(t) ==
    /\ At(t, "reading") /\ http_state[conn[t]] = "HTTP_INITIAL"
    /\ Receive(t)
    /\ status_code'[conn[t]] # -1

\* Threads are scheduled, and a server that is asked again and again answers
\* some time.  Nothing is assumed of the order in which a mutex is handed out.
Fairness == /\ WF_vars(MainStep)
            /\ \A t \in Thread : WF_vars(ThreadStep(t)) /\ SF_vars(AnswerBegins(t))

FairSpec == Spec /\ Fairness
==============================================================================
