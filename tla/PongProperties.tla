---------------------------- MODULE PongProperties ----------------------------
(* What the pong61 client must get right.                                  *)
EXTENDS PongClient

\* The type of every variable; the position of every move is on the board.
Position == (0..Width-1) \X (0..Height-1)
PongTypeOK ==
    /\ con_status \in [Slots -> ConStatus]
    /\ con_ptr \in [Slots -> Address \cup {NULL}]
    /\ http_state \in [Address -> Open \cup {"freed"}]
    /\ status_code \in [Address -> StatusCode]
    /\ loc \in [Thread -> Location]
    /\ conn \in [Thread -> Address \cup {NULL}]
    /\ move \in [Thread -> Position]
    /\ needToRelock \in [Thread -> BOOLEAN]
    /\ body \in [Thread -> {"ok", "stop", "error"}]
    /\ ball \in [x : 0..Width-1, y : 0..Height-1, dx : {-1, 1}, dy : {-1, 1}]
    /\ {serverLock, sendLock, connLock} \subseteq Thread \cup {Nobody}
    /\ nthreads \in -1..MAXTHREADS
    /\ mainLoc \in {"check", "create", "count"}
    /\ program \in {"running", "exited", "aborted"}

Live == {t \in Thread : loc[t] # "none"}
Holding == {t \in Thread : conn[t] # NULL}

\* Every open connection is found again in its own slot, although freed slots
\* keep pointers that malloc may have handed out anew: releaseConn never marks
\* another thread's slot.
SlotIsMine ==
    \A t \in Holding :
        /\ \E i \in Slots : con_ptr[i] = conn[t] /\ con_status[i] = "CON_INUSE"
        /\ con_status[slotOfConnection(conn[t])] = "CON_INUSE"

\* No two threads use the same connection, and nobody uses a freed one.
ConnectionsExclusive ==
    /\ \A t, u \in Holding : t # u => conn[t] # conn[u]
    /\ \A t \in Holding : http_state[conn[t]] # "freed"
    /\ \A i \in Slots : con_status[i] = "CON_VALID" =>
          con_ptr[i] # NULL /\ http_state[con_ptr[i]] # "freed"

\* getConn never runs out of slots: the limit on threads keeps their number.
NoDoom == \A t \in Thread : At(t, "connecting") => ~NoSlot
ThreadLimit == Cardinality(Live) <= MAXTHREADS

\* While the server has asked for a pause, nobody sends a request.
PauseKept ==
    [][(\E t \in Thread : loc[t] = "stopped") =>
           \A t \in Thread : ~(loc[t] = "send" /\ loc'[t] = "reading")]_vars

\* Every request is for the position the ball is at: a thread that retries has
\* not been overtaken, so the server gets the moves in order.
MovesInOrder ==
    [][\A t \in Thread : loc[t] = "send" /\ loc'[t] = "reading" =>
           move[t] = <<ball.x, ball.y>>]_vars

\* The last position that was answered, or that its thread let go when it saw the
\* answer delayed.
Unanswered(t) ==
    \/ loc[t] \in {"getConn", "connecting", "wantSend", "send", "discard"}
    \/ loc[t] \in {"reading", "answered"} /\ Code(t) = -1
Answered == IF \E t \in Thread : serverLock = t /\ Unanswered(t)
            THEN <<ball.x - ball.dx, ball.y - ball.dy>> ELSE <<ball.x, ball.y>>

Game == INSTANCE PongGame WITH at <- Answered, over <- ~Running

\* The client implements the game: however threads overlap and requests are
\* retried, the server sees the ball go one step at a time.
PlaysPong == Game!GameSpec

\* Threads that wait for slow answers, retry or pause never stop the game: the
\* ball is moved for ever, hence every position is answered, unless the program
\* ends.
BallKeepsMoving == <>~Running \/ []<><<TRUE>>_ball

-----------------------------------------------------------------------------
(* Assertions of the code                                                  *)

\* The assertion at the head of http_send_request (pong61.c:149).
SendAssertion == \A t \in Thread : At(t, "send") => ReadyToSend(t)

\* The assertion at the end of http_receive_response (pong61.c:246).
AnswerAssertion == \A t \in Thread : At(t, "answered") => ~(needToRelock[t] /\ Code(t) = -1)
==============================================================================
