----------------------------- MODULE PipeExchange -----------------------------
(* pipeexchange61.c: a requester and a responder, two processes joined by two  *)
(* pipes, each with an io61 file at its end of either.  Pipes are as large as  *)
(* what is written to them.  Every byte of a message is its id.                *)
EXTENDS Io61Common

CONSTANTS NCACHES, WRITEPAGES, LifetimeBound, Byte255,
    messages        \* the phases: request_batch, request_size, response_size

VARIABLES
    requester, responder,       \* what each does next and its local variables
    rqOut, requests, rqIn, rqCall, rqGot, rqInput,  \* the requester's two files
    rsOut, responses, rsIn, rsCall, rsGot, rsInput  \* the responder's

RqOut == INSTANCE Io61Writer WITH w <- rqOut, out <- requests
RqIn  == INSTANCE Io61Reader WITH
            f <- rqIn, call <- rqCall, got <- rqGot, input <- rqInput
RsOut == INSTANCE Io61Writer WITH w <- rsOut, out <- responses
RsIn  == INSTANCE Io61Reader WITH
            f <- rsIn, call <- rsCall, got <- rsGot, input <- rsInput

rqInVars == <<rqIn, rqCall, rqGot>>
rsInVars == <<rsIn, rsCall, rsGot>>
vars == <<requester, responder, rqOut, requests, rqIn, rqCall, rqGot, rqInput,
          rsOut, responses, rsIn, rsCall, rsGot, rsInput>>

Init ==
    /\ requester = [pc |-> "send", mindex |-> 1, i |-> 0, requestid |-> 0,
                    responseid |-> 0]
    /\ responder = [pc |-> "receive", mindex |-> 1, i |-> 0]
    /\ RqOut!WriterInit /\ RsOut!WriterInit
    /\ RqIn!ReaderInit(RqIn!EmptyPipe) /\ RsIn!ReaderInit(RsIn!EmptyPipe)

Message(id, sz) == [k \in 1..sz |-> id]
Phase(p) == messages[p.mindex]

\* What one end writes the other can read.  An input never ends: the parent
\* keeps both ends of both pipes open.
RequestsArrive ==
    rsInput' = [rsInput EXCEPT !.bytes = Len(requests'.content)]
ResponsesArrive ==
    rqInput' = [rqInput EXCEPT !.bytes = Len(responses'.content)]

RequesterOnly == UNCHANGED <<responder, rsOut, responses, rsInVars>>
ResponderOnly == UNCHANGED <<requester, rqOut, requests, rqInVars>>
-----------------------------------------------------------------------------
Send ==
    /\ requester.pc = "send" /\ requester.i < Phase(requester).request_batch
    /\ RqOut!Write(Message(requester.requestid, Phase(requester).request_size))
    /\ requester' = [requester EXCEPT !.i = @ + 1, !.requestid = @ + 1]
    /\ RequestsArrive
    /\ RequesterOnly /\ UNCHANGED <<rqInVars, rqInput>>
FlushRequests ==
    /\ requester.pc = "send" /\ requester.i = Phase(requester).request_batch
    /\ RqOut!Flush
    /\ requester' = [requester EXCEPT !.pc = "receive", !.i = 0]
    /\ RequestsArrive
    /\ RequesterOnly /\ UNCHANGED <<rqInVars, rqInput>>

ReceiveReply ==
    /\ requester.pc = "receive" /\ requester.i < Phase(requester).request_batch
    /\ RqIn!Read(Phase(requester).response_size)
    /\ requester' = [requester EXCEPT !.pc = "check"]
    /\ RequesterOnly /\ UNCHANGED <<rqOut, requests, rsInput>>
ContinueReply ==
    /\ RqIn!ReadRound
    /\ RequesterOnly /\ UNCHANGED <<requester, rqOut, requests, rsInput>>
\* assert(r == m->response_size), assert(id == responseid)
ReplyIsRight ==
    /\ Len(rqGot) = Phase(requester).response_size
    /\ responses.content[rqGot[1] + 1] = requester.responseid
CheckReply ==
    /\ requester.pc = "check" /\ rqCall.op = "none"
    /\ requester' = IF ReplyIsRight
                    THEN [requester EXCEPT !.pc = "receive", !.i = @ + 1,
                                           !.responseid = @ + 1]
                    ELSE [requester EXCEPT !.pc = "aborted"]
    /\ RequesterOnly /\ UNCHANGED <<rqOut, requests, rqInVars, rqInput, rsInput>>
NextPhase ==
    /\ requester.pc = "receive" /\ requester.i = Phase(requester).request_batch
    /\ requester.mindex < Len(messages)
    /\ requester' = [requester EXCEPT !.pc = "send", !.i = 0, !.mindex = @ + 1]
    /\ RequesterOnly /\ UNCHANGED <<rqOut, requests, rqInVars, rqInput, rsInput>>
RequesterDone ==
    /\ requester.pc = "receive" /\ requester.i = Phase(requester).request_batch
    /\ requester.mindex = Len(messages)
    /\ RqIn!CloseReader /\ RqOut!CloseWriter
    /\ requester' = [requester EXCEPT !.pc = "done"]
    /\ RequestsArrive /\ RequesterOnly
-----------------------------------------------------------------------------
Receive ==
    /\ responder.pc = "receive" /\ responder.i < Phase(responder).request_batch
    /\ RsIn!Read(Phase(responder).request_size)
    /\ responder' = [responder EXCEPT !.pc = "reply"]
    /\ ResponderOnly /\ UNCHANGED <<rsOut, responses, rqInput>>
ContinueRequest ==
    /\ RsIn!ReadRound
    /\ ResponderOnly /\ UNCHANGED <<responder, rsOut, responses, rqInput>>
\* assert(r == m->request_size)
Abort ==
    /\ responder.pc = "reply" /\ rsCall.op = "none"
    /\ Len(rsGot) # Phase(responder).request_size
    /\ responder' = [responder EXCEPT !.pc = "aborted"]
    /\ ResponderOnly /\ UNCHANGED <<rsOut, responses, rqInput, rsInVars, rsInput>>
Reply ==
    /\ responder.pc = "reply" /\ rsCall.op = "none"
    /\ Len(rsGot) = Phase(responder).request_size
    /\ RsOut!Write(Message(requests.content[rsGot[1] + 1],
                           Phase(responder).response_size))
    /\ responder' = [responder EXCEPT !.pc = "flush"]
    /\ ResponsesArrive
    /\ ResponderOnly /\ UNCHANGED <<rsInVars, rsInput>>
FlushReply ==
    /\ responder.pc = "flush"
    /\ RsOut!Flush
    /\ responder' = [responder EXCEPT !.pc = "receive", !.i = @ + 1]
    /\ ResponsesArrive
    /\ ResponderOnly /\ UNCHANGED <<rsInVars, rsInput>>
ResponderNextPhase ==
    /\ responder.pc = "receive" /\ responder.i = Phase(responder).request_batch
    /\ responder.mindex < Len(messages)
    /\ responder' = [responder EXCEPT !.i = 0, !.mindex = @ + 1]
    /\ ResponderOnly /\ UNCHANGED <<rsOut, responses, rqInput, rsInVars, rsInput>>
ResponderDone ==
    /\ responder.pc = "receive" /\ responder.i = Phase(responder).request_batch
    /\ responder.mindex = Len(messages)
    /\ RsIn!CloseReader /\ RsOut!CloseWriter
    /\ responder' = [responder EXCEPT !.pc = "done"]
    /\ ResponsesArrive /\ ResponderOnly
-----------------------------------------------------------------------------
Requester == \/ Send \/ FlushRequests \/ ReceiveReply \/ ContinueReply
             \/ CheckReply \/ NextPhase \/ RequesterDone
Responder == \/ Receive \/ ContinueRequest \/ Abort \/ Reply \/ FlushReply
             \/ ResponderNextPhase \/ ResponderDone
Next == Requester \/ Responder

Spec == Init /\ [][Next]_vars
\* Both processes are scheduled.
FairSpec == Spec /\ WF_vars(Requester) /\ WF_vars(Responder)

\* Every request is answered and both processes end by themselves
\* (pipeexchange61.c 21-33), before main kills them.
ExchangeEnds == <>(requester.pc = "done" /\ responder.pc = "done")
=============================================================================
