------------------------------ MODULE ByteStream ------------------------------
(* What a file of slow-io61.c promises: every call acts on the file itself, at *)
(* its one position.  io61_read and io61_write take one character at a time    *)
(* there; here they are one step.                                              *)
EXTENDS Io61Common

CONSTANTS Sizes, Positions, Blocks    \* what callers pass: counts, positions, data

VARIABLES
    mode,       \* "O_RDONLY" or "O_WRONLY"
    open,
    content,    \* the bytes of the file, or those that came through a pipe
    ended,      \* no more will come
    pos,        \* the position of fd
    got         \* the bytes the last call returned

vars == <<mode, open, content, ended, pos, got>>

CanCall(m) == mode = m /\ open = TRUE

\* Everything up to the end of what there is, or n bytes of it.
SRead(n) ==
    /\ CanCall("O_RDONLY")
    /\ pos + n <= Len(content) \/ ended
    /\ got' = SubSeq(content, pos + 1, Lesser(pos + n, Len(content)))
    /\ pos' = Greater(pos, Lesser(pos + n, Len(content)))
    /\ UNCHANGED <<mode, open, content, ended>>

SReadc == SRead(1)

SWrite(d) ==
    /\ CanCall("O_WRONLY")
    /\ content' = Overlay(content, pos, d)
    /\ pos' = pos + Len(d)
    /\ UNCHANGED <<mode, open, ended, got>>

SWritec(ch) == SWrite(<<ch>>)

SFlush == UNCHANGED vars

SSeek(p) ==
    /\ open = TRUE
    /\ pos' = p
    /\ got' = <<>>
    /\ UNCHANGED <<mode, open, content, ended>>

SClose ==
    /\ open = TRUE
    /\ open' = FALSE
    /\ UNCHANGED <<mode, content, ended, pos, got>>

\* The other end of a pipe.
Arrive(d) ==
    /\ mode = "O_RDONLY" /\ ended = FALSE
    /\ content' = content \o d
    /\ UNCHANGED <<mode, open, ended, pos, got>>
End ==
    /\ mode = "O_RDONLY" /\ ended = FALSE
    /\ ended' = TRUE
    /\ UNCHANGED <<mode, open, content, pos, got>>

\* io61_fdopen
SInit ==
    /\ mode \in {"O_RDONLY", "O_WRONLY"}
    /\ open = TRUE
    /\ \/ mode = "O_RDONLY" /\ content = Bytes(0, Len(content)) /\ ended \in BOOLEAN
       \/ mode = "O_WRONLY" /\ content = <<>> /\ ended = FALSE
    /\ pos = 0
    /\ got = <<>>

SNext ==
    \/ SReadc
    \/ \E n \in Sizes : SRead(n)
    \/ \E d \in Blocks : SWrite(d)
    \/ \E d \in Blocks : \E i \in DOMAIN d : SWritec(d[i])
    \/ SFlush
    \/ \E p \in Positions : SSeek(p)
    \/ SClose
    \/ \E n \in Sizes : Arrive(Bytes(Len(content), n))
    \/ End

SSpec == SInit /\ [][SNext]_vars
=============================================================================
