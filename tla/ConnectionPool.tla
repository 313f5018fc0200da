---------------------------- MODULE ConnectionPool ----------------------------
(***************************************************************************)
(* The connections of pong61 (pset5): the array sharedConnections and the  *)
(* http_connection objects it points to.  A closed connection is freed but *)
(* its slot keeps the pointer, and malloc may return the same address for  *)
(* the next connection.                                                    *)
(***************************************************************************)
EXTENDS Integers

CONSTANTS NCONNECTIONS,  \* number of slots
          Address,       \* heap addresses an http_connection may have
          NULL           \* the null pointer

ASSUME PoolAssumption == NCONNECTIONS \in Nat /\ NULL \notin Address

VARIABLES con_status,    \* sharedConnections[i].status
          con_ptr,       \* sharedConnections[i].conn
          http_state,    \* conn->state, "freed" for memory that is no connection
          status_code    \* conn->status_code

poolvars == <<con_status, con_ptr, http_state, status_code>>

Slots == 0..NCONNECTIONS-1
ConStatus == {"CON_UNINIT", "CON_VALID", "CON_INUSE"}
Open      == {"HTTP_REQUEST", "HTTP_INITIAL", "HTTP_HEADERS", "HTTP_BODY",
              "HTTP_DONE", "HTTP_CLOSED", "HTTP_BROKEN"}

\* Status codes, as far as they are told apart: none yet, the expected one, and
\* any other, which may or may not be one that makes the client exit.
StatusCode == {-1, 200, 0}

First(S) == CHOOSE i \in S : \A j \in S : i <= j

SlotsWithStatus(status) == {i \in Slots : con_status[i] = status}

\* Mistake: the last slot with the status is taken.
LastSlotWithStatus(status) ==
    CHOOSE i \in SlotsWithStatus(status) : \A j \in SlotsWithStatus(status) : j <= i

connectionSlotWithStatus(status) == First(SlotsWithStatus(status))
slotOfConnection(c) == First({i \in Slots : con_ptr[i] = c})

PoolInit ==
    /\ con_status = [i \in Slots |-> "CON_UNINIT"]
    /\ con_ptr = [i \in Slots |-> NULL]
    /\ http_state = [a \in Address |-> "freed"]
    /\ status_code = [a \in Address |-> -1]

\* Mistake: the slot is not marked as being in use.
ReuseUnmarked(c) ==
    /\ SlotsWithStatus("CON_VALID") # {}
    /\ c = con_ptr[connectionSlotWithStatus("CON_VALID")]
    /\ UNCHANGED poolvars

\* getConn, when some connection can be used again.
Reuse(c) ==
    /\ SlotsWithStatus("CON_VALID") # {}
    /\ LET slot == connectionSlotWithStatus("CON_VALID")
       IN  /\ c = con_ptr[slot]
           /\ con_status' = [con_status EXCEPT ![slot] = "CON_INUSE"]
    /\ UNCHANGED <<con_ptr, http_state, status_code>>

\* getConn, when a new one must be opened: malloc returns any free address.
Connect(c) ==
    /\ SlotsWithStatus("CON_VALID") = {}
    /\ SlotsWithStatus("CON_UNINIT") # {}
    /\ http_state[c] = "freed"
    /\ LET slot == connectionSlotWithStatus("CON_UNINIT")
       IN  /\ con_status' = [con_status EXCEPT ![slot] = "CON_INUSE"]
           /\ con_ptr' = [con_ptr EXCEPT ![slot] = c]
    /\ http_state' = [http_state EXCEPT ![c] = "HTTP_REQUEST"]
    /\ UNCHANGED status_code

\* getConn's assert(0): no slot is left.
NoSlot == SlotsWithStatus("CON_VALID") = {} /\ SlotsWithStatus("CON_UNINIT") = {}

\* A connection is used again if its last response had status 200.
Reusable(c) == status_code[c] = 200

\* Mistake: a closed connection keeps its slot.
releaseConnLeaking(c) ==
    /\ IF Reusable(c)
       THEN /\ con_status' = [con_status EXCEPT ![slotOfConnection(c)] = "CON_VALID"]
            /\ UNCHANGED <<http_state, status_code>>
       ELSE /\ UNCHANGED con_status
            /\ http_state' = [http_state EXCEPT ![c] = "freed"]
            /\ status_code' = [status_code EXCEPT ![c] = -1]
    /\ UNCHANGED con_ptr

\* http_close frees the object; what was in it is never read again.
releaseConn(c) ==
    /\ LET slot == slotOfConnection(c)
       IN  IF Reusable(c)
           THEN /\ con_status' = [con_status EXCEPT ![slot] = "CON_VALID"]
                /\ UNCHANGED <<http_state, status_code>>
           ELSE /\ con_status' = [con_status EXCEPT ![slot] = "CON_UNINIT"]
                /\ http_state' = [http_state EXCEPT ![c] = "freed"]
                /\ status_code' = [status_code EXCEPT ![c] = -1]
    /\ UNCHANGED con_ptr
==============================================================================
