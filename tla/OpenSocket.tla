----------------------------- MODULE OpenSocket -----------------------------
(***************************************************************************)
(* open_clientfd and open_listenfd of csapp.c: a walk over the addresses   *)
(* that getaddrinfo found, with one descriptor open at a time.  A process  *)
(* opens several sockets, one after the other, through the wrappers, which *)
(* exit when the function fails, or through the functions themselves.      *)
(***************************************************************************)
EXTENDS Integers, FiniteSets

CONSTANTS MaxAddresses,   \* addresses getaddrinfo finds
          Fds,            \* free descriptors of the process
          MaxCloseErrors  \* calls of close that report an error

ASSUME OpenAssumption ==
    MaxAddresses \in Nat \ {0} /\ Fds \subseteq Nat /\ MaxCloseErrors \in Nat

VARIABLES
    kind,        \* "client" (connect) or "listen" (bind, then listen)
    pc,          \* the next call: lookup, socket, attach, close, free, listen;
                 \* or return, and, outside the function, idle or exited
    p,           \* position in the list of addresses
    list,        \* its length
    fd,          \* clientfd or listenfd
    answer,      \* what the function returns
    open,        \* the descriptors that are open
    attached,    \* the connected, bound or listening ones
    unfreed,     \* lists from getaddrinfo that have not been freed
    returned,    \* history: the descriptors that were returned
    errors       \* history: how often close has reported an error

memory == <<open, attached, unfreed, errors>>
vars == <<kind, pc, p, list, fd, answer, memory, returned>>

None == -1

Init ==
    /\ kind = "client" /\ pc = "idle" /\ p = 1 /\ list = 0 /\ fd = None /\ answer = None
    /\ open = {} /\ attached = {} /\ unfreed = 0 /\ returned = {} /\ errors = 0

Call(k) ==
    /\ pc = "idle"
    /\ kind' = k /\ pc' = "lookup" /\ fd' = None /\ p' = 1
    /\ UNCHANGED <<list, answer, memory, returned>>

Lookup ==
    /\ pc = "lookup"
    /\ \/ \E n \in 1..MaxAddresses : /\ list' = n /\ unfreed' = unfreed + 1 /\ pc' = "socket"
                                      /\ UNCHANGED answer
       \/ answer' = -2 /\ pc' = "return" /\ UNCHANGED <<list, unfreed>>
    /\ UNCHANGED <<kind, p, fd, open, attached, errors, returned>>

Advance == p' = p + 1 /\ pc' = IF p < list THEN "socket" ELSE "free"

Socket ==
    /\ pc = "socket"
    /\ \/ \E d \in Fds \ open : /\ fd' = d /\ open' = open \union {d} /\ pc' = "attach"
                                /\ UNCHANGED p
       \/ Advance /\ UNCHANGED <<fd, open>>
    /\ UNCHANGED <<kind, list, answer, attached, unfreed, errors, returned>>

(* connect or bind                                                         *)
Attach ==
    /\ pc = "attach"
    /\ \/ attached' = attached \union {fd} /\ pc' = "free"
       \/ pc' = "close" /\ UNCHANGED attached
    /\ UNCHANGED <<kind, p, list, fd, answer, open, unfreed, errors, returned>>

(* The socket that could not be used is closed.  close releases the        *)
(* descriptor even when it reports an error; the function then returns     *)
(* without freeing the list.                                               *)
CloseUnused ==
    /\ pc = "close"
    /\ open' = open \ {fd}
    /\ \/ Advance /\ UNCHANGED <<answer, errors>>
       \/ /\ errors < MaxCloseErrors
          /\ errors' = errors + 1 /\ answer' = -1 /\ pc' = "return" /\ UNCHANGED p
    /\ UNCHANGED <<kind, list, fd, attached, unfreed, returned>>

(* A faulty variant of the next definition, for the properties to catch.   *)
Found_fd == fd # None

(* if (!p) after the loop: the walk was left by its break                  *)
Found == p <= list

(* freeaddrinfo, and what follows the loop.                                *)
Free ==
    /\ pc = "free"
    /\ unfreed' = unfreed - 1
    /\ IF Found /\ kind = "listen" THEN pc' = "listen" /\ UNCHANGED answer
       ELSE pc' = "return" /\ answer' = IF Found THEN fd ELSE -1
    /\ UNCHANGED <<kind, p, list, fd, open, attached, errors, returned>>

Listen ==
    /\ pc = "listen"
    /\ pc' = "return"
    /\ \/ answer' = fd /\ UNCHANGED <<open, attached>>
       \/ answer' = -1 /\ open' = open \ {fd} /\ attached' = attached \ {fd}
    /\ UNCHANGED <<kind, p, list, fd, unfreed, errors, returned>>

(* Back in the caller, which goes on, or, if it is the wrapper and the     *)
(* function has failed, exits.                                             *)
Return ==
    /\ pc = "return"
    /\ pc' \in IF answer < 0 THEN {"idle", "exited"} ELSE {"idle"}
    /\ returned' = IF answer < 0 THEN returned ELSE returned \union {answer}
    /\ UNCHANGED <<kind, p, list, fd, answer, memory>>

(* The caller closes a socket it has got.                                  *)
Close(d) ==
    /\ pc = "idle" /\ d \in returned
    /\ open' = open \ {d} /\ attached' = attached \ {d} /\ returned' = returned \ {d}
    /\ UNCHANGED <<kind, pc, p, list, fd, answer, unfreed, errors>>

Next ==
    \/ \E k \in {"client", "listen"} : Call(k)
    \/ Lookup \/ Socket \/ Attach \/ CloseUnused \/ Free \/ Listen \/ Return
    \/ \E d \in Fds : Close(d)

Spec == Init /\ [][Next]_vars
-----------------------------------------------------------------------------
(* When the function returns, with success or not, the process holds the   *)
(* descriptors it was given before and has not closed, the one that is     *)
(* being returned, and no other, each connected, bound or listening:       *)
(* however many attempts and calls have failed.  Every list of addresses   *)
(* has been freed, but for one at each close that reported an error        *)
(* (csapp.c:975 and 1027 return without freeaddrinfo).                     *)
Given == returned \union (IF pc = "return" /\ answer >= 0 THEN {answer} ELSE {})
NothingLeaks ==
    pc \in {"return", "idle", "exited"} =>
        open = Given /\ attached = Given /\ unfreed = errors

(* Where a descriptor is held on its way, where it is in use already, and  *)
(* where a list is.                                                        *)
Passed == pc = "return" /\ answer >= 0
Held == IF pc \in {"attach", "close", "listen"} \/ (pc = "free" /\ Found) THEN {fd}
        ELSE IF Passed THEN {answer} ELSE {}
InUse == IF pc = "listen" \/ (pc = "free" /\ Found) THEN {fd}
         ELSE IF Passed THEN {answer} ELSE {}
Walking == IF pc \in {"socket", "attach", "close", "free"} THEN 1 ELSE 0

TypeOK ==
    /\ kind \in {"client", "listen"} /\ p \in Nat /\ list \in Nat /\ fd \in Fds \union {None}
    /\ pc \in {"idle", "lookup", "socket", "attach", "close", "free", "listen", "return",
               "exited"}
    /\ open \subseteq Fds /\ answer \in Fds \union {-1, -2} /\ unfreed \in Nat /\ errors \in Nat

IInv ==
    /\ TypeOK
    /\ open = returned \union Held
    /\ attached = returned \union InUse
    /\ Held \intersect returned = {}
    /\ unfreed = errors + Walking
    /\ pc = "lookup" => p = 1
    /\ pc \in {"socket", "attach", "close"} => p <= list
=============================================================================
