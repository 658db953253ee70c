------------------------------ MODULE Wrappers ------------------------------
(***************************************************************************)
(* The wrappers of csapp.c: each makes one call of the system or of the C  *)
(* library and ends the process when it takes the result for an error.     *)
(*                                                                         *)
(* A wrapper is told by a set of results it takes for an error, with the   *)
(* place where it looks for the reason: errno, the returned code, or none. *)
(* The results are abstract: "neg" (-1), "null", "code" (an error number), *)
(* "gai" (a getaddrinfo code), "system" (its EAI_SYSTEM), "zero", "short", *)
(* "done"; "intr" is a -1 with errno EINTR; "end" (of a file, of a         *)
(* directory) looks like a failure and is none.                            *)
(***************************************************************************)
Checks(errors, reason) == [errors |-> errors, reason |-> reason]

Negative == Checks({"neg", "intr"}, "errno")     \* (rc = call()) < 0, == EOF
Null     == Checks({"null"}, "errno")     \* (p = call()) == NULL
Nothing  == Checks({}, "none")            \* the result is not looked at

All(wrappers, checks) == wrappers \X {checks}

-----------------------------------------------------------------------------
(* Sleep tests an unsigned value for < 0, which is never true.             *)
ProcessWrappers ==
    All({"Fork", "Execve", "Wait", "Waitpid", "Kill", "Setpgid"}, Negative) \union
    All({"Pause", "Sleep", "Alarm", "Getpgrp"}, Nothing)

(* Sigsuspend always gets -1 and looks whether errno is EINTR.             *)
SignalWrappers ==
    All({"Signal", "Sigprocmask", "Sigemptyset", "Sigfillset", "Sigaddset",
         "Sigdelset", "Sigismember"}, Negative) \union
    All({"Sigsuspend"}, Checks({"neg"}, "errno"))

SioWrappers == All({"Sio_putl", "Sio_puts"}, Checks({"neg"}, "none"))

IOWrappers ==
    All({"Open", "Read", "Write", "Lseek", "Close", "Select", "Dup2", "Stat",
         "Fstat", "Mmap", "Munmap"}, Negative)

(* Readdir sets errno to 0 before and tells the end from an error by it.   *)
DirectoryWrappers == All({"Opendir", "Readdir"}, Null) \union All({"Closedir"}, Negative)

AllocationWrappers == All({"Malloc", "Realloc", "Calloc"}, Null) \union All({"Free"}, Nothing)

(* Fgets and Fread ask ferror to tell the end of the file from an error.   *)
StdioWrappers ==
    All({"Fclose", "Fputs"}, Negative) \union
    All({"Fdopen", "Fopen"}, Null) \union
    All({"Fgets"}, Checks({"null"}, "none")) \union
    All({"Fread", "Fwrite"}, Checks({"short"}, "errno"))

SocketWrappers ==
    All({"Socket", "Setsockopt", "Bind", "Listen", "Accept", "Connect"}, Negative)

AddressWrappers ==
    All({"Getaddrinfo", "Getnameinfo"}, Checks({"gai", "system"}, "code")) \union
    All({"Inet_ntop"}, Null) \union All({"Freeaddrinfo"}, Nothing) \union
    All({"Inet_pton"}, Checks({"zero", "neg"}, "errno")) \union
    All({"Gethostbyname", "Gethostbyaddr"}, Checks({"null"}, "none"))

(* A faulty variant of the next definition, for the properties to catch.   *)
ThreadWrappers_errno ==
    All({"Pthread_create", "Pthread_cancel", "Pthread_join", "Pthread_detach"},
        Checks({"code"}, "errno")) \union
    All({"Pthread_exit", "Pthread_self", "Pthread_once"}, Nothing)

ThreadWrappers ==
    All({"Pthread_create", "Pthread_cancel", "Pthread_join", "Pthread_detach"},
        Checks({"code"}, "code")) \union
    All({"Pthread_exit", "Pthread_self", "Pthread_once"}, Nothing)

SemaphoreWrappers == All({"Sem_init", "P", "V"}, Negative)

Tests ==
    UNION {ProcessWrappers, SignalWrappers, SioWrappers, IOWrappers, DirectoryWrappers,
           AllocationWrappers, StdioWrappers, SocketWrappers, AddressWrappers,
           ThreadWrappers, SemaphoreWrappers}

Table == [w \in {row[1] : row \in Tests} |-> (CHOOSE row \in Tests : row[1] = w)[2]]

-----------------------------------------------------------------------------
(* The calls, from their manual pages: the results that are failures, the  *)
(* results that are none, and where a failure leaves its reason.           *)
CodeCalls == {"Pthread_create", "Pthread_cancel", "Pthread_join", "Pthread_detach",
              "Pthread_once"}
GaiCalls  == {"Getaddrinfo", "Getnameinfo"}
NullCalls == {"Opendir", "Readdir", "Malloc", "Realloc", "Calloc", "Fdopen", "Fopen",
              "Fgets", "Inet_ntop", "Gethostbyname", "Gethostbyaddr"}
SureCalls == {"Pause", "Sleep", "Alarm", "Getpgrp", "Free", "Freeaddrinfo",
              "Pthread_exit", "Pthread_self"}

Failures(w) ==
    CASE w \in CodeCalls -> {"code"}
      [] w \in GaiCalls -> {"gai", "system"}
      [] w \in NullCalls -> {"null"}
      [] w \in {"Fread", "Fwrite"} -> {"short"}
      [] w = "Inet_pton" -> {"zero", "neg"}
      [] w \in SureCalls -> {}
      [] OTHER -> {"neg"}

(* realloc of 0 bytes frees and returns NULL; fwrite of items of 0 bytes   *)
(* writes none and returns 0.                                              *)
Successes(w) ==
    {"done"} \union (IF w \in {"Fgets", "Fread", "Readdir", "Read"} THEN {"end"} ELSE {})
             \union (IF w \in {"Pause", "Sigsuspend"} THEN {"intr"} ELSE {})
             \union (IF w = "Realloc" THEN {"null"} ELSE {})
             \union (IF w = "Fwrite" THEN {"short"} ELSE {})

Reason(w, r) ==
    IF w \in CodeCalls \union GaiCalls /\ r # "system" THEN "code" ELSE "errno"

(* Calls that wait.  A signal handler interrupts them all; with SA_RESTART *)
(* the kernel repeats the first kind, as long as no socket has a time-out. *)
(* close has given up its descriptor when a signal interrupts it.          *)
Restartable == {"Wait", "Waitpid", "Open", "Read", "Write", "Accept", "Connect", "P"}
Closing == {"Close", "Dup2", "Fclose", "Closedir"}
Unrestartable == {"Select", "Pause", "Sigsuspend"} \union Closing
-----------------------------------------------------------------------------
VARIABLES handler,      \* how the process has installed a signal handler
          wrapper,      \* the wrapper it is in, or "none"
          result,       \* what the last call returned; "intr" if interrupted
          failed,       \* it could not do what it was asked for
          exited,       \* the process has ended
          said          \* where the error message took its reason from

vars == <<handler, wrapper, result, failed, exited, said>>

Init ==
    /\ handler = "none" /\ wrapper = "none" /\ result = "done"
    /\ failed = FALSE /\ exited = FALSE /\ said = "none"

Enter(w) ==
    /\ ~exited /\ wrapper = "none"
    /\ wrapper' = w /\ result' = "none" /\ failed' = FALSE
    /\ UNCHANGED <<handler, exited, said>>

CallReturns(r) ==
    /\ wrapper # "none" /\ result = "none"
    /\ \/ r \in Failures(wrapper) /\ failed' = TRUE
       \/ r \in Successes(wrapper) /\ failed' = FALSE
    /\ result' = r
    /\ UNCHANGED <<handler, wrapper, exited, said>>

(* A signal arrives during a call and its handler returns.                 *)
Interrupted ==
    /\ wrapper \in Restartable \union Unrestartable /\ result = "none"
    /\ \/ handler = "plain"
       \/ handler = "restart" /\ wrapper \in Unrestartable
    /\ result' = "intr"
    /\ UNCHANGED <<handler, wrapper, failed, exited, said>>

(* action.sa_flags = SA_RESTART                                            *)
HandlerFlags == "restart"

Return ==
    /\ wrapper # "none" /\ result # "none" /\ result \notin Table[wrapper].errors
    /\ handler' = IF wrapper = "Signal" THEN HandlerFlags ELSE handler
    /\ wrapper' = "none"
    /\ UNCHANGED <<result, failed, exited, said>>

(* unix_error, posix_error, gai_error, app_error, dns_error, sio_error     *)
Exit ==
    /\ wrapper # "none" /\ result \in Table[wrapper].errors /\ ~exited
    /\ exited' = TRUE /\ said' = IF result = "zero" THEN "none" ELSE Table[wrapper].reason
    /\ UNCHANGED <<handler, wrapper, result, failed>>

Results == {"done", "end", "neg", "null", "code", "gai", "system", "zero", "short"}

Next ==
    \/ \E w \in DOMAIN Table : Enter(w)
    \/ \E r \in Results : CallReturns(r)
    \/ Interrupted \/ Return \/ Exit

Spec == Init /\ [][Next]_vars
-----------------------------------------------------------------------------
(* A wrapper does not return to its caller when its call has failed, but   *)
(* for Pthread_once, which does not look; and it ends the process when the *)
(* call has not failed only for Realloc and Fwrite of 0 bytes.             *)
TestFits ==
    wrapper # "none" /\ result \notin {"none", "intr"} =>
        /\ failed /\ result \notin Table[wrapper].errors => wrapper = "Pthread_once"
        /\ ~failed /\ result \in Table[wrapper].errors => wrapper \in {"Realloc", "Fwrite"}

(* A message that gives a reason takes it from where the call left it; a   *)
(* pthread call does not set errno.  The exception is EAI_SYSTEM, a code   *)
(* that says that the reason is in errno: the message has the code.        *)
SaysWhy == exited /\ failed /\ said # "none" => said = Reason(wrapper, result) \/ result = "system"

(* A signal whose handler was installed by Signal ends the process in      *)
(* Select or while a descriptor is closed, which the kernel never          *)
(* restarts, and nowhere else.                                             *)
SignalHarmless == exited /\ result = "intr" => wrapper \in {"Select"} \union Closing
=============================================================================
