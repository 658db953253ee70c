----------------------------- MODULE TraceFile -----------------------------
(***************************************************************************)
(* A trace file of the malloc lab on its way into the driver: checktrace.pl*)
(* reads a trace, checks it and writes a balanced one, which read_trace of *)
(* mdriver.c loads.                                                        *)
(*                                                                         *)
(* A request line is a command, an id and, but for a free, a size, no more *)
(* and no less; sizes play no part, blank lines are skipped.  The script   *)
(* compares commands and ids as words.  read_trace goes by the first letter*)
(* of the command and the number that the id is: "aa 00" is to it "a 0".   *)
(* Of the header there are the two counts that are used.                   *)
(***************************************************************************)
EXTENDS Integers, FiniteSetsExt, SequencesExt

CONSTANTS MaxId,       \* bound: ids are 0..MaxId
          MaxLines,    \* bound: request lines of a trace
          Letter,      \* command -> its first letter, "x" for all but a, r, f
          Number       \* id as written -> its number

AllIds   == 0..MaxId
Commands == DOMAIN Letter
Written  == DOMAIN Number

(* A number stands for its own usual form.                                 *)
TraceFileAssumption ==
    /\ MaxId \in Nat /\ MaxLines \in Nat
    /\ Letter \in [Commands -> {"a", "r", "f", "x"}]
    /\ {"a", "r", "f"} \subseteq Commands /\ \A c \in {"a", "r", "f"} : Letter[c] = c
    /\ Number \in [Written -> AllIds] /\ IsFiniteSet(Written)
    /\ AllIds \subseteq Written /\ \A i \in AllIds : Number[i] = i

VARIABLES pc,
          num_ids, old_num_ops,      \* of the header
          num_ops,                   \* of the header written
          lines,               \* @lines: the requests read
          hash,                \* %HASH: id -> command
          out,                 \* requests of the file written
          op_index, max_index  \* of read_trace

vars == <<pc, num_ids, old_num_ops, num_ops, lines, hash, out, op_index, max_index>>
Keys == DOMAIN hash

Init ==
    /\ pc = "check"
    /\ num_ids \in 0..(MaxId + 1) /\ old_num_ops \in 0..MaxLines /\ num_ops = 0
    /\ lines = <<>> /\ hash = <<>> /\ out = <<>> /\ op_index = 0 /\ max_index = 0

Delete(id)   == [i \in Keys \ {id} |-> hash[i]]
Enter(id, c) == [i \in Keys \union {id} |-> IF i = id THEN c ELSE hash[i]]

(* The lines for which the script dies.  Its test for a reused id needs an *)
(* entry "f", its test for a second free compares a negation with "f".     *)
Refused(cmd, id) ==
    \/ cmd = "r" /\ id \notin Keys
    \/ cmd = "a" /\ id \in Keys /\ hash[id] \in {"a", "f"}
    \/ cmd = "f" /\ id \notin Keys

(* A faulty variant of the next definition, for the properties to catch.   *)
Tally_keeps(cmd, id) ==
    CASE cmd = "r" -> hash [] cmd = "f" -> Enter(id, "f") [] OTHER -> Enter(id, cmd)

(* %HASH after a line.                                                     *)
Tally(cmd, id) ==
    CASE cmd = "r" -> hash [] cmd = "f" -> Delete(id) [] OTHER -> Enter(id, cmd)

CheckLine(cmd, id) ==
    /\ pc = "check" /\ Len(lines) < MaxLines
    /\ lines' = Append(lines, [cmd |-> cmd, id |-> id])
    /\ IF Refused(cmd, id) THEN pc' = "died" /\ UNCHANGED hash
                           ELSE hash' = Tally(cmd, id) /\ UNCHANGED pc
    /\ UNCHANGED <<num_ids, old_num_ops, num_ops, out, op_index, max_index>>

NewNumOps == old_num_ops + Cardinality(Keys)

(* The header and the old requests are printed.                            *)
Balance ==
    /\ pc = "check"
    /\ num_ops' = NewNumOps /\ out' = lines
    /\ pc' = "balance"
    /\ UNCHANGED <<num_ids, old_num_ops, lines, hash, op_index, max_index>>

(* One free of the residue; the order of the ids as words is left open.    *)
(* When the script dies here the shell has already put the rest into the   *)
(* file.                                                                   *)
PrintFree ==
    /\ pc = "balance"
    /\ \E key \in Keys :
          IF hash[key] \in {"a", "r"}
          THEN /\ out' = Append(out, [cmd |-> "f", id |-> key])
               /\ hash' = Delete(key)
               /\ UNCHANGED pc
          ELSE pc' = "load" /\ UNCHANGED <<out, hash>>
    /\ UNCHANGED <<num_ids, old_num_ops, num_ops, lines, op_index, max_index>>

Balanced ==
    /\ pc = "balance" /\ Keys = {}
    /\ pc' = "load"
    /\ UNCHANGED <<num_ids, old_num_ops, num_ops, lines, hash, out, op_index, max_index>>

-----------------------------------------------------------------------------
(* One request of read_trace.  The array ops has num_ops elements; a free  *)
(* does not count for max_index.                                           *)
ReadRequest ==
    /\ pc = "load" /\ op_index < Len(out)
    /\ LET type  == Letter[out[op_index + 1].cmd]
           index == Number[out[op_index + 1].id]
       IN  /\ pc' = CASE type = "x" -> "bogus type"
                      [] type # "x" /\ op_index >= num_ops -> "overrun"
                      [] OTHER -> "load"
           /\ max_index' = IF type \in {"a", "r"} THEN Max({max_index, index}) ELSE max_index
    /\ op_index' = op_index + 1
    /\ UNCHANGED <<num_ids, old_num_ops, num_ops, lines, hash, out>>

(* The two assertions.                                                     *)
ReadEnds ==
    /\ pc = "load" /\ op_index = Len(out)
    /\ pc' = IF max_index = num_ids - 1 /\ num_ops = op_index THEN "loaded" ELSE "assertion"
    /\ UNCHANGED <<num_ids, old_num_ops, num_ops, lines, hash, out, op_index, max_index>>

Next ==
    \/ \E cmd \in Commands, id \in Written : CheckLine(cmd, id)
    \/ Balance \/ PrintFree \/ Balanced
    \/ ReadRequest \/ ReadEnds

Spec == Init /\ [][Next]_vars

-----------------------------------------------------------------------------
(* A file in which both programs read the same: its commands are single    *)
(* letters, its ids have their usual form.  Any other one escapes the      *)
(* script: "aa 0", "aa 0", "f 0" is accepted and loaded, and so is "fx 5", *)
(* "f 5", which frees an id outside the arrays.                            *)
Plain(t) == \A n \in DOMAIN t : t[n].cmd \in {"a", "r", "f"} /\ t[n].id \in AllIds

(* The ids that are live after the first n requests of a trace.            *)
LiveAfter(t, n) ==
    {id \in AllIds : \E k \in 1..n : /\ t[k] = [cmd |-> "a", id |-> id]
                                  /\ \A j \in (k + 1)..n : t[j] # [cmd |-> "f", id |-> id]}

(* What the driver's phases rely on, none of which looks whether an id is  *)
(* live: a plain trace that is loaded allocates ids that are not live,     *)
(* resizes and frees ids that are, and ends with none.                     *)
LoadedIsLegal ==
    pc = "loaded" /\ Plain(out) =>
        /\ \A n \in DOMAIN out :
              (out[n].cmd = "a") # (out[n].id \in LiveAfter(out, n - 1))
        /\ LiveAfter(out, Len(out)) = {}

(* Every index of a plain trace that is loaded is below num_ids, the size  *)
(* of the arrays blocks and block_sizes, those of frees too, which         *)
(* read_trace does not look at.                                            *)
IndexInArrays == pc = "loaded" /\ Plain(out) => \A n \in DOMAIN out : out[n].id < num_ids

(* A plain trace with a right header that the script accepts loads: neither*)
(* assertion of read_trace fails and nothing is stored behind ops.         *)
Requested == {lines[n].id : n \in {k \in DOMAIN lines : lines[k].cmd \in {"a", "r"}}}
AcceptedLoads ==
    pc \in {"assertion", "overrun"} /\ Plain(lines) =>
        \/ old_num_ops # Len(lines)
        \/ num_ids # Max({0} \union Requested) + 1

=============================================================================
