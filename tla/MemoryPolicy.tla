---------------------------- MODULE MemoryPolicy ----------------------------
(***************************************************************************)
(* linux.memoryPolicy: the mode, the flags and the node list of the spec   *)
(* are validated, packed into words of a bit mask and given to             *)
(* set_mempolicy(2).  A node list is a sequence of entries: <<>> between   *)
(* two commas, <<n>>, <<first, last>>, or a number that does not parse,    *)
(* written as -1.                                                          *)
(***************************************************************************)
EXTENDS Integers, Sequences, FiniteSets, FiniteSetsExt, TLC

CONSTANTS
    Bits,         \* bits in a c_ulong
    NodeStrings   \* node lists explored, <<>> for an absent one, else <<entries>>

VARIABLES policy, outcome, applied

vars == <<policy, outcome, applied>>

Modes == {"default", "preferred", "bind", "interleave", "local", "preferred_many",
          "weighted_interleave"}
Flags == {"numa_balancing", "static_nodes", "relative_nodes"}
None == [mode |-> "none", flags |-> {}, words |-> <<>>, maxnode |-> 0]

-----------------------------------------------------------------------------
\* parse_node_string: empty entries are passed over, a reversed range and a
\* malformed number refuse the list.
ParseNodeString(entries) ==
    IF \E i \in DOMAIN entries : \/ \E j \in DOMAIN entries[i] : entries[i][j] < 0
                                 \/ Len(entries[i]) = 2 /\ entries[i][1] > entries[i][2]
    THEN <<>>
    ELSE <<UNION {IF entries[i] = <<>> THEN {}
                  ELSE entries[i][1] .. entries[i][Len(entries[i])] : i \in DOMAIN entries}>>

(* mutant: a highest node that is a multiple of the word size gets no word *)
BuildNodemask_short(nodes) ==
    LET count == (Max(nodes) + Bits - 1) \div Bits
    IN  IF nodes = {} THEN [words |-> <<>>, maxnode |-> 0]
        ELSE [words |-> [w \in 1 .. count |->
                           {b \in 0 .. Bits - 1 : \E n \in nodes : n \div Bits = w - 1 /\ n % Bits = b}],
              maxnode |-> count * Bits]

\* build_nodemask: as many words as the highest node needs; a word is the set of
\* its bits.
BuildNodemask(nodes) ==
    LET count == Max(nodes) \div Bits + 1
    IN  IF nodes = {} THEN [words |-> <<>>, maxnode |-> 0]
        ELSE [words |-> [w \in 1 .. count |->
                           {b \in 0 .. Bits - 1 : \E n \in nodes : n \div Bits = w - 1 /\ n % Bits = b}],
              maxnode |-> count * Bits]

\* validate_memory_policy: <<>> for an error, else the call's arguments.
ValidateMemoryPolicy(p) ==
    LET nodes == IF p.nodes = <<>> THEN <<{}>> ELSE ParseNodeString(p.nodes[1])
        blank == p.nodes = <<>> \/ p.nodes = << <<>> >>
        positional == p.flags \cap {"static_nodes", "relative_nodes"}
        refused ==
            \/ "numa_balancing" \in p.flags /\ p.mode # "bind"
            \/ positional = {"static_nodes", "relative_nodes"}
            \/ p.mode \in {"default", "local"} /\ (~blank \/ p.flags # {})
            \/ p.mode \notin {"default", "local"} /\ nodes = <<>>
            \/ p.mode = "preferred" /\ nodes = <<{}>> /\ positional # {}
            \/ p.mode \notin {"default", "local", "preferred"} /\ nodes = <<{}>>
    IN  IF refused THEN <<>>
        ELSE <<[mode |-> p.mode, flags |-> p.flags] @@ BuildNodemask(nodes[1])>>

\* set_mempolicy(2): the kernel reads one bit less than maxnode says.
MaskNodes(call) ==
    {n \in 0 .. call.maxnode - 2 : n % Bits \in call.words[n \div Bits + 1]}
KernelAccepts(call) ==
    LET nodes == MaskNodes(call)
        positional == call.flags \cap {"static_nodes", "relative_nodes"}
    IN  /\ "numa_balancing" \in call.flags => call.mode = "bind"
        /\ positional # {"static_nodes", "relative_nodes"}
        /\ call.mode = "default" => nodes = {}
        /\ call.mode = "local" => nodes = {} /\ positional = {}
        /\ call.mode = "preferred" /\ nodes = {} => positional = {}
        /\ call.mode \notin {"default", "local", "preferred"} => nodes # {}

-----------------------------------------------------------------------------
Init ==
    /\ policy \in [mode : Modes, flags : SUBSET Flags, nodes : NodeStrings]
    /\ outcome = "none" /\ applied = None

\* setup_memory_policy: validation, then the system call.
SetupMemoryPolicy ==
    /\ outcome = "none"
    /\ LET call == ValidateMemoryPolicy(policy)
       IN  IF call = <<>> THEN outcome' = "invalid" /\ UNCHANGED applied
           ELSE /\ applied' = call[1]
                /\ outcome' = IF KernelAccepts(call[1]) THEN "ok" ELSE "EINVAL"
    /\ UNCHANGED policy

Done == outcome # "none" /\ UNCHANGED vars
Next == SetupMemoryPolicy \/ Done
Spec == Init /\ [][Next]_vars

-----------------------------------------------------------------------------
\* What the variables hold.
TypeOK ==
    /\ outcome \in {"none", "invalid", "ok", "EINVAL"}
    /\ \A w \in DOMAIN applied.words : applied.words[w] \subseteq 0 .. Bits - 1

\* The nodes the list names, and those of them the kernel is told of:
\* build_nodemask gives the size of its mask as maxnode, and so the kernel does
\* not read the mask's last bit.
Named == IF policy.nodes = <<>> THEN {} ELSE ParseNodeString(policy.nodes[1])[1]
Told == {n \in Named : (n + 1) % Bits = 0 => \E m \in Named : m > n}

\* A policy that takes effect is for the nodes its list names, on either side of
\* a word boundary, but for a highest node that is the last bit of a word, which
\* the kernel does not see; the mask has no superfluous last word; and the
\* kernel refuses what validation let through only where that node was the only
\* one.
MaskIsTheNodes ==
    /\ outcome = "ok" =>
         /\ MaskNodes(applied) = Told
         /\ applied.words # <<>> => applied.words[Len(applied.words)] # {}
    /\ outcome = "EINVAL" => Named # {} /\ Told = {}
=============================================================================
