----------------------------- MODULE SeccompBpf -----------------------------
(***************************************************************************)
(* The seccomp compiler of experiment/seccomp: a LinuxSeccomp profile is   *)
(* turned into a plan (SeccompProgramPlan), the plan into a BPF program,   *)
(* and the kernel (external) runs the program on every system call.        *)
(*                                                                         *)
(* A behaviour compiles one profile and runs the program, an instruction   *)
(* at a time, on one call.  The sizes of the code are parameters that keep *)
(* their relations: words have WordBits bits (32), jump offsets are a      *)
(* c_uchar of at most JumpMax (255), a chunk has JumpMax - 1 (254) system  *)
(* calls, and the audit numbers of architectures lie above X32Bit (2^30).  *)
(***************************************************************************)
EXTENDS Integers, Sequences, SequencesExt, FiniteSets, Bitwise

CONSTANTS WordBits, JumpMax, X32Bit, Profiles, Calls

Chunk == JumpMax - 1
Hi(v) == v \div 2^WordBits
Lo(v) == v % 2^WordBits

-----------------------------------------------------------------------------
(* Instructions. *)

Jump(op, jt, jf, k) ==
    [op |-> op, jt |-> jt % (JumpMax + 1), jf |-> jf % (JumpMax + 1), k |-> k, of |-> ""]
Load(of) == [op |-> "ld", jt |-> 0, jf |-> 0, k |-> 0, of |-> of]
LoadArg(n, of) == [Load(of) EXCEPT !.k = n]
Ret(action) == [op |-> "ret", jt |-> 0, jf |-> 0, k |-> 0, of |-> action]

(* mutant: the architecture check jumps one too far *)
ValidateShort(arc, def_action, jump_num) ==
    <<Load("arch"), Jump("jeq", 0, jump_num + 4, arc),
      Load("nr"), Jump("jge", 0, 1, X32Bit), Ret("ENOSYS")>>

\* jump_num is the length of the rule's section, which follows.
gen_validate(arc, def_action, jump_num) ==
    IF jump_num <= JumpMax
    THEN <<Load("arch"), Jump("jeq", 0, jump_num + 3, arc),
           Load("nr"), Jump("jge", 0, 1, X32Bit), Ret("ENOSYS")>>
    ELSE <<Load("arch"), Jump("jeq", 1, 0, arc), Ret(def_action),
           Load("nr"), Jump("jge", 0, 1, X32Bit), Ret("ENOSYS")>>

Narrow == {"Equal", "NotEqual", "MaskedEqual"}

\* How far a match on the number alone jumps to reach the rule's action.
jump_cnt(rule, jump_num) ==
    CASE rule.arg = <<>> -> jump_num
      [] rule.arg # <<>> /\ rule.arg[1].op \in Narrow -> jump_num + 4
      [] OTHER -> jump_num + 5

\* The instructions between the load of the upper word and the end of the check.
\* GreaterOrEqual and GreaterThan are alike; for MaskedEqual any bit in common is a
\* match, and value_two is not looked at.
Comparison(op, h, lo, l) ==
    CASE op = "NotEqual" -> <<Jump("jeq", 0, 3, h), lo, Jump("jeq", 0, 1, l)>>
      [] op = "Equal" -> <<Jump("jeq", 0, 2, h), lo, Jump("jeq", 1, 0, l)>>
      [] op = "MaskedEqual" -> <<Jump("jset", 3, 0, h), lo, Jump("jset", 1, 0, l)>>
      [] op = "LessThan" -> <<Jump("jge", 0, 4, h), Jump("jeq", 0, 2, h), lo, Jump("jge", 0, 1, l)>>
      [] op = "LessOrEqual" -> <<Jump("jge", 0, 4, h), Jump("jeq", 0, 2, h), lo, Jump("jgt", 0, 1, l)>>
      [] op \in {"GreaterThan", "GreaterOrEqual"} ->
            <<Jump("jgt", 4, 0, h), Jump("jeq", 0, 2, h), lo, Jump("jge", 1, 0, l)>>

\* The upper and then the lower word of the argument are compared.
build_instruction_with_args(rule, nr) ==
    LET arg == rule.arg[1]
    IN  <<Jump("jeq", 0, IF arg.op \in Narrow THEN 4 ELSE 5, nr), LoadArg(arg.index, "hi")>>
            \o Comparison(arg.op, Hi(arg.value), LoadArg(arg.index, "lo"), Lo(arg.value))

build_instruction(rule, jump_num, nr) ==
    IF rule.arg # <<>> /\ nr \in rule.check_arg_syscall
    THEN build_instruction_with_args(rule, nr)
    ELSE <<Jump("jeq", jump_cnt(rule, jump_num), 0, nr)>>

syscall_to_bpf_chunk(rule, chunk) ==
    FlattenSeq([i \in DOMAIN chunk |-> build_instruction(rule, Len(chunk) - i + 1, chunk[i])])

\* rule.syscall.chunks(Chunk): after each chunk but the last, a return.
build_syscall_section(rule) ==
    LET n == (Len(rule.syscall) + Chunk - 1) \div Chunk
        chunk(i) == SubSeq(rule.syscall, (i - 1) * Chunk + 1,
                           IF i = n THEN Len(rule.syscall) ELSE i * Chunk)
    IN  FlattenSeq([i \in 1 .. n |-> syscall_to_bpf_chunk(rule, chunk(i)) \o
                        IF i = n THEN <<>> ELSE <<Ret(rule.action)>>])

\* TryFrom<SeccompProgramPlan> for Vec<Instruction>.
Program(plan) ==
    LET section == build_syscall_section(plan.rule)
    IN  gen_validate(plan.arc, plan.def_action, Len(section)) \o section
            \o <<Ret(plan.def_action), Ret(plan.rule.action)>>

-----------------------------------------------------------------------------
(* The plan.  Entries are folded into one rule: names are added up, and the *)
(* action and the argument of the last one to set them stay.                *)

\* "Errno" is the action without an errno_ret, which leaves what was there before.
ActionOf(action, before) == IF action = "Errno" THEN before ELSE action

\* The tests of an entry; args is an Option of a list.
Tests(e) == IF e.args = <<>> THEN <<>> ELSE e.args[1]

AddEntry(rule, e) ==
    [syscall |-> rule.syscall \o e.names,
     action |-> ActionOf(e.action, rule.action),
     check_arg_syscall |->
         rule.check_arg_syscall \cup IF e.args = <<>> THEN {} ELSE ToSet(e.names),
     arg |-> IF Tests(e) = <<>> \/ e.names = <<>> THEN rule.arg ELSE <<Last(Tests(e))>>]

check_seccomp(p) ==
    CASE p.default_action = "Notify" -> "InvalidDefaultAction"
      [] \E i \in DOMAIN p.syscalls : p.syscalls[i].action = "Notify" /\
            p.write \in ToSet(p.syscalls[i].names) -> "InvalidSystemCall"
      [] OTHER -> ""

\* The last architecture listed that is supported counts, and X86 when none is.
X86 == X32Bit + 1
AArch64 == X32Bit + 2
Arc(archs) == FoldLeft(LAMBDA arc, a : IF a \in {X86, AArch64} THEN a ELSE arc, X86, archs)

Plan(p) ==
    LET empty == [syscall |-> <<>>, action |-> "KillThread", check_arg_syscall |-> {}, arg |-> <<>>]
        rule == FoldLeft(AddEntry, empty, p.syscalls)
    IN  [arc |-> Arc(p.architectures),
         flags |-> p.flags,
         def_action |-> ActionOf(p.default_action, "KillThread"),
         rule |-> [rule EXCEPT !.syscall = SortSeq(@, LAMBDA a, b : a < b)]]

\* TryFrom<LinuxSeccomp> for SeccompProgramPlan, and the offset of an argument beyond
\* the sixth; a name the table does not have (a negative number here) is an unwrap()
\* on None.
Error(p) ==
    LET rule == Plan(p).rule
    IN  CASE check_seccomp(p) # "" -> check_seccomp(p)
          [] \E n \in ToSet(rule.syscall) : n < 0 -> "panic"
          [] rule.arg # <<>> /\ rule.check_arg_syscall # {} /\ rule.arg[1].index > 5 ->
                "InvalidArgumentSize"
          [] OTHER -> ""

-----------------------------------------------------------------------------
VARIABLES
    profile, call,
    program,    \* <<>> until the profile is compiled
    at,         \* the instruction to run next, from 1
    acc,        \* the accumulator
    verdict     \* "" until a return, an error of the compiler or of the kernel

vars == <<profile, call, program, at, acc, verdict>>

TypeOK ==
    /\ at \in 0 .. Len(program) + JumpMax + 1
    /\ acc \in Nat
    /\ \A i \in DOMAIN program : program[i].jt \in 0 .. JumpMax /\ program[i].jf \in 0 .. JumpMax

Init ==
    /\ profile \in Profiles /\ call \in Calls
    /\ program = <<>>
    /\ at = 0 /\ acc = 0 /\ verdict = ""

\* Seccomp::new asks for a listener whatever the profile says.
set_flags(flags) == {"NEW_LISTENER"} \cup flags

\* External: the kernel refuses a jump past the end of the program.
Valid(prog) ==
    \A i \in DOMAIN prog : prog[i].op \notin {"ld", "ret"} =>
        i + 1 + prog[i].jt <= Len(prog) /\ i + 1 + prog[i].jf <= Len(prog)

\* The kernel takes no listener together with TSYNC (external).
Apply ==
    /\ at = 0 /\ verdict = ""
    /\ IF Error(profile) # ""
       THEN verdict' = Error(profile) /\ UNCHANGED <<program, at>>
       ELSE LET plan == Plan(profile)
            IN  /\ program' = Program(plan)
                /\ IF {"NEW_LISTENER", "TSYNC"} \subseteq set_flags(plan.flags)
                   THEN verdict' = "EINVAL flags" /\ UNCHANGED at
                   ELSE IF ~Valid(program')
                   THEN verdict' = "EINVAL program" /\ UNCHANGED at
                   ELSE at' = 1 /\ UNCHANGED verdict
    /\ UNCHANGED <<profile, call, acc>>

\* External, the kernel's interpreter.
Holds(i) ==
    CASE i.op = "jeq" -> acc = i.k
      [] i.op = "jgt" -> acc > i.k
      [] i.op = "jge" -> acc >= i.k
      [] i.op = "jset" -> (acc & i.k) # 0

Run ==
    /\ at > 0 /\ verdict = ""
    /\ LET i == program[at]
       IN  \/ /\ i.op = "ld"
              /\ acc' = CASE i.of = "arch" -> call.arch
                          [] i.of = "nr" -> call.nr
                          [] i.of = "hi" -> Hi(call.args[i.k])
                          [] i.of = "lo" -> Lo(call.args[i.k])
              /\ at' = at + 1 /\ UNCHANGED verdict
           \/ /\ i.op = "ret"
              /\ verdict' = i.of /\ UNCHANGED <<at, acc>>
           \/ /\ i.op \notin {"ld", "ret"}
              /\ at' = at + 1 + (IF Holds(i) THEN i.jt ELSE i.jf)
              /\ UNCHANGED <<acc, verdict>>
    /\ UNCHANGED <<profile, call, program>>

Decided == verdict # "" /\ UNCHANGED vars

Next == Apply \/ Run \/ Decided

Spec == Init /\ [][Next]_vars /\ WF_vars(Apply \/ Run)

-----------------------------------------------------------------------------
(* Properties. *)

\* The OCI meaning of one comparison (value_two only matters to MaskedEqual).
Compare(a) ==
    LET v == call.args[a.index]
    IN  CASE a.op = "Equal" -> v = a.value
          [] a.op = "NotEqual" -> v # a.value
          [] a.op = "LessThan" -> v < a.value
          [] a.op = "LessOrEqual" -> v <= a.value
          [] a.op = "GreaterOrEqual" -> v >= a.value
          [] a.op = "GreaterThan" -> v > a.value
          [] a.op = "MaskedEqual" -> (v & a.value) = a.value_two

Entries == ToSet(profile.syscalls)

\* The OCI meaning of a profile: the action of an entry that names the call and whose
\* tests all hold (where entries disagree in their actions, see OneRule).
Meant ==
    LET matching == {e \in Entries : call.nr \in ToSet(e.names) /\ \A a \in ToSet(Tests(e)) : Compare(a)}
    IN  IF call.arch # Arc(profile.architectures) THEN profile.default_action
        ELSE IF call.nr >= X32Bit THEN "ENOSYS"
        ELSE IF matching = {} THEN profile.default_action
        ELSE (CHOOSE e \in matching : TRUE).action

\* A profile the one rule of a plan can hold.  All entries are folded into one action
\* and one test, so they have to agree in both: an action with a value for an errno,
\* and at most one test (the jumps of a test count on another test, or on the two
\* returns, to follow).
OneRule ==
    /\ \A e, f \in Entries : e.action = f.action /\ Tests(e) = Tests(f)
    /\ "Errno" \notin {profile.default_action} \cup {e.action : e \in Entries}
    /\ \A e \in Entries : Len(Tests(e)) <= 1

\* A program that is short enough: the names fit one chunk, for after a chunk that is
\* not the last every other call is given the action and the calls of the chunk skip
\* it; and the jump past the section, which is 3 longer than the section, fits a
\* c_uchar (gen_validate compares the length itself).
ShortEnough ==
    Len(Plan(profile).rule.syscall) <= Chunk /\
        (call.arch # Arc(profile.architectures) =>
            Len(build_syscall_section(Plan(profile).rule)) \notin JumpMax - 2 .. JumpMax)

\* The comparisons the compiler does not tell apart from another one: GreaterThan from
\* GreaterOrEqual, MaskedEqual from a test for any bit.
ComparedOtherwise ==
    \E e \in Entries : \E a \in ToSet(Tests(e)) :
        a.op = "MaskedEqual" \/ (a.op = "GreaterThan" /\ call.args[a.index] = a.value)

Refused == {"InvalidDefaultAction", "InvalidSystemCall", "panic", "InvalidArgumentSize",
            "EINVAL flags"}

\* The program the compiler emits decides every call as the profile says, for the
\* profiles one rule can hold, of a length the jumps can span, and but for two
\* comparisons: the offsets lead to the right return for each of the instructions.
DecidesAsMeant ==
    verdict \notin {""} \cup Refused /\ OneRule /\ ShortEnough /\ ~ComparedOtherwise =>
        verdict = Meant

=============================================================================
