--------------------------------- MODULE LC2K ---------------------------------
(***************************************************************************)
(* The LC-2K assembler (assembler/assemble.c) and the instruction-level    *)
(* simulator (simulator/simulate.c).  A source line has a label, or none,  *)
(* an opcode and three arguments; an argument is a number or a label.  A   *)
(* word is an integer of 32 bits.  Reading lines and printing the state    *)
(* are left out.                                                           *)
(***************************************************************************)
EXTENDS Integers, Sequences, SequencesExt
CONSTANTS MAXLABEL,          \* characters a label may have
          NUMMEMORY, NUMREGS,
          STEPS              \* instructions the simulator runs before it gives up (200)

Opcodes == <<"add", "nor", "lw", "sw", "beq", "jalr", "halt", "noop", ".fill">>
OpcodeOf(line) == SelectInSeq(Opcodes, LAMBDA o : o = line.opcode) - 1
Number(n) == [kind |-> "number", n |-> n]
Label(l) == [kind |-> "label", l |-> l]
isNumber(arg) == arg.kind = "number"
\* The line a label is at, the first being 0; -1 if no line has it.
get_label_addr(program, l) == SelectInSeq(program, LAMBDA line : line.label = l) - 1

\* The first pass: labels are new, short and do not start with a digit.
LabelOK(program, i) ==
  LET label == program[i].label
  IN  label # <<>> => /\ get_label_addr(SubSeq(program, 1, i - 1), label) = -1
                      /\ Len(label) <= MAXLABEL /\ Head(label) \notin {"0", "1"}

Bit(n) == 2 ^ n
Low(word, bits) == word % Bit(bits)
Bad == [ok |-> FALSE, word |-> 0]
Good(word) == [ok |-> TRUE, word |-> word]
RegisterOK(arg) == isNumber(arg) /\ arg.n \in 0 .. 7
\* Mutant: the way to a label is counted from the branch itself.
Offset_self(program, i, arg) ==
  IF isNumber(arg) THEN Good(arg.n)
  ELSE LET at == get_label_addr(program, arg.l)
       IN  IF at < 0 THEN Bad ELSE Good(IF program[i].opcode = "beq" THEN at - (i - 1) ELSE at)
\* A label stands for its address; for beq, for the way there from the next line.
Offset(program, i, arg) ==
  IF isNumber(arg) THEN Good(arg.n)
  ELSE LET at == get_label_addr(program, arg.l)
       IN  IF at < 0 THEN Bad ELSE Good(IF program[i].opcode = "beq" THEN at - i ELSE at)
Fields(line) == OpcodeOf(line) * Bit(22) + line.args[1].n * Bit(19) + line.args[2].n * Bit(16)
RType(line) == IF RegisterOK(line.args[3]) THEN Good(Fields(line) + line.args[3].n) ELSE Bad
IType(program, i) ==
  LET line == program[i]
      offset == Offset(program, i, line.args[3])
  IN  IF ~offset.ok \/ offset.word < -Bit(15) \/ offset.word > Bit(15) - 1 THEN Bad
      ELSE Good(Fields(line) + Low(offset.word, 16))
Fill(program, arg) ==
  IF isNumber(arg) THEN Good(arg.n)
  ELSE IF get_label_addr(program, arg.l) < 0 THEN Bad ELSE Good(get_label_addr(program, arg.l))
\* The second pass: a line's word, or an error that ends the assembler.
Word(program, i) ==
  LET line == program[i]
  IN  CASE line.opcode \in {"halt", "noop"} -> Good(OpcodeOf(line) * Bit(22))
        [] line.opcode = ".fill" -> Fill(program, line.args[1])
        [] line.opcode \in {"add", "nor", "lw", "sw", "beq", "jalr"} ->
             IF ~RegisterOK(line.args[1]) \/ ~RegisterOK(line.args[2]) THEN Bad
             ELSE IF line.opcode \in {"add", "nor"} THEN RType(line)
             ELSE IF line.opcode = "jalr" THEN Good(Fields(line)) ELSE IType(program, i)
        [] OTHER -> Bad
Assembled(program) == [i \in DOMAIN program |-> Word(program, i).word]
Assembles(program) == \A i \in DOMAIN program : LabelOK(program, i) /\ Word(program, i).ok

-----------------------------------------------------------------------------
\* The simulator.  pc is not set before the loop: it starts with what the stack has there.
Boot(words, pc) ==
  [pc |-> pc, mem |-> words \o [i \in 1 .. NUMMEMORY - Len(words) |-> 0], reg |-> [i \in 0 .. NUMREGS - 1 |-> 0],
   count |-> 0, status |-> "running"]
Field(word, bit) == Low(word \div Bit(bit), 3)
\* Mutant: an offset is not sign-extended.
Signed_not(half) == half
Signed(half) == IF half > Bit(15) - 1 THEN half - Bit(16) ELSE half
Jump(m, pc) == [m EXCEPT !.pc = pc, !.status = IF pc < 0 THEN "error" ELSE @]
RECURSIVE nor(_, _)
\* ~(a | b) of words: -1 - (a | b).
or2(a, b) == IF a = 1 \/ b = 1 THEN 1 ELSE 0
nor(a, b) == IF a \in {0, -1} /\ b \in {0, -1} THEN (IF a = 0 /\ b = 0 THEN -1 ELSE 0)
             ELSE 2 * nor(a \div 2, b \div 2) + 1 - or2(a % 2, b % 2)
Execute(m, word) ==
  LET op == Field(word, 22)
      r1 == Field(word, 19)
      r2 == Field(word, 16)
      offset == Signed(Low(word, 16))
      at == m.reg[r1] + offset + 1
      n == [m EXCEPT !.pc = @ + 1]
  IN  CASE op = 0 -> [n EXCEPT !.reg[Low(word, 3)] = m.reg[r1] + m.reg[r2]]
        [] op = 1 -> [n EXCEPT !.reg[Low(word, 3)] = nor(m.reg[r1], m.reg[r2])]
        [] op = 2 -> [n EXCEPT !.reg[r2] = m.mem[at]]
        [] op = 3 -> [n EXCEPT !.mem[at] = m.reg[r2]]
        [] op = 4 -> Jump(n, IF m.reg[r1] = m.reg[r2] THEN n.pc + offset ELSE n.pc)
        [] op = 5 -> LET linked == [n EXCEPT !.reg[r2] = n.pc] IN Jump(linked, linked.reg[r1])
        [] op = 6 -> [n EXCEPT !.status = "halted"]
        [] OTHER -> n
Run(m) ==
  LET next == [m EXCEPT !.count = @ + 1]
  IN  IF next.count > STEPS THEN [next EXCEPT !.status = "error"] ELSE Execute(next, m.mem[m.pc + 1])

-----------------------------------------------------------------------------
(***************************************************************************)
(* Programs of a few lines over some cells of data, assembled and run;     *)
(* Meaning is what a line of the source says, by the manual's table.       *)
(***************************************************************************)
VARIABLES program, machine
lvars == <<program, machine>>
CONSTANT LINES
Line(label, opcode, a, b, c) == [label |-> label, opcode |-> opcode, args |-> <<a, b, c>>]
N(n) == Number(n)
A == Label(<<"a">>)
Data == <<Line(<<"d">>, ".fill", N(5), N(0), N(0)), Line(<<"e">>, ".fill", Label(<<"a">>), N(0), N(0)), Line(<<>>, ".fill", N(-3), N(0), N(0))>>
Code(label) == { Line(label, "add", N(1), N(2), N(1)), Line(label, "nor", N(1), N(2), N(3)), Line(label, "lw", N(0), N(1), Label(<<"d">>)),
                 Line(label, "lw", N(0), N(2), Label(<<"e">>)), Line(label, "sw", N(0), N(1), Label(<<"d">>)),
                 Line(label, "sw", N(0), N(3), N(0)), Line(label, "beq", N(1), N(2), A), Line(label, "beq", N(0), N(3), N(-1)),
                 Line(label, "jalr", N(2), N(3), N(0)), Line(label, "jalr", N(2), N(2), N(0)), Line(label, "halt", N(0), N(0), N(0)),
                 Line(label, "noop", N(0), N(0), N(0)), Line(label, "lw", N(8), N(1), N(0)), Line(label, "add", N(1), A, N(1)),
                 Line(label, "beq", N(0), N(0), N(32768)), Line(label, "beq", N(0), N(0), Label(<<"z">>)), Line(label, "mul", N(1), N(2), N(3)) }
Off == [pc |-> 0, mem |-> <<>>, reg |-> <<>>, count |-> 0, status |-> "off"]
LInit == program = <<>> /\ machine = Off
Write ==
  /\ machine.status = "off" /\ Len(program) < LINES
  /\ \E line \in Code(IF Len(program) = 1 THEN <<"a">> ELSE <<>>) : program' = Append(program, line)
  /\ UNCHANGED machine
Start ==
  /\ machine.status = "off" /\ Len(program) = LINES /\ Assembles(program \o Data)
  /\ \E pc \in 0 .. LINES - 1 : machine' = Boot(Assembled(program \o Data), pc)
  /\ program' = program \o Data
\* Reading outside the program is left to the reader of the hazards.
InRange(m) == m.pc < Len(program) /\ \A i \in DOMAIN m.reg : m.reg[i] \in -64 .. 64
InMemory(m) ==
  LET word == m.mem[m.pc + 1] IN m.reg[Field(word, 19)] + Signed(Low(word, 16)) \in 0 .. NUMMEMORY - 1
Go ==
  /\ machine.status = "running" /\ InRange(machine)
  /\ Field(machine.mem[machine.pc + 1], 22) \in {2, 3} => InMemory(machine)
  /\ machine' = Run(machine) /\ UNCHANGED program
LNext == Write \/ Start \/ Go
LSpec == LInit /\ [][LNext]_lvars
-----------------------------------------------------------------------------
AddressOf(l) == CHOOSE i \in 0 .. Len(program) - 1 : program[i + 1].label = l
Value(arg) == IF isNumber(arg) THEN arg.n ELSE AddressOf(arg.l)
Bitwise(x, y) == CHOOSE z \in -128 .. 127 : \A i \in 0 .. 7 : (z \div 2 ^ i) % 2 = 1 <=> (x \div 2 ^ i) % 2 = 0 /\ (y \div 2 ^ i) % 2 = 0
\* Registers, memory and the next line after a line of the source.
Meaning(m, line) ==
  LET a == line.args[1].n
      b == line.args[2].n
      next == m.pc + 1
      state(reg, mem, pc) == [reg |-> reg, mem |-> mem, pc |-> pc]
      set(r, v) == [m.reg EXCEPT ![r] = v]
  IN  CASE line.opcode = "add" -> state(set(line.args[3].n, m.reg[a] + m.reg[b]), m.mem, next)
        [] line.opcode = "nor" -> state(set(line.args[3].n, Bitwise(m.reg[a], m.reg[b])), m.mem, next)
        [] line.opcode = "lw" -> state(set(b, m.mem[m.reg[a] + Value(line.args[3]) + 1]), m.mem, next)
        [] line.opcode = "sw" -> state(m.reg, [m.mem EXCEPT ![m.reg[a] + Value(line.args[3]) + 1] = m.reg[b]], next)
        [] line.opcode = "beq" -> state(m.reg, m.mem, IF m.reg[a] # m.reg[b] THEN next
                                                      ELSE IF isNumber(line.args[3]) THEN next + line.args[3].n ELSE AddressOf(line.args[3].l))
        [] line.opcode = "jalr" -> state(set(b, next), m.mem, IF a = b THEN next ELSE m.reg[a])
        [] OTHER -> state(m.reg, m.mem, next)
\* An instruction that the program has not overwritten does what its source line says.
DoesAsWritten ==
  machine.status = "running" /\ machine.mem[machine.pc + 1] = Word(program, machine.pc + 1).word
    /\ program[machine.pc + 1].opcode # ".fill" /\ machine.count < STEPS
  => Meaning(machine, program[machine.pc + 1]) = [reg |-> machine'.reg, mem |-> machine'.mem, pc |-> machine'.pc]
RunsSource == [][DoesAsWritten]_machine
=============================================================================
