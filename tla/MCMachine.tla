----------------------------- MODULE MCMachine -----------------------------
(* Machine with bytes of two bits: words of eight, pages of four bytes.    *)
EXTENDS Machine

MCEntry(frame, valid, readOnly) ==
  [physicalPage |-> frame, valid |-> valid, readOnly |-> readOnly, use |-> FALSE, dirty |-> FALSE]

\* Pages 0 and 1 are not in frames that follow each other, page 2 is read-only,
\* page 3 is not valid and page 4 is in a frame that does not exist.
MCPageTable == <<MCEntry(2, TRUE, FALSE), MCEntry(0, TRUE, FALSE), MCEntry(1, TRUE, TRUE),
                 MCEntry(0, FALSE, FALSE), MCEntry(9, TRUE, FALSE)>>

\* R1 is an address, a count or an operand; the ends of the ranges are among them.
MCStart == {[r \in 0..3 |-> CASE r = 0 -> 0 [] r = 1 -> a [] r = 2 -> b [] r = 3 -> 27] :
              a \in {1, 2, 7, 127, 128, 255}, b \in {0, 1, 127, 128, 255}}

\* At the start of the program, and in the delay slot of a jump to page 4.
MCCounters == {<<0, 4>>, <<4, 16>>}

\* No load is pending, or one of the address register or of another one.
MCLoading == {<<0, 0>>, <<1, 128>>, <<2, 200>>}

MCWord(op, funct, rt, rd, shamt, imm) ==
  [op |-> op, funct |-> funct, rs |-> 1, rt |-> rt, rd |-> rd, shamt |-> shamt, imm |-> imm,
   target |-> 2]

MCProgram ==
  {MCWord("SPECIAL", f, 2, 3, 3, 0) : f \in RFmt}
    \cup {MCWord("SPECIAL", "ADDU", 2, 0, 0, 0), MCWord("SPECIAL", "JALR", 2, 1, 0, 0)}
    \cup {MCWord("BCOND", "ADD", rt, 0, 0, 2) : rt \in {0, 1, 2, 16, 17}}
    \cup {MCWord(op, "ADD", 2, 0, 0, 15) : op \in ToRt \cup {"BEQ", "BNE", "BGTZ", "BLEZ"} \cup JFmt}
    \cup {MCWord(op, "ADD", 2, 0, 0, imm) : op \in Loads \cup Stores, imm \in {0, 3, 6}}
    \cup {MCWord("LW", "ADD", 3, 0, 0, 15), MCWord("RES", "ADD", 0, 0, 0, 0)}
=============================================================================
