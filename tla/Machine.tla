------------------------------- MODULE Machine -------------------------------
(***************************************************************************)
(* The reference machine: the registers start at (1, 1) and step over a    *)
(* fixed image until the sentinel, which is never executed (run).  It is   *)
(* what the checker and the reader of traces implement, neither of which   *)
(* steps this way: the one reads through hinted indices, the other follows *)
(* rows and executes nothing.                                              *)
(*                                                                         *)
(* The step is a parameter, so that an instance shares the one of LeanIsa. *)
(***************************************************************************)
CONSTANTS InitialRegs, NoRegs, FinalPc(_), step(_, _, _)

VARIABLES prog, image, regs

Init == regs = InitialRegs

Step ==
  /\ regs.pc # FinalPc(prog)
  /\ step(prog, image, regs) # NoRegs
  /\ regs' = step(prog, image, regs)
  /\ UNCHANGED <<prog, image>>

Spec == Init /\ [][Step]_<<prog, image, regs>>

=============================================================================
