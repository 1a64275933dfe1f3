----------------------------- MODULE MCRoundTrip -----------------------------
(***************************************************************************)
(* RoundTrip over GF(512): 144 committed cells, twelve frames, a ladder of *)
(* two sizes, and short programs followed by their fill blocks.            *)
(***************************************************************************)
EXTENDS RoundTrip, SequencesExt

(* A toy compression, not zero on the zero cells.                          *)
MCCompress(m, cv, md) ==
  LET cut(x) == ofLimbs(Limb(x, 0), Limb(x, 1), Zero)
      sum(x, z) == cut(EAdd(x, z))
  IN  <<sum(sum(m[1], m[2]), sum(cv[1], ofK(One))), sum(sum(sum(m[3], m[4]), cv[2]), md)>>

Jump(c, d, f)     == [op |-> "jump", o |-> <<c, d, f>>]
Deref(a, b, c, m) == [op |-> "deref", o |-> <<a, b, c>>, mode |-> m]
Set               == [op |-> "setConstant", o |-> <<4>>, k |-> ofK(Zero)]
Xor               == [op |-> "xor", o |-> <<0, 0, 4>>]
Mul               == [op |-> "mulNative", o |-> <<1, 3, 1>>]
Blake             == [op |-> "blake2s", o |-> <<4, 4, 4, 4, 8, 6, 4>>]
Exit              == Jump(2, 2, 3)   \* to the sentinel, in frame 1
FallThrough       == Jump(4, 4, 4)

(* The run's instructions, the fill blocks, whose blocks of one row are    *)
(* the tails of the blocks of two, and the sentinel.                       *)
Blocks == FlattenSeq([i \in 1..6 |-> <<fillDummy(fillTables[i]), fillDummy(fillTables[i]), fillClose>>])
Program(s) ==
  LET c == s \o Blocks \o <<Set>>
  IN  [size |-> Len(c), code |-> [i \in 0..Len(c) - 1 |-> c[i + 1]]]
Starts(s) == [t \in Tables |-> [k \in Ladder |-> Len(s) + 3 * tableIdx(t) + k]]

Word0 == ofLimbs(1, 2, 3)
Word1 == ofLimbs(7, Zero, One)

(* Cells 10..12 and 30..32 send a jump at slot 0 to itself in frame g^20,  *)
(* and from there to the sentinel.                                         *)
Image(s) ==
  [size |-> 144,
   cell |-> [i \in 0..143 |->
     CASE i = 0 -> Word0
       [] i = 1 -> Word1
       [] i \in {2, 31} -> ofK(Len(s) + 18)
       [] i \in {3, 10, 11, 30, 32} -> ofK(One)
       [] i = 6 -> zeroDigest[1] [] i = 7 -> zeroDigest[2]
       [] i = 12 -> ofK(20)
       [] OTHER -> ofK(Zero)]]

Sources ==
  {<<Exit>>, <<Jump(10, 11, 12)>>,
   <<Xor, Mul, Deref(3, 0, 0, "cell"), Blake, Exit>>,
   <<Set, Set, Set, Blake, Exit>>,
   <<Set, Set, Set, Xor, Xor, Xor, Exit>>,
   <<Set, Set, Set, Set, Set, Exit>>,
   <<Deref(3, 3, 4, "fp"), FallThrough, FallThrough, Blake, Blake, Blake, Exit>>,
   <<Mul, Mul, Deref(3, 0, 0, "cell"), Deref(3, 0, 0, "cell"), FallThrough, Exit>>}

(* Programs that are stuck at their first step: a jump not taken, one of   *)
(* whose cells is not in K, and a DEREF of the frame whose own cell, which *)
(* the mode ignores, is beyond the padded image.                           *)
Stuck == {<<Jump(4, 0, 4), Exit>>, <<Jump(4, 4, 1), Exit>>, <<Deref(3, 3, 400, "fp"), Exit>>}

RECURSIVE runFrom(_, _, _)
runFrom(p, L, rs) ==
  LET last == rs[Len(rs)]
  IN  IF last.pc = FinalPc(p) \/ step(p, L, last) = NoRegs THEN rs
      ELSE runFrom(p, L, Append(rs, step(p, L, last)))

Job(s, e) ==
  [prog |-> Program(s), input |-> <<Word0, Word1>>, image |-> Image(s), tau |-> e,
   regs |-> runFrom(Program(s), Image(s), <<InitialRegs>>), pcs |-> Starts(s)]

MCJobs ==
  {j \in {Job(s, e) : s \in Sources \cup Stuck, e \in 0..MaxLogRows} :
     ValidExecution(j.prog, j.input, j.image, j.regs) /\ Fits(runRows(j), j.tau)}

(* GF(512) with 511 addresses (x^9 = x^4 + 1), over which y^3 + y + 1 is    *)
(* not irreducible: this instance never divides in E.                       *)
Zech512 == <<
  511, 130, 260, 420, 9, 507, 329, 67, 18, 4, 503, 470, 147, 138, 134,
  126, 36, 341, 8, 421, 495, 306, 429, 337, 294, 56, 276, 142, 268, 463,
  252, 486, 72, 181, 171, 231, 16, 375, 331, 214, 479, 52, 101, 370, 347,
  310, 163, 301, 77, 119, 112, 454, 41, 225, 284, 408, 25, 108, 415, 469,
  504, 167, 461, 263, 144, 256, 362, 7, 342, 262, 462, 269, 32, 219, 239,
  435, 151, 48, 428, 307, 447, 379, 104, 161, 202, 349, 229, 354, 183,
  414, 109, 94, 326, 304, 91, 423, 154, 186, 238, 220, 224, 42, 397, 158,
  82, 384, 450, 275, 57, 90, 305, 496, 50, 358, 216, 484, 319, 465, 427,
  49, 497, 412, 334, 356, 411, 498, 15, 232, 288, 510, 1, 290, 213, 332,
  14, 499, 173, 477, 13, 333, 413, 184, 27, 425, 64, 321, 438, 12, 478,
  215, 359, 76, 302, 266, 96, 278, 345, 244, 103, 380, 383, 83, 247, 46,
  208, 437, 322, 61, 404, 237, 187, 34, 458, 136, 197, 472, 366, 299, 317,
  312, 218, 33, 188, 88, 141, 277, 97, 170, 182, 355, 335, 446, 308, 442,
  372, 401, 476, 174, 440, 378, 448, 246, 84, 395, 283, 226, 316, 300,
  164, 361, 257, 418, 389, 132, 39, 149, 114, 241, 180, 73, 99, 352, 481,
  351, 100, 53, 205, 281, 432, 86, 457, 35, 127, 388, 419, 261, 343, 169,
  98, 74, 483, 217, 313, 271, 157, 398, 201, 162, 311, 318, 485, 253, 30,
  251, 464, 320, 65, 210, 509, 289, 2, 235, 69, 63, 426, 466, 153, 424,
  28, 71, 487, 243, 346, 371, 443, 107, 26, 185, 155, 406, 315, 227, 368,
  204, 54, 490, 339, 387, 128, 259, 131, 390, 365, 473, 24, 409, 445, 336,
  430, 177, 207, 47, 152, 467, 93, 110, 21, 79, 192, 393, 45, 248, 179,
  242, 488, 280, 206, 178, 249, 116, 255, 145, 166, 505, 494, 422, 92,
  468, 416, 6, 363, 38, 133, 139, 122, 190, 297, 23, 474, 286, 374, 17,
  68, 236, 405, 156, 272, 44, 394, 85, 433, 223, 221, 456, 87, 189, 123,
  453, 113, 150, 436, 209, 66, 330, 376, 292, 176, 431, 282, 396, 43, 273,
  194, 386, 340, 37, 364, 391, 199, 81, 159, 382, 381, 160, 105, 400, 373,
  287, 233, 212, 291, 377, 441, 309, 348, 203, 369, 102, 245, 449, 385,
  195, 492, 460, 168, 344, 279, 489, 55, 295, 452, 124, 121, 140, 89, 58,
  328, 508, 211, 234, 3, 19, 325, 95, 267, 143, 264, 118, 78, 22, 298,
  367, 228, 350, 482, 75, 360, 165, 146, 471, 198, 392, 193, 274, 451,
  296, 191, 80, 200, 399, 106, 444, 410, 357, 51, 480, 353, 230, 172, 500,
  403, 62, 70, 29, 254, 117, 265, 303, 327, 59, 11, 439, 175, 293, 338,
  491, 196, 137, 148, 40, 455, 222, 434, 240, 115, 250, 31, 270, 314, 407,
  285, 475, 402, 501, 324, 20, 111, 120, 125, 135, 459, 493, 506, 10, 60,
  323, 502, 5, 417, 258, 129>>

=============================================================================
