------------------------------- MODULE MCUsim --------------------------------
(***************************************************************************)
(* Programs for the simulator, in bytes.  The memory has 256 bytes at 0,   *)
(* the controller's at $FF04 and the vectors.  Code starts at 32, the      *)
(* system stack is below 256, data are at 0 to 31.  Each program ends with *)
(* $13, which is no instruction of the simulator.                          *)
(***************************************************************************)
EXTENDS Usim

At(place, bytes) == [q \in place .. place + Len(bytes) - 1 |-> bytes[q - place + 1]]

Hi(w) == w \div 256
Lo(w) == w % 256

Start == 32
Handler == 160
SwiHandler == 176

Vectors == At(65520, <<0, 0, 0, SwiHandler, 0, SwiHandler, 0, Handler, 0, Handler, 0, SwiHandler>>)

MachineWith(parts) ==
  [a |-> 0, b |-> 0, x |-> 0, y |-> 0, u |-> 0, s |-> 256, dp |-> 0, pc |-> Start,
   n |-> 0, z |-> 0, v |-> 0, c |-> 0, e |-> 0, f |-> 0, h |-> 0, i |-> 0,
   irq |-> FALSE, halted |-> FALSE, stored |-> <<>>,
   mem |-> FoldLeft(LAMBDA f, g : g @@ f,
                    At(0, [q \in 1 .. 256 |-> 0]) @@ At(65280, [q \in 1 .. 12 |-> 0]) @@ Vectors, parts)]

-----------------------------------------------------------------------------
(* INC counter, every register clobbered, RTI; and for SWI: INC <7, RTI.   *)
Handlers ==
  <<At(Handler, <<\h7C, 0, 0, \hCC, \h12, \h34, \h8E, \h56, \h78, \h10, \h8E, \h9A, \hBC,
                  \h1F, \h8B, \h3B>>),
    At(SwiHandler, <<\h7C, 0, 7, \h3B>>)>>

(* The words at 1 and 3, a pointer at 8 to the bytes at 10, one to itself  *)
(* at 14.                                                                  *)
Data == At(1, <<\h12, \hF5, \h34, \h2C, 0, 0, 0, 0, 10, \h47, \h85, \h03, \hFE, 0, 16, \h99>>)

Masked == <<\h1A, \h10, \h96, 0, \h4C, \h97, 0, \h1C, \hEF>>       \* count, by hand, under a mask

(* Sums and differences of words, ,X+ and ,--Y and -1,X and [ext], DAA,    *)
(* MUL, SEX, ABX; the stacks; transfers; both subroutine calls.            *)
Words1 == <<\hDC, 1, \hD3, 3, \hDD, 5, \h9E, 8, \hA6, \h80, \hAB, \h84, \h19, \hA7, \h1F,
            \h10, \h8E, 0, 14, \hA3, \hA3, \hC9, 5, \h82, 1, \h3D, \hE6, \h9F, 0, 14, \h1D, \h3A>>
Stacks == <<\hCE, 0, 100, \h36, \h36, \h34, \h46, \h1E, \h12, \h1F, \h89, \h35, \h46, \h37, \h36>>
Calls  == <<\h8D, 6, \h17, 0, 3, \h16, 0, 3, \h5C, \h12, \h39>>     \* BSR, LBSR, LBRA over INCB, NOP, RTS
Traps  == <<\h3F, \h10, \h3F, \h11, \h3F>>
Loop   == <<\hC6, 2, \h5A, \h26, \hFD, \h10, \h26, 0, 1, \h4D, \h25, 2, \h20, 0>>

(* The rest, on memory and on accumulators, at other addressing modes.     *)
OnBytes == <<\h8E, 0, 16, \h70, 0, 16, \h63, \h88, 1, \h04, 16, \h76, 0, 16, \h67, \h84, \h68, \h84, \h09, 16, \h0A, 16, \h0D, 16,
             \h8A, \h41, \h84, \h7F, \h85, 1, \h88, \h55, \hF8, 0, 16, \h40, \h43, \h44, \h46, \h47, \h48, \h49, \h4F>>
Addressing == <<\hCE, 0, 10, \hC6, 2, \hA6, \hC5, \h86, 1, \hE6, \hC6, \hCC, 0, 1, \hAE, \hCB, \h10, \hAE, \hC4,
             \h33, \h41, \hA6, \hC2, \hE6, \h8C, 0, \hEE, \h8D, 0, 0, \h31, \hC9, 0, 2, \h8C, 0, 5, \h10, \h8C, 0, 5,
             \h11, \h83, 0, 5, \h10, \h83, 0, 5, \hBF, 0, 18, \h10, \h9F, 20>>
Jump(at) == <<\h0E, Lo(at + 2)>>

Code(parts) == FoldLeft(LAMBDA c, p : c \o p, <<>>, parts) \o <<\h13>>

Interrupting(n, code) ==
  [cpu |-> MachineWith(Handlers \o <<Data, At(Start, code)>>), image |-> <<>>, opened |-> FALSE, interrupts |-> n,
   task |-> [kind |-> "interrupts", counter |-> 0, data |-> 31]]

Interrupted1 == Interrupting(1, Code(<<Masked, Words1, Stacks, Calls, Traps, Loop>>))
Interrupted2 == Interrupting(1, Code(<<OnBytes, Addressing, Jump(Start + Len(OnBytes) + Len(Addressing))>>))
Interrupted3 == Interrupting(2, Code(<<Masked, Stacks>>))

-----------------------------------------------------------------------------
(* x is at 0, y at 2. *)
Programs == [
  add      |-> <<\hDC, 0, \hDB, 3, \h99, 2, \h13>>,
  subtract |-> <<\hDC, 0, \hD0, 3, \h92, 2, \h13>>,
  decimal  |-> <<\h96, 1, \h9B, 3, \h19, \h13>>,
  halve    |-> <<\hDC, 0, \h47, \h56, \h13>>,
  double   |-> <<\hDC, 0, \h58, \h49, \h13>>,
  multiply |-> <<\h96, 1, \hD6, 3, \h3D, \h13>>]

Comparisons ==
  ("compare bytes" :> <<\h96, 1, \h91, 3, \h13>>) @@ ("compare words" :> <<\h9E, 0, \h9C, 2, \h13>>)
    @@ ("subtract bytes" :> <<\hD6, 1, \hD0, 3, \h13>>)

Numbers == {0, 1, 127, 128, 129, 255, 256, \h0FFF, \h7F80, \h7FFF, \h8000, \h8001, \hFF7F, \hFFFF}
Digits == {0, 1, 9, \h10, \h19, \h45, \h55, \h90, \h99}

Computing(op, code, x, y) ==
  [cpu |-> MachineWith(<<At(0, <<Hi(x), Lo(x), Hi(y), Lo(y)>>), At(Start, code)>>), image |-> <<>>, opened |-> FALSE, interrupts |-> 0,
   task |-> [kind |-> "arithmetic", op |-> op, x |-> x, y |-> y]]

Calculations ==
  {Computing(op, Programs[op], x, y) : op \in {"add", "subtract", "multiply"}, x \in Numbers, y \in Numbers}
    \union {Computing(op, Programs[op], x, 0) : op \in {"halve", "double"}, x \in Numbers}
    \union {Computing("decimal", Programs.decimal, x, y) : x \in Digits, y \in Digits}
    \union {Computing(op, Comparisons[op], x, y) : op \in DOMAIN Comparisons, x \in Numbers, y \in Numbers}

-----------------------------------------------------------------------------
(* Three sectors of two bytes, or no diskette; requests with buffers at 0  *)
(* and 2.                                                                  *)
Image == <<11, 12, 21, 22, 31, 32>>

Request(op, drive, track, sector, buffer) ==
  [op |-> op, drive |-> drive, track |-> track, sector |-> sector, buffer |-> buffer]

Requests ==
  {Request(op, 0, 0, sector, buffer) : op \in {2, 3}, sector \in 0 .. 4, buffer \in {0, 2}}
    \union {Request(2, 1, 0, 1, 0), Request(3, 0, 35, 1, 0), Request(4, 0, 0, 1, 0), Request(3, 0, 0, 19, 2)}

(* The stores of dskcon(), from U, then the status in B.                   *)
dskcon(r) ==
  <<\h86, r.drive, \hA7, \h41, \h86, r.track, \hA7, \h42, \h86, r.sector, \hA7, \h43,
    \hCC, Hi(r.buffer), Lo(r.buffer), \hED, \h44, \h86, r.op, \hA7, \hC4, \hE6, \h46>>

Asking(r1, r2, opened) ==
  [cpu |-> MachineWith(<<At(0, <<1, 2, 3, 4>>),
                         At(Start, <<\hCE, \hFF, \h04>> \o dskcon(r1) \o dskcon(r2) \o <<\h13>>)>>),
   image |-> IF opened THEN Image ELSE <<>>, opened |-> opened, interrupts |-> 0,
   task |-> [kind |-> "disk", requests |-> <<r1, r2>>, buffers |-> 0 .. 3]]

Disks ==
  {Asking(r1, r2, TRUE) : r1 \in Requests, r2 \in Requests}
    \union {Asking(Request(3, 0, 0, 1, 0), Request(2, 0, 0, 1, 2), FALSE)}

MCBoots == {Interrupted1, Interrupted2, Interrupted3} \union Calculations \union Disks
=============================================================================
