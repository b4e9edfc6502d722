----------------------------- MODULE BoundedStack -----------------------------
(***************************************************************************)
(* What guest code may rely on: a stack of at most Capacity frames that    *)
(* hands frames back in the reverse order of their pushes, until a push    *)
(* meets a full stack or a pop an empty one.  From then on, and once the   *)
(* guest has written SP itself, nothing is promised.  HwStack implements   *)
(* this.                                                                   *)
(***************************************************************************)
EXTENDS Integers, Sequences

CONSTANTS Capacity, FrameSet

VARIABLES frames,   \* the live frames, oldest first
          out,      \* the frame the last pop handed to its instruction
          status    \* "ok", "failed" (an error is latched) or "moved" (guest wrote SP)

vars == <<frames, out, status>>

Init == frames = << >> /\ status = "ok" /\ out \in FrameSet

Push(f) == /\ status = "ok" /\ Len(frames) < Capacity
           /\ frames' = Append(frames, f)
           /\ UNCHANGED <<out, status>>

\* DO stacks two frames; ENDDO and the end of a loop unstack two and the
\* second one is handed out last.
PushTwo(f, g) == /\ status = "ok" /\ Len(frames) + 1 < Capacity
                 /\ frames' = frames \o <<f, g>>
                 /\ UNCHANGED <<out, status>>

Pop(n) == /\ status = "ok" /\ Len(frames) >= n
          /\ out' = frames[Len(frames) - n + 1]
          /\ frames' = SubSeq(frames, 1, Len(frames) - n)
          /\ UNCHANGED status

\* A bit operation on SSH or a move to SSL rewrites the newest frame.
Rewrite(f) == /\ status = "ok" /\ frames # << >>
              /\ frames' = [frames EXCEPT ![Len(frames)] = f]
              /\ UNCHANGED <<out, status>>

\* The stack is full or empty, up to the two frames one instruction moves.
Fail == /\ status = "ok"
        /\ Len(frames) + 1 >= Capacity \/ Len(frames) <= 1
        /\ status' = "failed" /\ frames' = << >> /\ out' \in FrameSet

\* After a failure pushes and pops hand out whatever is there.
Limp == /\ status # "ok" /\ status' = status
        /\ frames' = << >> /\ out' \in FrameSet

GuestWritesSp == status' = "moved" /\ frames' = << >> /\ UNCHANGED out

Next == \/ \E f \in FrameSet : Push(f) \/ Rewrite(f)
        \/ \E f, g \in FrameSet : PushTwo(f, g)
        \/ Pop(1) \/ Pop(2) \/ Fail \/ Limp \/ GuestWritesSp

Spec == Init /\ [][Next]_vars
===============================================================================
