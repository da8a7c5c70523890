---------------------------- MODULE DavroskaLive ----------------------------
(***************************************************************************)
(* Progress of Davroska.  The kernel runs with interrupts disabled and so  *)
(* always takes its next step.  What an executable does is up to the       *)
(* application; the last two properties need every executable to drop the  *)
(* mutexes it has taken and to end.                                        *)
(***************************************************************************)
EXTENDS Davroska

KernelRuns == WF_vars(panic = "none" /\ Kernel)

DropsMutexes == \A e \in Exe, m \in Mutex :
                  SF_vars(panic = "none" /\ Me = e /\ DropMutex(m))
Ends         == \A e \in Task \union Isr : SF_vars(panic = "none" /\ Me = e /\ End)

\* Interrupts do not arrive for ever in the few instructions that dv_chaintask()
\* spends between enabling them and its longjmp.  (An ISR's own IRQ is enabled
\* while it runs, so a source that never stops would keep the ISR there.)
NoInterruptStorm == SF_vars(panic = "none" /\ ChainExit)

KernelSpec == Spec /\ KernelRuns /\ NoInterruptStorm
LiveSpec   == KernelSpec /\ DropsMutexes /\ Ends

\* Every kernel call, interrupt and termination comes to an end: the code of some
\* executable runs again.
KernelReturns == pc # "app" ~> pc = "app"

\* An ISR of the highest priority that has been activated starts, whatever the
\* others go on to do: raising, activating, chaining and interrupting.
HighestIsr == {i \in Isr : \A e \in Exe : BasePrio[e] <= BasePrio[i]}
TopServed  == \A i \in HighestIsr : nact[i] > 0 ~> jb[i] # 0

\* When no more activations and interrupts come, everything that has been
\* activated is run to its end and only the idle loop is left.
Quiet  == pc' # "irq" /\ \A e \in Exe : nact'[e] <= nact[e]
Drains == <>[][Quiet]_vars => <>[](\A e \in Exe \ {Idle} : nact[e] = 0)
=============================================================================
