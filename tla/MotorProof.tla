----------------------------- MODULE MotorProof -----------------------------
(***************************************************************************)
(* The range of the thruster outputs, for every even Lo, Hi and Neutral.   *)
(* The clamp of set_pwm bounds the targets, not the outputs; the outputs   *)
(* stay in range because they keep the parity of the bounds (WidthsEven).  *)
(***************************************************************************)
EXTENDS Motor, TLAPS

Inv == TypeOK /\ WidthsEven /\ NeutralBeforeInit /\ OutputMatchesCurrent

(* set_pwm stores widths of the range, whatever u_int it is given. *)
LEMMA ClampInWidth ==
  ASSUME NEW w \in Nat
  PROVE  Clamp(w) \in Width
BY WidthAssumption DEF Clamp, Width

(* One slew step keeps an even width of the range even and in the range:   *)
(* an even width above a target is at least two above Lo, one below it at  *)
(* least two below Hi.                                                     *)
LEMMA TowardInWidth ==
  ASSUME TypeOK, WidthsEven, NEW c \in Channel, current[c] # target[c]
  PROVE  Toward(c) \in Width /\ Toward(c) % 2 = 0
<1> DEFINE x == current[c]
           t == target[c]
<1>1. x \in Int /\ t \in Int /\ Lo <= x /\ x <= Hi /\ x % 2 = 0
      /\ Lo <= t /\ t <= Hi /\ x # t
  BY WidthAssumption DEF TypeOK, WidthsEven, Width
<1>2. Toward(c) = IF x > t THEN x - 2 ELSE x + 2
  BY DEF Toward, change_pwm_ceil
<1> HIDE DEF x, t
<1>3. QED
  BY <1>1, <1>2, WidthAssumption DEF Width

(* The state before main() starts t_pwm satisfies the invariant. *)
THEOREM InitInv == Init => Inv
<1> SUFFICES ASSUME Init PROVE Inv
  OBVIOUS
<1>1. Neutral \in Width /\ Neutral \in Int /\ 0 \in Int /\ Neutral % 2 = 0
  BY WidthAssumption DEF Width
<1>2. TypeOK
  BY <1>1 DEF Init, TypeOK
<1>3. WidthsEven /\ NeutralBeforeInit
  BY <1>1 DEF Init, WidthsEven, NeutralBeforeInit
<1>4. OutputMatchesCurrent
  BY Zenon DEF Init, OutputMatchesCurrent
<1> QED
  BY <1>2, <1>3, <1>4 DEF Inv

(* Every step of main, the manager and t_pwm preserves it, whatever widths *)
(* the manager asks for.                                                   *)
LEMMA StepInv ==
  ASSUME Inv,
         \/ thread_pwm \/ set_pwm_right \/ loop_change_pwm \/ UNCHANGED vars
         \/ \E l, r \in Nat : set_pwm_left(l, r)
  PROVE  Inv'
<1> USE DEF Inv
<1>1. CASE thread_pwm
  <2>1. TypeOK'
    BY <1>1, WidthAssumption DEF thread_pwm, TypeOK
  <2>2. WidthsEven' /\ NeutralBeforeInit'
    BY <1>1 DEF thread_pwm, WidthsEven, NeutralBeforeInit
  <2>3. OutputMatchesCurrent'
    BY <1>1 DEF thread_pwm, OutputMatchesCurrent, NeutralBeforeInit
  <2> QED
    BY <2>1, <2>2, <2>3
<1>2. ASSUME NEW l \in Nat, NEW r \in Nat, set_pwm_left(l, r)
      PROVE  Inv'
  <2>1. Clamp(l) \in Width /\ Clamp(r) \in Width
    BY ClampInWidth
  <2>2. TypeOK'
    BY <1>2, <2>1 DEF set_pwm_left, TypeOK, Channel
  <2>3. WidthsEven' /\ NeutralBeforeInit' /\ OutputMatchesCurrent'
    BY <1>2 DEF set_pwm_left, WidthsEven, NeutralBeforeInit, OutputMatchesCurrent
  <2> QED
    BY <2>2, <2>3
<1>3. CASE set_pwm_right
  <2>1. TypeOK'
    BY <1>3 DEF set_pwm_right, TypeOK, Channel
  <2>2. WidthsEven' /\ NeutralBeforeInit' /\ OutputMatchesCurrent'
    BY <1>3 DEF set_pwm_right, WidthsEven, NeutralBeforeInit, OutputMatchesCurrent
  <2> QED
    BY <2>1, <2>2
<1>4. CASE loop_change_pwm
  <2>1. \A c \in Moving : Toward(c) \in Width /\ Toward(c) % 2 = 0
    BY TowardInWidth DEF Moving
  <2>2. TypeOK'
    BY <1>4, <2>1, WidthAssumption DEF loop_change_pwm, TypeOK, Width
  <2>3. WidthsEven' /\ NeutralBeforeInit'
    BY <1>4, <2>1 DEF loop_change_pwm, WidthsEven, NeutralBeforeInit, TypeOK
  <2>4. OutputMatchesCurrent'
    BY <1>4 DEF loop_change_pwm, OutputMatchesCurrent
  <2> QED
    BY <2>2, <2>3, <2>4
<1>5. CASE UNCHANGED vars
  BY <1>5 DEF vars, TypeOK, WidthsEven, NeutralBeforeInit, OutputMatchesCurrent
<1> QED
  BY <1>1, <1>2, <1>3, <1>4, <1>5

(* Hence every step of Next does, whose requests are given. *)
THEOREM NextInv == Inv /\ [Next]_vars => Inv'
BY StepInv, WidthAssumption DEF Next

(* The invariant bounds the programmed width. *)
THEOREM InvInRange == Inv => OutputInRange
BY WidthAssumption DEF Inv, TypeOK, WidthsEven, OutputMatchesCurrent, OutputInRange, Width

(* Every state of motor_pwm.c is well typed, for every choice of widths.   *)
THEOREM MotorTypeCorrect == Spec => []TypeOK
<1>1. Inv => TypeOK
  BY DEF Inv
<1> QED
  BY InitInv, NextInv, <1>1, PTL DEF Spec

(* The programmed output never leaves [Lo, Hi]: no sequence of set_pwm     *)
(* calls, torn or not, drives a thruster outside the clamp.                *)
THEOREM MotorOutputInRange == Spec => []OutputInRange
BY InitInv, NextInv, InvInRange, PTL DEF Spec

(* The timer is programmed with exactly the width the software holds.      *)
THEOREM MotorOutputMatchesCurrent == Spec => []OutputMatchesCurrent
<1>1. Inv => OutputMatchesCurrent
  BY DEF Inv
<1> QED
  BY InitInv, NextInv, <1>1, PTL DEF Spec
=============================================================================
