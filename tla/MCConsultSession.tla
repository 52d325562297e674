------------------------- MODULE MCConsultSession -------------------------
(* A small instance of ConsultSession for TLC.                             *)
EXTENDS ConsultSession

Form(income, debt, grade, amount) ==
    [income |-> income, debt |-> debt, grade |-> grade, amount |-> amount]

(* Two complete forms that differ in an amount.                            *)
MCForms == {EmptyForm, Form(3, 0, 3, 5), Form(3, 2, 3, 5)}

(* A text that names no debt, and one whose debt the parser cannot read.   *)
MCTexts == {Form(3, 2, 3, 5), Form(3, Unread, 3, 5)}

=============================================================================
