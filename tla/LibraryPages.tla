----------------------------- MODULE LibraryPages -----------------------------
(***************************************************************************)
(* Turning the pages of the library in src/presets.cc.  Three numbers say  *)
(* where the user is: Presets::page, which the two buttons count; the      *)
(* value of the GtkAdjustment, which the spin button displays; and the     *)
(* page whose rows library_load has put on screen.  The handlers change    *)
(* page first, and GTK calls change_value back only if its own value       *)
(* changes.                                                                *)
(*                                                                         *)
(* A value typed with a fraction shows the page of its whole part, like    *)
(* that whole value, so values are whole here.                             *)
(***************************************************************************)
EXTENDS Integers

CONSTANTS PageSize,  \* page_size, 50
          MaxSize,   \* bound: the presets of a library
          MaxPage    \* bound: how far page is counted up

\* What the theorems take the constants to be.
PagesAssumption == PageSize \in Nat \ {0} /\ MaxSize \in Nat /\ MaxPage \in Nat

VARIABLES size,   \* library_json.size ()
          upper,  \* of the adjustment
          value,  \* of the adjustment
          page,   \* Presets::page
          shown,  \* the page library_load has shown
          shrunk  \* history: a refresh has brought a smaller library

pagesVars == <<size, upper, value, page, shown, shrunk>>

PagesTypeOK ==
  /\ size \in 0..MaxSize
  /\ upper \in Nat
  /\ value \in Nat \ {0}
  /\ page \in Nat
  /\ shown \in Nat
  /\ shrunk \in BOOLEAN

\* Presets::my
PagesInit ==
  /\ size \in 0..MaxSize
  /\ upper = size \div PageSize
  /\ value = 1
  /\ page = 0
  /\ shown = 0
  /\ shrunk = FALSE

\* The largest value gtk_adjustment_set_value leaves: lower is 1, and so is the
\* page size of the adjustment.
last == IF upper > 2 THEN upper - 1 ELSE 1

clamped(v) == IF v < 1 THEN 1 ELSE IF v > last THEN last ELSE v

\* gtk_adjustment_set_value after the handler has set page to p: only a change
\* of the value calls change_value, which loads the page of the value.
setValue(p, v) ==
  /\ value' = clamped(v)
  /\ IF value' # value THEN page' = value' /\ shown' = value'
                       ELSE page' = p /\ UNCHANGED shown
  /\ UNCHANGED <<size, upper, shrunk>>

presets_next ==
  /\ page < MaxPage
  /\ setValue(page + 1, page + 1)

presets_prev ==
  LET p == IF page - 1 < 0 THEN 0 ELSE page - 1
  IN setValue(p, p)

\* A value typed into the spin button.
Typed(v) == setValue(page, v)

\* download_cb: the adjustment gets its new end and keeps its value.
download_cb(n) ==
  /\ page' = 0
  /\ size' = n
  /\ upper' = n \div PageSize
  /\ shown' = 0
  /\ shrunk' = (shrunk \/ n < size)
  /\ UNCHANGED value

PagesNext ==
  \/ presets_next
  \/ presets_prev
  \/ \E v \in 1..MaxPage : Typed(v)
  \/ \E n \in 0..MaxSize : download_cb(n)

PagesSpec == PagesInit /\ [][PagesNext]_pagesVars

-----------------------------------------------------------------------------
(* Properties *)

\* The page on screen is the one the spin button displays, except the first one
\* of a library just loaded: the buttons change the rows through the adjustment
\* only (presets.cc:118-133), whatever is pressed beyond either end.
ShownIsDisplayed == shown = value \/ shown = 0

\* What the buttons count is what is displayed, except after a start or a
\* refresh, and after presses of ">" at the last page, which take as many of "<"
\* before that one moves again (presets.cc:120 counts without a limit).
DriftsOnlyAtTheEnd ==
  \/ page = value
  \/ page = 0
  \/ page > value /\ value = last

\* A page on screen other than the first is full: the end of the library beyond
\* its last full page but one is never shown (presets.cc:34 and 234 count full
\* pages, from 1), and a page partly filled or empty only after a refresh has brought
\* a smaller library, beyond whose end the value may be.
ShownIsFull ==
  shown = 0 \/ (shown + 1) * PageSize <= size \/ shrunk
===============================================================================
