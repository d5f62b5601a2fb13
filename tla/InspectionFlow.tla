--------------------------- MODULE InspectionFlow ---------------------------
(***************************************************************************)
(* How an operator logs in and inspects parts: the screens (TouchGFX       *)
(* views and presenters), the Model they share (Model.cpp) and the session *)
(* (domain/session.c), on top of the tables that the agent task rewrites   *)
(* meanwhile (DomainTables).                                               *)
(*                                                                         *)
(* A click handler and the screen transition it asks for are one step of   *)
(* the GUI task, except that the summary screen publishes the part when it *)
(* is shown, a step after the click that leads to it.  A defect list is    *)
(* kept as a set of ids.  The variable `owner' is about the people at the  *)
(* device; the device itself knows an operator id only.                    *)
(***************************************************************************)
EXTENDS DomainTables

CONSTANTS
  Grid,         (* DEFECT_COUNT of the two defect screens                  *)
  Texts,        (* the notes that may be typed                             *)
  NoText,       (* the empty string                                        *)
  OfflineStart, (* whether the splash screen may time out                  *)
  MaxParts,     (* bound on the parts inspected after one login            *)
  None          (* nothing published yet                                   *)

(* Each defect screen has its button "Autre". *)
ASSUME GridAssumption  == Grid \in [Category -> Nat \ {0}]
ASSUME PartsAssumption == MaxParts \in Nat \ {0}

VARIABLES
  screen,   (* the screen shown                                            *)
  selected, (* m_selected: the buttons selected on a defect screen         *)
  text,     (* m_preciserText: the note shown on a defect screen           *)
  origin,   (* m_preciserOrigin: the screen the keyboard returns to        *)
  session,  (* s_operator_id and s_product_id, 0 without a session         *)
  defects,  (* m_pmpDefects and m_injDefects                               *)
  note,     (* m_inspectionNote                                            *)
  pending,  (* m_inspectionPending                                         *)
  inspected,(* m_sessionInspected                                          *)
  sent,     (* the message given to inspection_queue_send, while the       *)
            (* summary of its part is shown                                *)
  (* What really happened, for the properties: *)
  owner,    (* the person who logged in last, leaving out a login that was *)
            (* caught between two writes (Caught); 0 before the first      *)
  typed     (* the notes confirmed with Next for the part in hand          *)

view  == <<screen, selected, text, origin>>
model == <<session, defects, note, pending, inspected, sent>>
truth == <<owner, typed>>
vars  == <<tables, view, model, truth>>

(* The last button of a grid is "Autre". *)
Autre(c)   == Grid[c]
Buttons(c) == 1 .. Grid[c]
CategoryOf(s) == IF s = "pmp" THEN "PMP" ELSE "INJ"
DefectScreen  == {"pmp", "inj"}
NoSession     == [operator |-> 0, product |-> 0]
NoDefects     == [c \in Category |-> {}]

FlowInit ==
  /\ TablesInit
  /\ screen = "splash"
  /\ selected = {}
  /\ text = NoText
  /\ origin = "none"
  /\ session = NoSession
  /\ defects = NoDefects
  /\ note = NoText
  /\ pending = FALSE
  /\ inspected = 0
  /\ sent = None
  /\ owner = 0
  /\ typed = {}

(* A screen is created anew whenever it is shown: setupScreen. *)
Show(s) ==
  /\ screen' = s
  /\ selected' = {}
  /\ text' = NoText

-----------------------------------------------------------------------------
(* splashView::handleTickEvent: the login screen is shown once both        *)
(* configurations are there, or after MAX_TICKS.                           *)
SplashEnds ==
  /\ screen = "splash"
  /\ \/ s_operator_count > 0 /\ s_product_count > 0
     \/ OfflineStart
  /\ Show("login")
  /\ UNCHANGED <<tables, origin, model, truth>>

(* loginPresenter::submitPin when the PIN matches (otherwise nothing       *)
(* changes): setCurrentOperatorIdx starts a session for product 1, unless  *)
(* the entry's id is not positive; resetSessionDefectCount ends it and     *)
(* starts it again.  The session of whoever was logged in before ends only *)
(* when the new one starts.                                                *)
SessionOfAny(i) == [operator |-> s_operators[i].id, product |-> 1]
SessionOfIndex(i) ==
  IF s_operators[i].id > 0 THEN [operator |-> i, product |-> 1] ELSE session
SessionOf(i) ==
  IF s_operators[i].id > 0
  THEN [operator |-> s_operators[i].id, product |-> 1]
  ELSE session
(* operator_list_set has wiped the id of the entry that the PIN matches,   *)
(* and is about to wipe the PIN too (the memset of operator_list.c l.33).  *)
Caught(person) == step = "wipe_pin_hash" /\ entry = CheckPin(person)
Login(person) ==
  /\ screen = "login"
  /\ CheckPin(person) # 0
  /\ session' = SessionOf(CheckPin(person))
  /\ inspected' = 0
  /\ Show("product")
  /\ owner' = IF Caught(person) THEN owner ELSE person
  /\ UNCHANGED <<tables, origin, defects, note, pending, sent, typed>>

(* loginPresenter::submitPin otherwise: the PIN is forgotten. *)
LoginRefused ==
  /\ screen = "login"
  /\ \E person \in People : CheckPin(person) = 0
  /\ UNCHANGED vars

(* A part is taken in hand: Next on the product screen, or "next part" on  *)
(* the summary.                                                            *)
TakePart ==
  /\ Show("pmp")
  /\ typed' = {}
  /\ sent' = None
  /\ UNCHANGED <<tables, origin, session, defects, note, pending, inspected, owner>>

(* productRefView::onNextClicked; the product chosen is not passed on. *)
ProductNext == screen = "product" /\ TakePart

(* onDefectClicked *)
Toggle(b) ==
  /\ screen \in DefectScreen
  /\ b \in Buttons(CategoryOf(screen))
  /\ selected' = IF b \in selected THEN selected \ {b} ELSE selected \cup {b}
  /\ UNCHANGED <<tables, screen, text, origin, model, truth>>

(* onPreciserClicked and openKeyboardForPreciser: only with "Autre"        *)
(* selected.  The defect screen is left, and its selection with it.        *)
OpenKeyboard ==
  /\ screen \in DefectScreen
  /\ Autre(CategoryOf(screen)) \in selected
  /\ origin' = screen
  /\ Show("keyboard")
  /\ UNCHANGED <<tables, model, truth>>

(* finishPreciser, then checkPendingPreciserText on the screen it returns  *)
(* to: a note that is not empty selects "Autre" again.                     *)
KeyboardDone(t) ==
  /\ screen = "keyboard"
  /\ screen' = origin
  /\ text' = t
  /\ selected' = IF t # NoText THEN {Autre(CategoryOf(origin))} ELSE {}
  /\ origin' = "none"
  /\ UNCHANGED <<tables, model, truth>>

-----------------------------------------------------------------------------
(* commitSelection: a button's defect type is looked up in the             *)
(* configuration of the moment; a button without one is dropped.           *)
IsRegular(t) == ~t.is_other
TypesOf(types, c, b) ==
  LET regular == {k \in DOMAIN types : IsRegular(types[k])}
      other   == DOMAIN types \ regular
  IN IF b = Autre(c)
     THEN {k \in other : \A j \in other : k <= j}
     ELSE {k \in regular : Cardinality({j \in regular : j < k}) = b - 1}
Resolve(types, c, buttons) ==
  {types[k].id : k \in UNION {TypesOf(types, c, b) : b \in buttons}}

(* setCategoryDefects: the two screens share one note, and an empty one    *)
(* does not replace it.                                                    *)
NoteNow     == IF Autre(CategoryOf(screen)) \in selected THEN text ELSE NoText
NewestNote  == NoteNow
CommittedNote == IF NoteNow # NoText THEN NoteNow ELSE note
Commit ==
  LET c == CategoryOf(screen) IN
  /\ defects' = [defects EXCEPT ![c] = Resolve(DefectTypes(session.product, c), c, selected)]
  /\ note' = CommittedNote
  /\ pending' = TRUE
  /\ typed' = IF NoteNow # NoText THEN typed \cup {NoteNow} ELSE typed
  /\ UNCHANGED <<tables, origin, session, inspected, sent, owner>>

(* onNextClicked of the two defect screens *)
PmpNext == screen = "pmp" /\ Commit /\ Show("inj")
InjNext == screen = "inj" /\ Commit /\ Show("summary")

(* clearInspection *)
ForgetAllButNote ==
  /\ defects' = NoDefects
  /\ note' = note
  /\ pending' = FALSE
Forget ==
  /\ defects' = NoDefects
  /\ note' = NoText
  /\ pending' = FALSE

(* getCurrentOperatorIdx and getOperator: an operator no longer listed     *)
(* becomes the dummy entry, whose id is 0.                                 *)
CurrentOperator ==
  IF session.operator > 0 /\ Listed(session.operator) THEN session.operator ELSE 0

(* publishInspection, when the summary screen is shown *)
ShowSummary ==
  /\ screen = "summary"
  /\ pending
  /\ sent' = [product  |-> session.product,
              operator |-> CurrentOperator,
              pmp      |-> defects["PMP"],
              inj      |-> defects["INJ"],
              note     |-> note]
  /\ inspected' = inspected + 1
  /\ Forget
  /\ UNCHANGED <<tables, view, session, owner, typed>>

(* The three buttons of the summary screen; none of them touches the       *)
(* session.                                                                *)
NextPiece     == screen = "summary" /\ ~pending /\ inspected < MaxParts /\ TakePart
ChangeProduct ==
  /\ screen = "summary" /\ ~pending /\ inspected < MaxParts
  /\ Show("product")
  /\ sent' = None
  /\ UNCHANGED <<tables, origin, session, defects, note, pending, inspected, truth>>
SignOut ==
  /\ screen = "summary" /\ ~pending
  /\ Show("login")
  /\ sent' = None
  /\ UNCHANGED <<tables, origin, session, defects, note, pending, inspected, truth>>

FlowNext ==
  \/ TablesNext /\ UNCHANGED <<view, model, truth>>
  \/ SplashEnds
  \/ \E person \in People : Login(person)
  \/ LoginRefused
  \/ ProductNext
  \/ \E b \in Buttons("PMP") \cup Buttons("INJ") : Toggle(b)
  \/ OpenKeyboard
  \/ \E t \in Texts \cup {NoText} : KeyboardDone(t)
  \/ PmpNext
  \/ InjNext
  \/ ShowSummary
  \/ NextPiece
  \/ ChangeProduct
  \/ SignOut

FlowSpec == FlowInit /\ [][FlowNext]_vars

-----------------------------------------------------------------------------
(* Type invariant. *)
FlowTypeOK ==
  /\ TablesTypeOK
  /\ screen \in {"splash", "login", "product", "pmp", "inj", "keyboard", "summary"}
  /\ selected \subseteq Buttons(CategoryOf(screen))
  /\ text \in Texts \cup {NoText} /\ note \in Texts \cup {NoText}
  /\ origin \in DefectScreen \cup {"none"}
  /\ session \in [operator : People, product : {1}] \cup {NoSession}
  /\ defects \in [Category -> SUBSET Nat]
  /\ pending \in BOOLEAN
  /\ inspected \in 0 .. MaxParts
  /\ owner \in People \cup {0}
  /\ typed \subseteq Texts

(* A part is pending exactly between the two defect screens and the        *)
(* summary, wherever the keyboard is opened on the way; before that, no    *)
(* defect and no note of an earlier part is left in the Model.             *)
HalfInspected ==
  /\ pending => screen \in {"inj", "summary"} \/ (screen = "keyboard" /\ origin = "inj")
  /\ screen \in {"login", "product", "pmp"} => defects = NoDefects /\ note = NoText
  /\ screen = "keyboard" <=> origin # "none"

(* A published part carries the operator who logged in, whatever happens   *)
(* to the operator list before, during and after logging in, and none only *)
(* if the list no longer names him, within the entries the table has room  *)
(* for, or is just being rewritten.  One login does not count: when the    *)
(* agent has wiped the id of the matching entry and not yet its PIN,       *)
(* session_start refuses (session.c l.29) while the screens go on, and the *)
(* parts are published for the operator before, or for none if there was   *)
(* none; never for a third one.                                            *)
Publishing == pending /\ ~pending'
Attributed ==
  [][Publishing =>
       /\ sent'.operator \in {0, owner}
       /\ step \notin OperatorSteps /\ (\E i \in 1 .. OperatorsKept(operators) : operators[i] = owner)
            => sent'.operator = owner]_vars

(* The note published with a part was typed and confirmed for this part,   *)
(* and a part for which one was confirmed is not published without.        *)
NoteOfThisPart ==
  [][Publishing => IF typed = {} THEN sent'.note = NoText ELSE sent'.note \in typed]_vars

(* An empty list means that the part passed (inspection_queue.h l.23,      *)
(* Model.hpp l.65): it is committed only if no defect is marked.           *)
EmptyMeansPassed ==
  [][\A c \in Category :
       screen = (IF c = "PMP" THEN "pmp" ELSE "inj") /\ screen' \in {"inj", "summary"}
         /\ screen' # screen /\ selected # {} => defects'[c] # {}]_vars
=============================================================================
