----------------------------- MODULE LevelTriggered -----------------------------
(***************************************************************************)
(* What the operator promises for a Cell, without caches, requests, gates  *)
(* or queues: it observes what is wanted, makes objects fit it one at a    *)
(* time, and rests only when everything the pass was to make does fit.     *)
(* It may give a pass up, or work for what is no longer wanted, but then   *)
(* another pass is due.                                                    *)
(***************************************************************************)
EXTENDS TLAPS

CONSTANTS
  Objects,  \* child objects
  Configs,  \* what may be wanted
  Needs     \* [Configs -> objects every pass makes fit]

VARIABLES
  wanted,   \* {c}: the Cell's spec; {} once it is deleted
  fit,      \* for every object, what it is as wanted for
  working,  \* {c}: what the running pass has observed; {} between passes
  due       \* another pass will come

lvars == <<wanted, fit, working, due>>

Singles == {{c} : c \in Configs}

Init ==
  /\ wanted \in Singles /\ fit \in [Objects -> SUBSET Configs]
  /\ working = {} /\ due = TRUE

\* A pass begins.  What it observes may be outdated, if another pass will follow.
Observe ==
  /\ working = {} /\ due
  /\ working' \in Singles /\ due' \in BOOLEAN
  /\ due' \/ working' = wanted
  /\ UNCHANGED <<wanted, fit>>

\* Object o is made to fit what the pass works for; nothing else is touched.
Make(o) == \E s \in SUBSET Configs : working \subseteq s /\ fit' = [fit EXCEPT ![o] = s]

Act ==
  /\ working # {}
  /\ \E o \in Objects : Make(o)
  /\ UNCHANGED <<wanted, working, due>>

\* The pass fails, perhaps with its last write carried out.
GiveUp ==
  /\ working' = {} /\ due' = TRUE
  /\ UNCHANGED fit \/ (working # {} /\ \E o \in Objects : Make(o))
  /\ UNCHANGED wanted

\* The pass ends, with everything it is for made; it may ask for another one.
Rest ==
  /\ working # {}
  /\ \A c \in working : \A o \in Needs[c] : c \in fit[o]
  /\ working' = {} /\ due' \in BOOLEAN /\ (due => due')
  /\ UNCHANGED <<wanted, fit>>

\* A resync.
Wake == due' = TRUE /\ UNCHANGED <<wanted, fit, working>>

\* The user edits or deletes the Cell.
Change ==
  /\ wanted # {}
  /\ wanted' \in Singles \cup {{}} /\ due' = TRUE
  /\ UNCHANGED <<fit, working>>

\* Nothing is promised to a deleted Cell.
Forget ==
  /\ wanted = {} /\ working' = {} /\ due' \in BOOLEAN
  /\ UNCHANGED <<wanted, fit>>

Next == Observe \/ Act \/ GiveUp \/ Rest \/ Wake \/ Change \/ Forget

Spec == Init /\ [][Next]_lvars
-----------------------------------------------------------------------------
\* At rest, what is wanted is what there is.
RestsFitting ==
  working = {} /\ ~due => \A c \in wanted : \A o \in Needs[c] : c \in fit[o]
-----------------------------------------------------------------------------
(* What the promise is worth *)

\* A pass works for what is wanted, or another one will follow.
WorksForWanted == due \/ wanted = {} \/ working = {} \/ working = wanted

LInv == RestsFitting /\ WorksForWanted

\* A level-triggered controller rests only with every object its passes make as it
\* is wanted, however often what is wanted changes, and passes are given up.
THEOREM RestsOnlyFitting == Spec => []RestsFitting
<1>1. Init => LInv
  BY DEF Init, LInv, RestsFitting, WorksForWanted
<1>2. LInv /\ [Next]_lvars => LInv'
  <2> SUFFICES ASSUME LInv, [Next]_lvars
               PROVE  LInv'
    OBVIOUS
  <2> USE DEF LInv, RestsFitting, WorksForWanted
  <2>1. CASE Observe
    <3>1. working' # {}
      BY <2>1 DEF Observe, Singles
    <3> QED
      BY <2>1, <3>1 DEF Observe
  <2>2. CASE Act
    BY <2>2 DEF Act
  <2>3. CASE GiveUp \/ Wake \/ Change \/ Forget
    BY <2>3 DEF GiveUp, Wake, Change, Forget
  <2>4. CASE Rest
    BY <2>4 DEF Rest
  <2>5. CASE UNCHANGED lvars
    BY <2>5 DEF lvars
  <2> QED
    BY <2>1, <2>2, <2>3, <2>4, <2>5 DEF Next
<1> QED
  BY <1>1, <1>2, PTL DEF Spec, LInv
=============================================================================
