------------------------- MODULE FarEditorSet_proofs -------------------------
(***************************************************************************)
(* Proofs about FarEditorSet: for any editors, viewers, files, types and   *)
(* parameters.  A state of the set is sound when it satisfies the          *)
(* invariants; each part of the code is shown to make sound states of      *)
(* well typed ones, from what its callers guarantee.                       *)
(***************************************************************************)
EXTENDS FarEditorSet, TLAPS

States ==
  [opt : Options, ini : Options, base : Bases \cup {None}, extended : BOOLEAN,
   editors : [Editors -> Instances \cup {None}],
   viewers : [Viewers -> Watchers \cup {None}],
   user : UserValues, profile : UserValues, misused : BOOLEAN]

Hosts ==
  [open : SUBSET Editors, current : Editors \cup {None},
   shows : [Viewers -> Files \cup {None}], palette : BOOLEAN]

Dialogs ==
  {NoDialog, Config} \cup
  [kind : {"types"}, type : Types, menuid : DOMAIN Params,
   text : Values \cup {Unset}, at : Types \X ParamNames]

TypeOK == plugin \in States /\ host \in Hosts /\ dialog \in Dialogs

(* The field of the dialog holds the parameter whose text it shows.         *)
FieldShown ==
  dialog.kind = "types" => dialog.at = <<dialog.type, Params[dialog.menuid]>>

(* LiveBase and SettingsShown, of any state of the set.                     *)
Sound(s) ==
  /\ s.ini = s.opt
  /\ s.opt.enabled =>
       /\ s.base # None /\ ~s.misused
       /\ s.base = [paths |-> s.opt.paths, rgb |-> s.extended]
       /\ \A e \in Editors : s.editors[e] \in {None, Shown(s)}
  /\ \A v \in Viewers : s.viewers[v] # None =>
       s.opt.enabled /\ s.viewers[v].live /\ s.viewers[v].trueMod = s.extended

(* A viewer instance is only there while VE_READ is heard.                  *)
Fresh(s, shows) ==
  \A v \in Viewers : s.viewers[v] # None =>
    ViewersOn(s) /\ s.viewers[v].file = shows[v]

(* While the plugin is enabled, an instance is of an editor that is open:   *)
(* an id that is opened has none yet.                                       *)
Opened(s, open) ==
  s.opt.enabled => \A e \in Editors : s.editors[e] # None => e \in open

Inv ==
  /\ TypeOK /\ FieldShown /\ Sound(plugin)
  /\ Fresh(plugin, host.shows) /\ Opened(plugin, host.open)

(* What the steps that empty the set leave.                                 *)
Emptied(s) ==
  /\ s \in States /\ Sound(s) /\ s.viewers = NoViewers
  /\ s.opt.enabled => s.editors = NoEditors

-----------------------------------------------------------------------------
(* What a viewer or editor is shown with is an instance.                   *)
LEMMA ShownTyped ==
  ASSUME NEW s \in States PROVE Shown(s) \in Instances
  BY DEF States, Shown, Instances, Options

(* Dropping an editor object changes the list of editors only.             *)
LEMMA DropTyped ==
  ASSUME NEW s \in States, NEW id \in Editors
  PROVE  /\ DropCurrentEditor(s, id) \in States
         /\ DropCurrentEditor(s, id) =
              [s EXCEPT !.editors = [s.editors EXCEPT ![id] = None]]
  BY DEF States, DropCurrentEditor

(* Releasing the base leaves a state of the plugin, its editors dangling.  *)
LEMMA FreeTyped ==
  ASSUME NEW s \in States
  PROVE  FreeBase(s) \in States
  <1> DEFINE dangling(i) == IF i = None THEN None ELSE [i EXCEPT !.live = FALSE]
  <1>1. \A i \in Instances \cup {None} : dangling(i) \in Instances \cup {None}
    BY DEF Instances
  <1>2. \A i \in Watchers \cup {None} : dangling(i) \in Watchers \cup {None}
    BY DEF Watchers
  <1>3. NoUserValues \in UserValues
    BY DEF NoUserValues, UserValues
  <1>4. [e \in Editors |-> dangling(s.editors[e])] \in [Editors -> Instances \cup {None}]
    BY <1>1 DEF States
  <1>5. [v \in Viewers |-> dangling(s.viewers[v])] \in [Viewers -> Watchers \cup {None}]
    BY <1>2 DEF States
  <1>6. FreeBase(s) = [s EXCEPT !.base = None, !.user = NoUserValues,
                !.editors = [e \in Editors |-> dangling(s.editors[e])],
                !.viewers = [v \in Viewers |-> dangling(s.viewers[v])]]
    BY DEF FreeBase
  <1> HIDE DEF dangling
  <1> QED
    BY <1>3, <1>4, <1>5, <1>6 DEF States

(* Releasing the base keeps the options, the profile and what was loaded.  *)
LEMMA FreeFields ==
  ASSUME NEW s \in States
  PROVE  /\ FreeBase(s).opt = s.opt /\ FreeBase(s).ini = s.ini
         /\ FreeBase(s).base = None /\ FreeBase(s).extended = s.extended
         /\ FreeBase(s).profile = s.profile /\ FreeBase(s).misused = s.misused
         /\ s.editors = NoEditors => FreeBase(s).editors = NoEditors
         /\ s.viewers = NoViewers => FreeBase(s).viewers = NoViewers
  BY DEF FreeBase, States, NoEditors, NoViewers

(* Disabling leaves no viewer, saves that, and needs nothing of the base.   *)
LEMMA DisableSound ==
  ASSUME NEW s \in States, NEW id \in Editors, s.ini = s.opt
  PROVE  Emptied(DisableColorer(s, id))
  <1> DEFINE d == DropCurrentEditor(s, id)
             t == [d EXCEPT !.opt.enabled = FALSE, !.ini.enabled = FALSE,
                            !.viewers = NoViewers]
  <1>1. d \in States /\ d.opt = s.opt /\ d.ini = s.ini
    BY DropTyped DEF States
  <1>2. NoViewers \in [Viewers -> Watchers \cup {None}]
    BY DEF NoViewers
  <1>3. t \in States /\ t.ini = t.opt /\ ~t.opt.enabled /\ t.viewers = NoViewers
    <2> HIDE DEF d
    <2> QED
      BY <1>1, <1>2 DEF States, Options
  <1>4. DisableColorer(s, id) = FreeBase(t)
    BY DEF DisableColorer
  <1> HIDE DEF d, t
  <1>5. /\ FreeBase(t) \in States /\ FreeBase(t).opt = t.opt
        /\ FreeBase(t).ini = t.ini /\ FreeBase(t).viewers = NoViewers
    BY <1>3, FreeTyped, FreeFields
  <1> QED
    BY <1>3, <1>4, <1>5 DEF Emptied, Sound, NoViewers

(* A base loaded into an empty set is sound.                                *)
LEMMA LoadSound ==
  ASSUME NEW s \in States, s.ini = s.opt, ~s.misused,
         s.editors = NoEditors, s.viewers = NoViewers
  PROVE  Emptied(LoadBase(s))
  <1> DEFINE b == [paths |-> s.opt.paths, rgb |-> s.extended]
  <1>1. b \in Bases /\ b # None
    BY NoneAssumption DEF States, Options, Bases
  <1>2. LoadBase(s) = [s EXCEPT !.base = b, !.user = s.profile]
    BY DEF LoadBase
  <1> DEFINE t == LoadBase(s)
  <1>3. /\ t \in States /\ t.opt = s.opt /\ t.ini = s.ini /\ t.base = b
        /\ t.extended = s.extended /\ t.misused = s.misused
        /\ t.editors = NoEditors /\ t.viewers = NoViewers
    <2> HIDE DEF b
    <2> QED
      BY <1>1, <1>2 DEF States
  <1> HIDE DEF t
  <1>4. Sound(t)
    BY <1>1, <1>3 DEF Sound, NoEditors, NoViewers
  <1> QED
    BY <1>3, <1>4 DEF t, Emptied

(* Reloading is sound whatever was there before: every instance goes first. *)
LEMMA ReloadSound ==
  ASSUME NEW s \in States, NEW id \in Editors, NEW ok \in BOOLEAN,
         host \in Hosts, ~s.misused,
         s.ini.enabled \/ s.viewers = NoViewers
  PROVE  Emptied(ReloadBase(s, id, ok))
  <1> DEFINE r == ReadSettings(s)
             a == DropAllEditors(r, id)
             d == [a EXCEPT !.viewers = NoViewers,
                            !.extended = host.palette /\ r.opt.trueMod]
             f == FreeBase(d)
  <1>1. r \in States /\ r.opt = s.ini /\ r.ini = s.ini /\ r.viewers = s.viewers
          /\ r.misused = s.misused
    BY DEF ReadSettings, States
  <1>2. a \in States /\ a.opt = s.ini /\ a.ini = s.ini /\ a.editors = NoEditors
          /\ a.misused = s.misused
    <2> DEFINE c == DropCurrentEditor(r, id)
    <2>1. c \in States /\ c.opt = s.ini /\ c.ini = s.ini /\ c.misused = s.misused
      BY <1>1, DropTyped DEF States
    <2>2. NoEditors \in [Editors -> Instances \cup {None}]
      BY DEF NoEditors
    <2>3. a = [c EXCEPT !.editors = NoEditors]
      BY DEF DropAllEditors
    <2> HIDE DEF c
    <2> QED
      BY <2>1, <2>2, <2>3 DEF States
  <1>3. NoViewers \in [Viewers -> Watchers \cup {None}]
    BY DEF NoViewers
  <1>4. (host.palette /\ r.opt.trueMod) \in BOOLEAN
    OBVIOUS
  <1>5. d \in States /\ d.opt = s.ini /\ d.ini = s.ini /\ d.editors = NoEditors
          /\ d.viewers = NoViewers /\ d.misused = s.misused
    <2> HIDE DEF a, r
    <2> QED
      BY <1>2, <1>3, <1>4 DEF States
  <1>6. f \in States /\ f.opt = s.ini /\ f.ini = s.ini /\ f.editors = NoEditors
          /\ f.viewers = NoViewers /\ f.misused = s.misused
    <2> HIDE DEF d
    <2> QED
      BY <1>5, FreeTyped, FreeFields
  <1>7. CASE ~s.ini.enabled
    <2>1. ReloadBase(s, id, ok) = r
      BY <1>1, <1>7 DEF ReloadBase
    <2> HIDE DEF r
    <2> QED
      BY <1>1, <1>7, <2>1 DEF Emptied, Sound, NoViewers
  <1>8. CASE s.ini.enabled /\ ok
    <2>1. ReloadBase(s, id, ok) = LoadBase(f)
      BY <1>1, <1>8 DEF ReloadBase
    <2> HIDE DEF f
    <2> QED
      BY <1>6, <2>1, LoadSound
  <1>9. CASE s.ini.enabled /\ ~ok
    <2>1. ReloadBase(s, id, ok) = DisableColorer(f, id)
      BY <1>1, <1>9 DEF ReloadBase
    <2> HIDE DEF f
    <2> QED
      BY <1>6, <2>1, DisableSound
  <1> QED
    BY <1>7, <1>8, <1>9

(* A plugin without editors and viewers shows nothing stale.               *)
LEMMA EmptiedFresh ==
  ASSUME NEW s, Emptied(s), NEW shows, NEW open
  PROVE  Fresh(s, shows) /\ Opened(s, open)
  BY DEF Emptied, Fresh, Opened, NoViewers, NoEditors

(* A new instance, where there is none.                                     *)
LEMMA AddSound ==
  ASSUME NEW s \in States, NEW id \in Editors, NEW ok \in BOOLEAN,
         Sound(s), ~s.misused, s.opt.enabled, s.editors[id] = None
  PROVE  LET t == AddCurrentEditor(s, id, ok)
         IN  \/ Emptied(t) /\ ~t.opt.enabled
             \/ /\ t \in States /\ Sound(t) /\ t.viewers = s.viewers
                /\ t.opt = s.opt /\ t.base = s.base /\ t.editors = [s.editors EXCEPT ![id] = Shown(s)]
  <1>1. CASE s.base = None \/ ~ok
    <2>1. AddCurrentEditor(s, id, ok) = DisableColorer(s, id)
      BY <1>1 DEF AddCurrentEditor
    <2>2. Emptied(DisableColorer(s, id))
      BY DisableSound DEF Sound
    <2>3. ~DisableColorer(s, id).opt.enabled
      <3> DEFINE d == DropCurrentEditor(s, id)
                 t == [d EXCEPT !.opt.enabled = FALSE, !.ini.enabled = FALSE,
                                !.viewers = NoViewers]
      <3>0. d \in States /\ NoViewers \in [Viewers -> Watchers \cup {None}]
        BY DropTyped DEF NoViewers
      <3>1. t \in States /\ ~t.opt.enabled
        <4> HIDE DEF d
        <4> QED
          BY <3>0 DEF States, Options
      <3> HIDE DEF t
      <3>2. FreeBase(t).opt = t.opt
        BY <3>1, FreeFields
      <3> QED
        BY <3>1, <3>2 DEF DisableColorer, t, d
    <2> QED
      BY <2>1, <2>2, <2>3
  <1>2. CASE s.base # None /\ ok
    <2> DEFINE t == [s EXCEPT !.editors[id] = Shown(s)]
    <2>1. AddCurrentEditor(s, id, ok) = t
      BY <1>2 DEF AddCurrentEditor
    <2>2. /\ t \in States /\ t.opt = s.opt /\ t.ini = s.ini /\ t.base = s.base
          /\ t.extended = s.extended /\ t.misused = s.misused
          /\ t.viewers = s.viewers
          /\ t.editors = [s.editors EXCEPT ![id] = Shown(s)]
      BY ShownTyped DEF States
    <2> HIDE DEF t
    <2>3. Shown(t) = Shown(s)
      BY <2>2 DEF Shown
    <2>4. \A e \in Editors : t.editors[e] \in {None, Shown(t)}
      BY <2>2, <2>3 DEF Sound, States
    <2>5. Sound(t)
      BY <2>2, <2>4 DEF Sound
    <2> QED
      BY <2>1, <2>2, <2>5
  <1> QED
    BY <1>1, <1>2

(* Dropping an instance.                                                    *)
LEMMA DropSound ==
  ASSUME NEW s \in States, NEW id \in Editors, Sound(s)
  PROVE  LET t == DropCurrentEditor(s, id)
         IN  /\ t \in States /\ Sound(t) /\ t.viewers = s.viewers /\ t.opt = s.opt
             /\ t.base = s.base /\ t.editors = [s.editors EXCEPT ![id] = None]
  <1> DEFINE t == DropCurrentEditor(s, id)
  <1>1. /\ t \in States /\ t.opt = s.opt /\ t.ini = s.ini /\ t.base = s.base
        /\ t.extended = s.extended /\ t.misused = s.misused
        /\ t.viewers = s.viewers /\ t.editors = [s.editors EXCEPT ![id] = None]
    BY DropTyped DEF States
  <1> HIDE DEF t
  <1>2. Shown(t) = Shown(s)
    BY <1>1 DEF Shown
  <1>3. Sound(t)
    BY <1>1, <1>2 DEF Sound, States
  <1> QED
    BY <1>1, <1>3 DEF t

(* Instances get the settings they have not, and only those that dangle,    *)
(* with the plugin disabled, are misused.                                   *)
LEMMA ApplySound ==
  ASSUME NEW s \in States, s.ini = s.opt,
         s.opt.enabled =>
           /\ s.base # None
           /\ s.base = [paths |-> s.opt.paths, rgb |-> s.extended]
           /\ \A e \in Editors : s.editors[e] # None => s.editors[e].live
  PROVE  LET t == ApplySettingsToEditors(s)
         IN  /\ t \in States /\ Sound(t) /\ t.viewers = NoViewers /\ t.opt = s.opt
             /\ \A e \in Editors : t.editors[e] # None => s.editors[e] # None
  <1> DEFINE t == ApplySettingsToEditors(s)
             eds == [e \in Editors |-> Applied(s, s.editors[e])]
             bad == s.opt.cross = 2 /\ \E e \in Editors :
                       s.editors[e] # None /\ ~s.editors[e].live
  <1>1. \A i \in Instances : /\ Applied(s, i) \in Instances \cup {None}
                             /\ i.live => Applied(s, i) = Shown(s)
    <2> SUFFICES ASSUME NEW i \in Instances
                 PROVE  /\ Applied(s, i) \in Instances \cup {None}
                        /\ i.live => Applied(s, i) = Shown(s)
      OBVIOUS
    <2>1. Applied(s, i) = [i EXCEPT !.trueMod = s.extended, !.cross = s.opt.cross,
                                    !.syntax = s.opt.syntax]
      BY NoneAssumption DEF Applied
    <2> QED
      BY <2>1 DEF Instances, States, Options, Shown
  <1>2. Applied(s, None) = None
    BY DEF Applied
  <1>3. eds \in [Editors -> Instances \cup {None}]
    BY <1>1, <1>2 DEF States
  <1>4. NoViewers \in [Viewers -> Watchers \cup {None}] /\ bad \in BOOLEAN
    BY DEF NoViewers
  <1>5. t = [s EXCEPT !.viewers = NoViewers, !.editors = eds, !.misused = bad]
    BY DEF ApplySettingsToEditors
  <1>6. s.opt.enabled => ~bad /\ \A e \in Editors : eds[e] \in {None, Shown(s)}
    BY <1>1, <1>2 DEF States
  <1>7. \A e \in Editors : eds[e] # None => s.editors[e] # None
    BY <1>2
  <1> HIDE DEF eds, bad, t
  <1>8. /\ t \in States /\ t.opt = s.opt /\ t.ini = s.ini /\ t.base = s.base
        /\ t.extended = s.extended /\ t.misused = bad
        /\ t.viewers = NoViewers /\ t.editors = eds
    BY <1>3, <1>4, <1>5 DEF States
  <1>9. Shown(t) = Shown(s)
    BY <1>8 DEF Shown
  <1>10. Sound(t)
    BY <1>6, <1>8, <1>9 DEF Sound, NoViewers
  <1> QED
    BY <1>7, <1>8, <1>10 DEF t

(* OK in the settings dialog, whatever was changed.                         *)
LEMMA ConfiguredSound ==
  ASSUME NEW s \in States, NEW new \in Options, NEW id \in Editors,
         NEW ok \in BOOLEAN, host \in Hosts, Sound(s), ~s.misused
  PROVE  LET t == Configured(s, new, id, ok)
         IN  \/ Emptied(t)
             \/ /\ t \in States /\ Sound(t) /\ t.viewers = NoViewers
                /\ t.opt.enabled = s.opt.enabled
                /\ \A e \in Editors : t.editors[e] # None => s.editors[e] # None
  <1> DEFINE o == [new EXCEPT !.enabled = s.opt.enabled, !.trueMod = s.opt.trueMod]
             w == IF new.viewer # s.opt.viewer THEN NoViewers ELSE s.viewers
             drawn == [s EXCEPT !.opt = o, !.viewers = w]
             saved(on) == SaveSettings([drawn EXCEPT !.opt.enabled = on,
                                                     !.opt.trueMod = new.trueMod])
             t == Configured(s, new, id, ok)
  <1>1. o \in Options /\ o.enabled = s.opt.enabled /\ o.paths = new.paths
          /\ o.trueMod = s.opt.trueMod
    BY DEF Options, States
  <1>2. w \in [Viewers -> Watchers \cup {None}] /\ (s.viewers = NoViewers => w = NoViewers)
    BY DEF States, NoViewers
  <1>3. /\ drawn \in States /\ drawn.opt = o /\ drawn.viewers = w
        /\ drawn.base = s.base /\ drawn.extended = s.extended
        /\ drawn.editors = s.editors /\ drawn.misused = s.misused
    <2> HIDE DEF o, w
    <2> QED
      BY <1>1, <1>2 DEF States
  <1>4. ASSUME NEW on \in BOOLEAN
        PROVE  /\ saved(on) \in States /\ saved(on).ini = saved(on).opt
               /\ saved(on).opt.enabled = on /\ ~saved(on).misused
               /\ saved(on).viewers = w
    <2> DEFINE p == [drawn EXCEPT !.opt.enabled = on, !.opt.trueMod = new.trueMod]
    <2>1. /\ p \in States /\ p.opt.enabled = on /\ ~p.misused /\ p.viewers = w
      <3> HIDE DEF drawn, o, w
      <3> QED
        BY <1>1, <1>3 DEF States, Options
    <2>2. saved(on) = [p EXCEPT !.ini = p.opt]
      BY DEF SaveSettings
    <2> HIDE DEF p, saved
    <2> QED
      BY <2>1, <2>2 DEF States
  <1>5. CASE s.opt.enabled /\ ~new.enabled
    <2>1. t = DisableColorer(saved(FALSE), id)
      BY <1>5 DEF Configured
    <2> HIDE DEF saved, t
    <2> QED
      BY <1>4, <2>1, DisableSound DEF t
  <1>6. CASE ~(s.opt.enabled /\ ~new.enabled)
             /\ ((~s.opt.enabled /\ new.enabled) \/ new.paths # s.opt.paths)
    <2>1. t = ReloadBase(saved(TRUE), id, ok)
      BY <1>6 DEF Configured
    <2>2. saved(TRUE).ini.enabled
      BY <1>4
    <2> HIDE DEF saved, t
    <2> QED
      BY <1>4, <2>1, <2>2, ReloadSound DEF t
  <1>7. CASE /\ ~(s.opt.enabled /\ ~new.enabled)
             /\ ~((~s.opt.enabled /\ new.enabled) \/ new.paths # s.opt.paths)
             /\ new.trueMod # s.opt.trueMod
    <2>1. t = ReloadBase(saved(s.opt.enabled), id, ok)
      BY <1>7 DEF Configured
    <2>2. s.opt.enabled \in BOOLEAN
      BY DEF States, Options
    <2>3. ~s.opt.enabled => s.viewers = NoViewers
      BY DEF Sound, NoViewers, States
    <2>4. LET p == saved(s.opt.enabled)
          IN  /\ p \in States /\ ~p.misused
              /\ p.ini.enabled \/ p.viewers = NoViewers
      <3> HIDE DEF saved, w
      <3> QED
        BY <1>2, <1>4, <2>2, <2>3
    <2> HIDE DEF saved, t
    <2> QED
      BY <2>1, <2>4, ReloadSound DEF t
  <1>8. CASE /\ ~(s.opt.enabled /\ ~new.enabled)
             /\ ~((~s.opt.enabled /\ new.enabled) \/ new.paths # s.opt.paths)
             /\ ~(new.trueMod # s.opt.trueMod)
    <2> DEFINE p == SaveSettings(drawn)
    <2>1. t = ApplySettingsToEditors(p)
      BY <1>8 DEF Configured
    <2>2. /\ p \in States /\ p.ini = p.opt /\ p.opt = o /\ p.base = s.base
          /\ p.extended = s.extended /\ p.editors = s.editors
      <3>1. p = [drawn EXCEPT !.ini = drawn.opt]
        BY DEF SaveSettings
      <3> HIDE DEF p, drawn, o, w
      <3> QED
        BY <1>3, <3>1 DEF States
    <2>3. p.opt.enabled =>
           /\ p.base # None
           /\ p.base = [paths |-> p.opt.paths, rgb |-> p.extended]
           /\ \A e \in Editors : p.editors[e] # None => p.editors[e].live
      <3> HIDE DEF p, o
      <3>1. \A e \in Editors : s.opt.enabled /\ s.editors[e] # None => s.editors[e].live
        BY DEF Sound, Shown
      <3> QED
        BY <1>1, <1>8, <2>2, <3>1 DEF Sound
    <2> HIDE DEF p, t, o
    <2> QED
      BY <1>1, <2>1, <2>2, <2>3, ApplySound DEF t
  <1> QED
    BY <1>5, <1>6, <1>7, <1>8 DEF t

(* A new set, made of what the files hold.                                  *)
LEMMA ConstructedSound ==
  ASSUME NEW saved, saved.ini \in Options, saved.profile \in UserValues,
         NEW palette \in BOOLEAN, NEW ok \in BOOLEAN
  PROVE  Emptied(Constructed(saved, palette, ok))
  <1> DEFINE empty == [opt |-> saved.ini, ini |-> saved.ini, base |-> None,
                extended |-> palette /\ saved.ini.trueMod /\ saved.ini.enabled,
                editors |-> NoEditors, viewers |-> NoViewers, user |-> NoUserValues,
                profile |-> saved.profile, misused |-> FALSE]
             t == Constructed(saved, palette, ok)
  <1>1. /\ NoEditors \in [Editors -> Instances \cup {None}]
        /\ NoViewers \in [Viewers -> Watchers \cup {None}]
        /\ NoUserValues \in UserValues
    BY DEF NoEditors, NoViewers, NoUserValues, UserValues
  <1>2. /\ empty \in States /\ empty.opt = saved.ini /\ empty.ini = saved.ini
        /\ ~empty.misused /\ empty.editors = NoEditors /\ empty.viewers = NoViewers
    BY <1>1 DEF States
  <1>3. CASE ~saved.ini.enabled
    <2>1. t = empty
      BY <1>3 DEF Constructed
    <2> HIDE DEF empty, t
    <2>2. Emptied(t)
      BY <1>2, <1>3, <2>1 DEF Emptied, Sound, NoViewers
    <2> QED
      BY <2>2 DEF t
  <1>4. CASE saved.ini.enabled /\ ok
    <2>1. t = LoadBase(empty)
      BY <1>4 DEF Constructed
    <2> HIDE DEF empty
    <2> QED
      BY <1>2, <2>1, LoadSound
  <1>5. CASE saved.ini.enabled /\ ~ok
    <2>1. t = DisableColorer(empty, 0)
      BY <1>5 DEF Constructed
    <2>2. 0 \in Editors
      BY FarAssumption
    <2> HIDE DEF empty
    <2> QED
      BY <1>2, <2>1, <2>2, DisableSound
  <1> QED
    BY <1>3, <1>4, <1>5

-----------------------------------------------------------------------------
(* Soundness is of what points and what is set, not of the user's values.   *)
LEMMA SoundAlike ==
  ASSUME NEW s \in States, NEW t \in States, Sound(s), ~t.misused,
         t.opt = s.opt, t.ini = s.ini, t.base = s.base, t.extended = s.extended,
         t.editors = s.editors, t.viewers = s.viewers
  PROVE  Sound(t)
  <1>1. Shown(t) = Shown(s)
    BY DEF Shown
  <1> QED
    BY <1>1 DEF Sound

(* Serving an event from a sound plugin (with a reload, if one was asked   *)
(* for) leaves a sound one.                                                *)
LEMMA NowSound ==
  ASSUME plugin \in States, Sound(plugin)
  PROVE  /\ Now \in States /\ Sound(Now) /\ ~Now.misused
         /\ Now.opt = plugin.opt /\ Now.ini = plugin.ini /\ Now.base = plugin.base
         /\ Now.extended = plugin.extended /\ Now.editors = plugin.editors
         /\ Now.viewers = plugin.viewers /\ Now.user = plugin.user
         /\ Now.profile = plugin.profile
  <1>1. /\ Now \in States /\ ~Now.misused
        /\ Now.opt = plugin.opt /\ Now.ini = plugin.ini /\ Now.base = plugin.base
        /\ Now.extended = plugin.extended /\ Now.editors = plugin.editors
        /\ Now.viewers = plugin.viewers /\ Now.user = plugin.user
        /\ Now.profile = plugin.profile
    BY DEF Now, States
  <1> QED
    BY <1>1, SoundAlike

(* An instance in use points into the base.                                 *)
LEMMA UseSound ==
  ASSUME plugin \in States, Sound(plugin), plugin.opt.enabled, NEW id \in Editors
  PROVE  Use(Now, id) = Now
  <1>1. ~(Now.editors[id] # None /\ ~Now.editors[id].live)
    BY NowSound DEF Sound, Shown
  <1>2. Use(Now, id) = [Now EXCEPT !.misused = FALSE]
    BY <1>1 DEF Use
  <1> QED
    BY <1>2, NowSound DEF States

(* The editor Far names as the current one is an editor.                   *)
LEMMA CurrentIdTyped ==
  ASSUME host \in Hosts PROVE CurrentId \in Editors
  BY FarAssumption DEF Hosts, CurrentId

(* The settings dialog and no dialog are not the dialog of type            *)
(* parameters.                                                             *)
LEMMA ConfigIsDialog ==
  /\ Config \in Dialogs /\ NoDialog \in Dialogs
  /\ Config.kind # "types" /\ NoDialog.kind # "types" /\ Config # NoDialog
  BY DEF Config, NoDialog, Dialogs

(* Opening a parameter fills the field of that parameter.                  *)
LEMMA FieldTyped ==
  ASSUME NEW user \in UserValues, NEW t \in Types, NEW i \in DOMAIN Params
  PROVE  /\ Field(user, t, i) \in Dialogs
         /\ Field(user, t, i).at = <<Field(user, t, i).type, Params[Field(user, t, i).menuid]>>
  <1>1. Params[i] \in ParamNames
    BY DEF ParamNames
  <1>2. user[<<t, Params[i]>>] \in Values \cup {Unset}
    BY <1>1 DEF UserValues
  <1> QED
    BY <1>1, <1>2 DEF Field, Dialogs

(* Saving the field leaves values a user may have set.                     *)
LEMMA SaveTyped ==
  ASSUME NEW user \in UserValues, NEW d \in Dialogs, d.kind = "types"
  PROVE  SaveChangedValueParam(user, d) \in UserValues
  <1>1. d.type \in Types /\ d.menuid \in DOMAIN Params /\ d.text \in Values \cup {Unset}
    BY ConfigIsDialog DEF Dialogs
  <1> QED
    BY <1>1 DEF SaveChangedValueParam, UserValues, ParamNames

(* The first state.                                                         *)
LEMMA InitInv == Init => Inv
  <1> SUFFICES ASSUME Init PROVE Inv
    OBVIOUS
  <1>1. PICK palette \in BOOLEAN, ok \in BOOLEAN :
          /\ host = [open |-> {}, current |-> None, shows |-> NoViewers,
                     palette |-> palette]
          /\ plugin = Constructed([ini |-> Defaults, profile |-> NoUserValues],
                                  palette, ok)
    BY DEF Init
  <1>2. Defaults \in Options /\ NoUserValues \in UserValues
    BY FarAssumption DEF Defaults, Options, NoUserValues, UserValues
  <1>3. Emptied(plugin)
    BY <1>1, <1>2, ConstructedSound
  <1>4. host \in Hosts
    BY <1>1 DEF Hosts, NoViewers
  <1>5. dialog = NoDialog
    BY DEF Init
  <1> QED
    BY <1>3, <1>4, <1>5, EmptiedFresh, ConfigIsDialog
       DEF Inv, TypeOK, FieldShown, Emptied

(* Steps that empty the set, or keep what points and is set.                *)
LEMMA EmptiedStep ==
  ASSUME Emptied(plugin'), host' \in Hosts, dialog' \in Dialogs, FieldShown'
  PROVE  Inv'
  BY EmptiedFresh DEF Inv, TypeOK, Emptied

(* A step that keeps options, base, editors and viewers keeps the          *)
(* invariant.                                                              *)
LEMMA KeptStep ==
  ASSUME Inv, plugin' \in States, ~plugin'.misused,
         plugin'.opt = plugin.opt, plugin'.ini = plugin.ini,
         plugin'.base = plugin.base, plugin'.extended = plugin.extended,
         plugin'.editors = plugin.editors, plugin'.viewers = plugin.viewers,
         host' \in Hosts, host'.shows = host.shows, host.open \subseteq host'.open,
         dialog' \in Dialogs, FieldShown'
  PROVE  Inv'
  <1>1. Sound(plugin)'
    BY SoundAlike DEF Inv, TypeOK
  <1> QED
    BY <1>1 DEF Inv, TypeOK, Fresh, ViewersOn, Opened

(* Steps of editors.                                                        *)
LEMMA AddStep ==
  ASSUME Inv, NEW e \in Editors, NEW ok \in BOOLEAN,
         plugin.opt.enabled, plugin.editors[e] = None,
         plugin' = AddCurrentEditor(Now, e, ok),
         host' \in Hosts, host'.shows = host.shows,
         host.open \cup {e} \subseteq host'.open,
         dialog' \in Dialogs, FieldShown'
  PROVE  Inv'
  <1>1. Now \in States /\ Sound(Now) /\ ~Now.misused /\ Now.opt = plugin.opt
          /\ Now.base = plugin.base
          /\ Now.editors = plugin.editors /\ Now.viewers = plugin.viewers
    BY NowSound DEF Inv, TypeOK
  <1>2. \/ Emptied(plugin')
        \/ /\ plugin' \in States /\ Sound(plugin') /\ plugin'.viewers = plugin.viewers
           /\ plugin'.opt = plugin.opt /\ plugin'.base = plugin.base
           /\ plugin'.editors = [plugin.editors EXCEPT ![e] = Shown(Now)]
    BY <1>1, AddSound
  <1>3. CASE Emptied(plugin')
    BY <1>3, EmptiedStep
  <1>4. CASE /\ plugin' \in States /\ Sound(plugin') /\ plugin'.viewers = plugin.viewers
             /\ plugin'.opt = plugin.opt /\ plugin'.base = plugin.base
             /\ plugin'.editors = [plugin.editors EXCEPT ![e] = Shown(Now)]
    <2>1. Fresh(plugin, host.shows)'
      BY <1>4 DEF Inv, Fresh, ViewersOn
    <2>2. Opened(plugin, host.open)'
      BY <1>4 DEF Inv, Opened, TypeOK, States
    <2> QED
      BY <1>4, <2>1, <2>2 DEF Inv, TypeOK
  <1> QED
    BY <1>2, <1>3, <1>4

(* So does one that drops an editor object.                                *)
LEMMA DropStep ==
  ASSUME Inv, NEW e \in Editors, plugin' = DropCurrentEditor(Now, e),
         host' \in Hosts, host'.shows = host.shows,
         host.open \ {e} \subseteq host'.open,
         dialog' \in Dialogs, FieldShown'
  PROVE  Inv'
  <1>1. Now \in States /\ Sound(Now) /\ Now.opt = plugin.opt
          /\ Now.base = plugin.base /\ Now.editors = plugin.editors /\ Now.viewers = plugin.viewers
    BY NowSound DEF Inv, TypeOK
  <1>2. /\ plugin' \in States /\ Sound(plugin)' /\ plugin'.viewers = plugin.viewers
        /\ plugin'.opt = plugin.opt /\ plugin'.base = plugin.base
        /\ plugin'.editors = [plugin.editors EXCEPT ![e] = None]
    BY <1>1, DropSound
  <1>3. Fresh(plugin, host.shows)'
    BY <1>2 DEF Inv, Fresh, ViewersOn
  <1>4. Opened(plugin, host.open)'
    BY <1>2 DEF Inv, Opened, TypeOK, States
  <1> QED
    BY <1>2, <1>3, <1>4 DEF Inv, TypeOK

(* Disabled, nothing is said of the editors' instances.                     *)
LEMMA DisabledStep ==
  ASSUME Inv, ~plugin.opt.enabled, plugin' = Now,
         host' \in Hosts, host'.shows = host.shows, dialog' \in Dialogs, FieldShown'
  PROVE  Inv'
  <1>1. Now \in States /\ Sound(Now) /\ Now.opt = plugin.opt
          /\ Now.base = plugin.base /\ Now.editors = plugin.editors /\ Now.viewers = plugin.viewers
    BY NowSound DEF Inv, TypeOK
  <1>2. plugin' \in States /\ Sound(plugin)' /\ plugin'.opt = plugin.opt
          /\ plugin'.base = plugin.base /\ plugin'.viewers = plugin.viewers
    BY <1>1
  <1> QED
    BY <1>2 DEF Inv, TypeOK, Fresh, ViewersOn, Opened

(* So does one that only serves the reload that was asked for.             *)
LEMMA QuietStep ==
  ASSUME Inv, plugin' = Now, host' \in Hosts, host'.shows = host.shows,
         host.open \subseteq host'.open, dialog' \in Dialogs, FieldShown'
  PROVE  Inv'
  <1>1. /\ Now \in States /\ ~Now.misused /\ Now.opt = plugin.opt
        /\ Now.ini = plugin.ini /\ Now.base = plugin.base
        /\ Now.extended = plugin.extended /\ Now.editors = plugin.editors
        /\ Now.viewers = plugin.viewers
    BY NowSound DEF Inv, TypeOK
  <1> QED
    BY <1>1, KeptStep

(* Events of editors keep the invariant.                                   *)
LEMMA EditorSteps ==
  ASSUME Inv,
         OpenEditor \/ Focus \/ Leave \/ CloseEditor \/ UseEditor \/ RedrawFails
           \/ Palette
  PROVE  Inv'
  <1> USE DEF Free
  <1>0. host \in Hosts /\ dialog \in Dialogs /\ plugin \in States /\ Sound(plugin)
    BY DEF Inv, TypeOK
  <1>a. ASSUME UNCHANGED dialog PROVE dialog' \in Dialogs /\ FieldShown'
    BY <1>a DEF Inv, TypeOK, FieldShown
  <1>1. CASE OpenEditor
    <2>1. PICK e \in Editors \ host.open, ok \in BOOLEAN :
            /\ host' = [host EXCEPT !.open = @ \cup {e}, !.current = e]
            /\ plugin' = IF plugin.opt.enabled THEN AddCurrentEditor(Now, e, ok) ELSE Now
      BY <1>1 DEF OpenEditor
    <2>2. host' \in Hosts /\ host'.shows = host.shows /\ host'.open = host.open \cup {e}
      BY <1>0, <2>1 DEF Hosts
    <2>3. UNCHANGED dialog
      BY <1>1 DEF OpenEditor
    <2>4. CASE plugin.opt.enabled
      <3>1. plugin.editors[e] = None
        BY <2>1, <2>4 DEF Inv, Opened
      <3> QED
        BY <1>a, <2>1, <2>2, <2>3, <2>4, <3>1, AddStep
    <2>5. CASE ~plugin.opt.enabled
      BY <1>a, <2>1, <2>2, <2>3, <2>5, DisabledStep
    <2> QED
      BY <2>4, <2>5
  <1>2. CASE Focus
    <2>1. PICK e \in host.open, ok \in BOOLEAN :
            /\ host' = [host EXCEPT !.current = e]
            /\ plugin' = IF plugin.opt.enabled
                         THEN IF plugin.editors[e] # None THEN Now
                              ELSE AddCurrentEditor(Now, e, ok)
                         ELSE DropCurrentEditor(Now, e)
      BY <1>2 DEF Focus
    <2>2. /\ e \in Editors /\ host' \in Hosts /\ host'.shows = host.shows
          /\ host'.open = host.open
      BY <1>0, <2>1 DEF Hosts
    <2>3. UNCHANGED dialog
      BY <1>2 DEF Focus
    <2>4. CASE plugin.opt.enabled /\ plugin.editors[e] # None
      BY <1>a, <2>1, <2>2, <2>3, <2>4, QuietStep
    <2>5. CASE plugin.opt.enabled /\ plugin.editors[e] = None
      BY <1>a, <2>1, <2>2, <2>3, <2>5, AddStep
    <2>6. CASE ~plugin.opt.enabled
      BY <1>a, <2>1, <2>2, <2>3, <2>6, DropStep
    <2> QED
      BY <2>4, <2>5, <2>6
  <1>3. CASE Leave
    <2>1. host' \in Hosts /\ host'.shows = host.shows /\ host'.open = host.open
      BY <1>0, <1>3 DEF Leave, Hosts
    <2> QED
      BY <1>3, <1>a, <2>1, QuietStep DEF Leave
  <1>4. CASE CloseEditor
    <2>1. PICK e \in host.open :
            /\ host' = [host EXCEPT !.open = @ \ {e}, !.current = IF @ = e THEN None ELSE @]
            /\ plugin' = IF plugin.opt.enabled THEN DropCurrentEditor(Now, e) ELSE Now
      BY <1>4 DEF CloseEditor
    <2>2. /\ e \in Editors /\ host' \in Hosts /\ host'.shows = host.shows
          /\ host'.open = host.open \ {e}
      BY <1>0, <2>1 DEF Hosts
    <2>3. UNCHANGED dialog
      BY <1>4 DEF CloseEditor
    <2>4. CASE plugin.opt.enabled
      BY <1>a, <2>1, <2>2, <2>3, <2>4, DropStep
    <2>5. CASE ~plugin.opt.enabled
      BY <1>a, <2>1, <2>2, <2>3, <2>5, DisabledStep
    <2> QED
      BY <2>4, <2>5
  <1>5. CASE UseEditor
    <2>1. plugin' = Now /\ UNCHANGED <<host, dialog>>
      BY <1>0, <1>5, CurrentIdTyped, UseSound DEF UseEditor
    <2> QED
      BY <1>0, <1>a, <2>1, QuietStep
  <1>6. CASE RedrawFails
    <2>1. plugin' = DisableColorer(Now, CurrentId) /\ UNCHANGED <<host, dialog>>
      BY <1>0, <1>6, CurrentIdTyped, UseSound DEF RedrawFails
    <2>2. Emptied(plugin')
      BY <1>0, <2>1, CurrentIdTyped, NowSound, DisableSound DEF Sound
    <2> QED
      BY <1>0, <1>a, <2>1, <2>2, EmptiedStep
  <1>7. CASE Palette
    <2>1. host' \in Hosts /\ host'.shows = host.shows /\ host'.open = host.open
      BY <1>0, <1>7 DEF Palette, Hosts
    <2> QED
      BY <1>7, <1>a, <2>1, QuietStep DEF Palette
  <1> QED
    BY <1>1, <1>2, <1>3, <1>4, <1>5, <1>6, <1>7

(* Steps of viewers.                                                        *)
LEMMA ForgetStep ==
  ASSUME Inv, NEW v \in Viewers, plugin' = [Now EXCEPT !.viewers[v] = None],
         host' \in Hosts, host'.open = host.open,
         \A w \in Viewers \ {v} : host'.shows[w] = host.shows[w], UNCHANGED dialog
  PROVE  Inv'
  <1>1. /\ Now \in States /\ Sound(Now) /\ ~Now.misused /\ Now.opt = plugin.opt
        /\ Now.base = plugin.base
        /\ Now.editors = plugin.editors /\ Now.viewers = plugin.viewers
    BY NowSound DEF Inv, TypeOK
  <1>2. /\ plugin' \in States /\ plugin'.opt = Now.opt /\ plugin'.ini = Now.ini
        /\ plugin'.base = Now.base /\ plugin'.extended = Now.extended
        /\ plugin'.editors = Now.editors /\ plugin'.misused = Now.misused
        /\ plugin'.viewers = [Now.viewers EXCEPT ![v] = None]
    BY <1>1 DEF States
  <1>3. Shown(plugin') = Shown(Now)
    BY <1>2 DEF Shown
  <1>4. Sound(plugin)'
    BY <1>1, <1>2, <1>3 DEF Sound, States
  <1>5. Fresh(plugin, host.shows)'
    BY <1>1, <1>2 DEF Inv, Fresh, ViewersOn, States
  <1> QED
    BY <1>1, <1>2, <1>4, <1>5 DEF Inv, TypeOK, FieldShown, Opened

(* So do the events of the viewer,                                         *)
LEMMA ViewerSteps ==
  ASSUME Inv, ShowFile \/ RedrawViewer \/ CloseViewer
  PROVE  Inv'
  <1> USE DEF Free
  <1>0. /\ host \in Hosts /\ dialog \in Dialogs /\ plugin \in States
        /\ Sound(plugin)
        /\ Now \in States /\ Sound(Now) /\ ~Now.misused /\ Now.opt = plugin.opt
        /\ Now.base = plugin.base /\ Now.extended = plugin.extended
        /\ Now.editors = plugin.editors /\ Now.viewers = plugin.viewers
    BY NowSound DEF Inv, TypeOK
  <1>1. CASE ShowFile
    <2>1. PICK v \in Viewers, f \in Files :
            /\ host' = [host EXCEPT !.shows[v] = f]
            /\ plugin' = IF ViewersOn(plugin) THEN [Now EXCEPT !.viewers[v] = None]
                         ELSE Now
      BY <1>1 DEF ShowFile
    <2>2. /\ host' \in Hosts /\ host'.open = host.open
          /\ \A w \in Viewers \ {v} : host'.shows[w] = host.shows[w]
      BY <1>0, <2>1 DEF Hosts
    <2>3. UNCHANGED dialog
      BY <1>1 DEF ShowFile
    <2>4. CASE ViewersOn(plugin)
      BY <2>1, <2>2, <2>3, <2>4, ForgetStep
    <2>5. CASE ~ViewersOn(plugin)
      <3>1. \A w \in Viewers : plugin.viewers[w] = None
        BY <2>5 DEF Inv, Fresh
      <3> QED
        BY <1>0, <2>1, <2>2, <2>3, <2>5, <3>1
           DEF Inv, TypeOK, FieldShown, Fresh, Opened
    <2> QED
      BY <2>4, <2>5
  <1>2. CASE RedrawViewer
    <2>1. PICK v \in Viewers :
            /\ ViewersOn(plugin) /\ host.shows[v] # None
            /\ plugin' = IF plugin.viewers[v] # None
               THEN [Now EXCEPT !.misused = ~plugin.viewers[v].live]
               ELSE [Now EXCEPT !.viewers[v] = [live |-> TRUE, file |-> host.shows[v],
                                                trueMod |-> plugin.extended]]
      BY <1>2 DEF RedrawViewer
    <2>2. UNCHANGED <<host, dialog>>
      BY <1>2 DEF RedrawViewer
    <2>3. CASE plugin.viewers[v] # None
      <3>1. plugin.viewers[v].live
        BY <1>0, <2>3 DEF Sound
      <3>2. plugin' = [Now EXCEPT !.misused = FALSE]
        BY <2>1, <2>3, <3>1
      <3>3. plugin' = Now
        BY <1>0, <3>2 DEF States
      <3> QED
        BY <1>0, <2>2, <3>3, QuietStep DEF Inv, FieldShown
    <2>4. CASE plugin.viewers[v] = None
      <3> DEFINE w == [live |-> TRUE, file |-> host.shows[v], trueMod |-> plugin.extended]
      <3>1. w \in Watchers /\ w.live /\ w.file = host.shows[v]
              /\ w.trueMod = plugin.extended
        BY <1>0, <2>1 DEF Hosts, Watchers, States
      <3>2. plugin' = [Now EXCEPT !.viewers[v] = w]
        BY <2>1, <2>4
      <3> HIDE DEF w
      <3>3. /\ plugin' \in States /\ plugin'.opt = Now.opt /\ plugin'.ini = Now.ini
            /\ plugin'.base = Now.base /\ plugin'.extended = Now.extended
            /\ plugin'.editors = Now.editors /\ plugin'.misused = Now.misused
            /\ plugin'.viewers = [Now.viewers EXCEPT ![v] = w]
        BY <1>0, <3>1, <3>2 DEF States
      <3>4. Shown(plugin') = Shown(Now)
        BY <3>3 DEF Shown
      <3>5. \A x \in Viewers : plugin'.viewers[x] # None =>
              plugin'.opt.enabled /\ plugin'.viewers[x].live
                /\ plugin'.viewers[x].trueMod = plugin'.extended
        BY <1>0, <2>1, <3>1, <3>3 DEF Sound, ViewersOn, States
      <3>6. Sound(plugin)'
        BY <1>0, <3>3, <3>4, <3>5 DEF Sound
      <3>7. Fresh(plugin, host.shows)'
        BY <1>0, <2>1, <2>2, <3>1, <3>3 DEF Inv, Fresh, ViewersOn, States
      <3> QED
        BY <1>0, <2>2, <3>3, <3>6, <3>7 DEF Inv, TypeOK, FieldShown, Opened
    <2> QED
      BY <2>3, <2>4
  <1>3. CASE CloseViewer
    <2>1. PICK v \in Viewers :
            /\ host' = [host EXCEPT !.shows[v] = None]
            /\ plugin' = [Now EXCEPT !.viewers[v] = None]
      BY <1>3 DEF CloseViewer
    <2>2. /\ host' \in Hosts /\ host'.open = host.open
          /\ \A w \in Viewers \ {v} : host'.shows[w] = host.shows[w]
      BY <1>0, <2>1 DEF Hosts
    <2> QED
      BY <1>3, <2>1, <2>2, ForgetStep DEF CloseViewer
  <1> QED
    BY <1>1, <1>2, <1>3

(* Steps of the menu and of the settings dialog.                            *)
LEMMA ReadNothingNew ==
  ASSUME plugin \in States, Sound(plugin)
  PROVE  ReadSettings(Now) = Now
  <1>1. ReadSettings(Now) = [Now EXCEPT !.opt = Now.opt]
    BY NowSound DEF ReadSettings, Sound
  <1> QED
    BY <1>1, NowSound DEF States

(* the commands of the plugin menu and the settings dialog,                *)
LEMMA MenuSteps ==
  ASSUME Inv,
         MenuFails \/ MenuReload \/ ChooseType \/ MenuConfigure
           \/ PanelsConfigure \/ TestLoadBase \/ ConfigureOK \/ ConfigureCancel
  PROVE  Inv'
  <1>0. /\ host \in Hosts /\ dialog \in Dialogs /\ plugin \in States
        /\ Sound(plugin) /\ CurrentId \in Editors
        /\ Now \in States /\ Sound(Now) /\ ~Now.misused /\ Now.opt = plugin.opt
        /\ Now.ini = plugin.ini /\ Now.base = plugin.base
        /\ Now.extended = plugin.extended
        /\ Now.editors = plugin.editors /\ Now.viewers = plugin.viewers
    BY NowSound, CurrentIdTyped DEF Inv, TypeOK
  <1>a. ASSUME UNCHANGED dialog PROVE dialog' \in Dialogs /\ FieldShown'
    BY <1>a DEF Inv, TypeOK, FieldShown
  <1>b. ASSUME dialog' \in {Config, NoDialog} PROVE dialog' \in Dialogs /\ FieldShown'
    BY <1>b, ConfigIsDialog DEF FieldShown
  <1>1. CASE MenuFails
    <2>1. Emptied(DisableColorer(Now, CurrentId))
      BY <1>0, DisableSound DEF Sound
    <2> QED
      BY <1>0, <1>1, <1>a, <2>1, EmptiedStep DEF MenuFails
  <1>2. CASE MenuReload
    <2>1. PICK ok \in BOOLEAN : plugin' = ReloadBase(Now, CurrentId, ok)
      BY <1>2 DEF MenuReload
    <2>2. Now.ini.enabled
      BY <1>0, <1>2 DEF MenuReload, Sound
    <2>3. Emptied(plugin')
      BY <1>0, <2>1, <2>2, ReloadSound
    <2> QED
      BY <1>0, <1>2, <1>a, <2>3, EmptiedStep DEF MenuReload
  <1>3. CASE ChooseType
    <2>1. PICK t \in Types, v \in Values \cup {Unset} :
            LET user == IF v = Unset THEN plugin.user
                        ELSE [plugin.user EXCEPT ![<<t, Favorite>>] = v]
            IN  plugin' = [Use(Now, CurrentId) EXCEPT !.user = user, !.profile = user]
      BY <1>3 DEF ChooseType
    <2> DEFINE user == IF v = Unset THEN plugin.user
                       ELSE [plugin.user EXCEPT ![<<t, Favorite>>] = v]
    <2>2. user \in UserValues
      BY <1>0, FarAssumption DEF States, UserValues, ParamNames
    <2>3. plugin' = [Now EXCEPT !.user = user, !.profile = user]
      BY <1>0, <1>3, <2>1, UseSound DEF ChooseType
    <2> HIDE DEF user
    <2>4. /\ plugin' \in States /\ plugin'.opt = Now.opt /\ plugin'.ini = Now.ini
          /\ plugin'.base = Now.base /\ plugin'.extended = Now.extended
          /\ plugin'.editors = Now.editors /\ plugin'.misused = Now.misused
          /\ plugin'.viewers = Now.viewers
      BY <1>0, <2>2, <2>3 DEF States
    <2> QED
      BY <1>0, <1>3, <1>a, <2>4, KeptStep DEF ChooseType
  <1>4. CASE MenuConfigure
    <2>1. plugin' = Now /\ dialog' = Config /\ UNCHANGED host
      BY <1>0, <1>4, ReadNothingNew DEF MenuConfigure
    <2> QED
      BY <1>0, <1>b, <2>1, QuietStep
  <1>5. CASE PanelsConfigure
    <2>1. plugin' = Now /\ dialog' = Config /\ UNCHANGED host
      BY <1>0, <1>5, ReadNothingNew DEF PanelsConfigure
    <2> QED
      BY <1>0, <1>b, <2>1, QuietStep
  <1>6. CASE ConfigureOK
    <2>1. PICK new \in Options, ok \in BOOLEAN :
            plugin' = Configured(Now, new, CurrentId, ok)
      BY <1>6 DEF ConfigureOK
    <2>2. dialog' = NoDialog /\ UNCHANGED host
      BY <1>6 DEF ConfigureOK
    <2>3. \/ Emptied(plugin')
          \/ /\ plugin' \in States /\ Sound(plugin)' /\ plugin'.viewers = NoViewers
             /\ plugin'.opt.enabled = plugin.opt.enabled
             /\ \A e \in Editors : plugin'.editors[e] # None => plugin.editors[e] # None
      BY <1>0, <2>1, ConfiguredSound
    <2>4. CASE Emptied(plugin')
      BY <1>0, <1>b, <2>2, <2>4, EmptiedStep
    <2>5. CASE /\ plugin' \in States /\ Sound(plugin)' /\ plugin'.viewers = NoViewers
               /\ plugin'.opt.enabled = plugin.opt.enabled
               /\ \A e \in Editors : plugin'.editors[e] # None => plugin.editors[e] # None
      <3>1. Fresh(plugin, host.shows)'
        BY <2>5 DEF Fresh, NoViewers
      <3>2. Opened(plugin, host.open)'
        BY <2>2, <2>5 DEF Inv, Opened
      <3> QED
        BY <1>0, <1>b, <2>2, <2>5, <3>1, <3>2 DEF Inv, TypeOK
    <2> QED
      BY <2>3, <2>4, <2>5
  <1>7. CASE ConfigureCancel
    BY <1>0, <1>7, <1>b, QuietStep DEF ConfigureCancel
  <1>8. CASE TestLoadBase
    BY <1>0, <1>8, <1>a, QuietStep DEF TestLoadBase
  <1> QED
    BY <1>1, <1>2, <1>3, <1>4, <1>5, <1>6, <1>7, <1>8

(* Steps of the dialog of type parameters.                                  *)
LEMMA UserStep ==
  ASSUME Inv, NEW user \in UserValues, NEW profile \in UserValues,
         plugin' = [Now EXCEPT !.user = user, !.profile = profile],
         UNCHANGED host, dialog' \in Dialogs, FieldShown'
  PROVE  Inv'
  <1>1. /\ host \in Hosts /\ Now \in States /\ ~Now.misused /\ Now.opt = plugin.opt
        /\ Now.ini = plugin.ini /\ Now.base = plugin.base
        /\ Now.extended = plugin.extended
        /\ Now.editors = plugin.editors /\ Now.viewers = plugin.viewers
    BY NowSound DEF Inv, TypeOK
  <1>2. /\ plugin' \in States /\ plugin'.opt = Now.opt /\ plugin'.ini = Now.ini
        /\ plugin'.base = Now.base /\ plugin'.extended = Now.extended
        /\ plugin'.editors = Now.editors /\ plugin'.misused = Now.misused
        /\ plugin'.viewers = Now.viewers
    BY <1>1 DEF States
  <1> QED
    BY <1>1, <1>2, KeptStep

(* What the dialog picks next, and the values it leaves.                    *)
LEMMA PickEffect ==
  ASSUME TypeOK, FieldShown, dialog.kind = "types"
  PROVE  /\ dialog.type \in Types /\ dialog.menuid \in DOMAIN Params
         /\ dialog.at = <<dialog.type, Params[dialog.menuid]>>
         /\ SaveChangedValueParam(plugin.user, dialog) =
              [plugin.user EXCEPT ![dialog.at] = dialog.text]
         /\ SaveChangedValueParam(plugin.user, dialog) \in UserValues
         /\ \A t \in Types : /\ SwitchType(plugin.user, dialog, t).user = plugin.user
                             /\ SwitchType(plugin.user, dialog, t).dialog =
                                  Field(plugin.user, t, 1)
         /\ \A i \in DOMAIN Params :
              LET r == OnChangeParam(plugin.user, dialog, i)
              IN  /\ r.user \in {plugin.user, SaveChangedValueParam(plugin.user, dialog)}
                  /\ r.dialog = Field(r.user, dialog.type, i)
  <1>1. dialog \in Dialogs /\ plugin.user \in UserValues
    BY DEF TypeOK, States
  <1>2. /\ dialog \in [kind : {"types"}, type : Types, menuid : DOMAIN Params,
                       text : Values \cup {Unset}, at : Types \X ParamNames]
    BY <1>1, ConfigIsDialog DEF Dialogs
  <1>3. ASSUME NEW t \in Types
        PROVE  /\ SwitchType(plugin.user, dialog, t).user = plugin.user
               /\ SwitchType(plugin.user, dialog, t).dialog = Field(plugin.user, t, 1)
    <2> DEFINE d == [dialog EXCEPT !.menuid = 0]
    <2>1. d.menuid = 0
      BY <1>2
    <2>2. OnChangeHrc(plugin.user, d, t) =
            [user |-> plugin.user, dialog |-> Field(plugin.user, t, 1)]
      <3> HIDE DEF d
      <3> QED
        BY <2>1 DEF OnChangeHrc
    <2> QED
      BY <2>2 DEF SwitchType
  <1>4. ASSUME NEW i \in DOMAIN Params
        PROVE  LET r == OnChangeParam(plugin.user, dialog, i)
               IN  /\ r.user \in {plugin.user, SaveChangedValueParam(plugin.user, dialog)}
                   /\ r.dialog = Field(r.user, dialog.type, i)
    BY DEF OnChangeParam
  <1>5. SaveChangedValueParam(plugin.user, dialog) \in UserValues
    BY <1>1, SaveTyped
  <1>6. SaveChangedValueParam(plugin.user, dialog) =
          [plugin.user EXCEPT ![dialog.at] = dialog.text]
    BY DEF SaveChangedValueParam, FieldShown
  <1> QED
    BY <1>2, <1>3, <1>4, <1>5, <1>6 DEF FieldShown

(* the dialog of type parameters,                                          *)
LEMMA DialogSteps ==
  ASSUME Inv,
         ConfigureHrc \/ PickType \/ PickParam \/ Enter \/ OnSaveHrcParams
           \/ CancelHrc
  PROVE  Inv'
  <1>0. /\ TypeOK /\ FieldShown /\ host \in Hosts /\ plugin \in States
        /\ plugin.user \in UserValues /\ Now \in States
        /\ Now.user = plugin.user /\ Now.profile = plugin.profile
        /\ Now.profile \in UserValues
    BY NowSound DEF Inv, TypeOK, States
  <1>1. 1 \in DOMAIN Params
    BY FarAssumption
  <1>2. CASE ConfigureHrc
    <2>1. PICK t \in Types : dialog' = Field(plugin.user, t, 1)
      BY <1>2 DEF ConfigureHrc
    <2>2. dialog' \in Dialogs /\ FieldShown'
      BY <1>0, <1>1, <2>1, FieldTyped DEF FieldShown
    <2> QED
      BY <1>0, <1>2, <2>2, QuietStep DEF ConfigureHrc
  <1>3. CASE PickType
    <2>1. PICK t \in Types : Becomes(SwitchType(plugin.user, dialog, t))
      BY <1>3 DEF PickType
    <2>2. /\ plugin' = [Now EXCEPT !.user = plugin.user] /\ UNCHANGED host
          /\ dialog' = Field(plugin.user, t, 1)
      BY <1>0, <1>3, <2>1, PickEffect DEF PickType, Becomes
    <2>3. plugin' = [Now EXCEPT !.user = plugin.user, !.profile = Now.profile]
      BY <1>0, <2>2 DEF States
    <2>4. dialog' \in Dialogs /\ FieldShown'
      BY <1>0, <1>1, <2>2, FieldTyped DEF FieldShown
    <2> QED
      BY <1>0, <2>2, <2>3, <2>4, UserStep
  <1>4. CASE PickParam
    <2>1. PICK i \in DOMAIN Params : Becomes(OnChangeParam(plugin.user, dialog, i))
      BY <1>4 DEF PickParam
    <2> DEFINE r == OnChangeParam(plugin.user, dialog, i)
    <2>2. /\ r.user \in UserValues /\ r.dialog = Field(r.user, dialog.type, i)
          /\ dialog.type \in Types
      BY <1>0, <1>4, PickEffect DEF PickParam
    <2>3. /\ plugin' = [Now EXCEPT !.user = r.user] /\ UNCHANGED host
          /\ dialog' = r.dialog
      BY <2>1 DEF Becomes
    <2> HIDE DEF r
    <2>4. plugin' = [Now EXCEPT !.user = r.user, !.profile = Now.profile]
      BY <1>0, <2>3 DEF States
    <2>5. dialog' \in Dialogs /\ FieldShown'
      BY <2>2, <2>3, FieldTyped DEF FieldShown
    <2> QED
      BY <1>0, <2>2, <2>3, <2>4, <2>5, UserStep
  <1>5. CASE Enter
    <2>1. PICK v \in Values \cup {Unset} :
            dialog' = [dialog EXCEPT !.text = v,
                         !.at = <<dialog.type, Params[dialog.menuid]>>]
      BY <1>5 DEF Enter
    <2>2. dialog \in [kind : {"types"}, type : Types, menuid : DOMAIN Params,
                      text : Values \cup {Unset}, at : Types \X ParamNames]
      BY <1>0, <1>5, ConfigIsDialog DEF Enter, TypeOK, Dialogs
    <2>3. Params[dialog.menuid] \in ParamNames
      BY <2>2 DEF ParamNames
    <2>4. dialog' \in Dialogs /\ FieldShown'
      BY <2>1, <2>2, <2>3 DEF Dialogs, FieldShown
    <2> QED
      BY <1>0, <1>5, <2>4, QuietStep DEF Enter
  <1>6. CASE OnSaveHrcParams
    <2> DEFINE user == SaveChangedValueParam(plugin.user, dialog)
    <2>1. user \in UserValues
      BY <1>0, <1>6, PickEffect DEF OnSaveHrcParams
    <2>2. /\ plugin' = [Now EXCEPT !.user = user, !.profile = user] /\ UNCHANGED host
          /\ dialog' = Config
      BY <1>6 DEF OnSaveHrcParams
    <2> HIDE DEF user
    <2> QED
      BY <2>1, <2>2, ConfigIsDialog, UserStep DEF FieldShown
  <1>7. CASE CancelHrc
    <2>1. dialog' \in Dialogs /\ FieldShown'
      BY <1>7, ConfigIsDialog DEF CancelHrc, FieldShown
    <2> QED
      BY <1>0, <1>7, <2>1, QuietStep DEF CancelHrc
  <1> QED
    BY <1>2, <1>3, <1>4, <1>5, <1>6, <1>7

(* and a restart of Far.                                                   *)
LEMMA RestartStep ==
  ASSUME Inv, Restart PROVE Inv'
  <1>1. host \in Hosts /\ plugin \in States
    BY DEF Inv, TypeOK
  <1>2. PICK ok \in BOOLEAN : plugin' = Constructed(plugin, host.palette, ok)
    BY DEF Restart
  <1>3. host' \in Hosts /\ dialog' = NoDialog
    BY <1>1 DEF Restart, Hosts, NoViewers
  <1>4. Emptied(plugin')
    BY <1>1, <1>2, ConstructedSound DEF States, Hosts
  <1> QED
    BY <1>3, <1>4, ConfigIsDialog, EmptiedStep DEF FieldShown

-----------------------------------------------------------------------------
(* Every step of the plugin keeps the invariant.                           *)
LEMMA StepInv == Inv /\ [Next]_vars => Inv'
  <1> SUFFICES ASSUME Inv, [Next]_vars PROVE Inv'
    OBVIOUS
  <1>1. CASE UNCHANGED vars
    BY <1>1 DEF vars, Inv, TypeOK, FieldShown, Fresh, ViewersOn, Opened
  <1>2. CASE Next
    BY <1>2, EditorSteps, ViewerSteps, MenuSteps, DialogSteps, RestartStep DEF Next
  <1> QED
    BY <1>1, <1>2

(* The whole invariant holds in every state.                                *)
THEOREM Invariance == Spec => []Inv
  BY InitInv, StepInv, PTL DEF Spec

(* Whatever is opened, closed, disabled, reloaded or fails, an enabled      *)
(* plugin has a base and nothing that points into a deleted one.            *)
THEOREM BaseIsLive == Spec => []LiveBase
  <1>1. Inv => LiveBase
    BY DEF Inv, Sound, LiveBase, Shown
  <1> QED
    BY <1>1, Invariance, PTL

(* An enabled plugin draws by the settings that are in use and saved.       *)
THEOREM SettingsAreShown == Spec => []SettingsShown
  <1>1. Inv => SettingsShown
    BY DEF Inv, Sound, SettingsShown
  <1> QED
    BY <1>1, Invariance, PTL

(* A viewer is never coloured as the file it showed before.                 *)
THEOREM ViewersAreFresh == Spec => []ViewerFresh
  <1>1. Inv => ViewerFresh
    BY DEF Inv, Fresh, ViewerFresh
  <1> QED
    BY <1>1, Invariance, PTL

(* A value goes to the parameter it was entered for.                        *)
THEOREM EditsAreOwn == Spec => NoStrayEdits
  <1>1. Inv /\ [Next]_vars =>
          [dialog.kind = "types" /\ dialog' # NoDialog =>
             \A tp \in Types \X ParamNames :
               plugin'.user[tp] # plugin.user[tp] =>
                 tp = dialog.at /\ plugin'.user[tp] = dialog.text]_vars
    <2> SUFFICES ASSUME Inv, Next, dialog.kind = "types", dialog' # NoDialog,
                        NEW tp \in Types \X ParamNames,
                        plugin'.user[tp] # plugin.user[tp]
                 PROVE  tp = dialog.at /\ plugin'.user[tp] = dialog.text
      OBVIOUS
    <2> DEFINE saved == SaveChangedValueParam(plugin.user, dialog)
    <2>1. /\ TypeOK /\ FieldShown /\ plugin.user \in UserValues
          /\ Now \in States /\ Now.user = plugin.user
      BY NowSound DEF Inv, TypeOK, States
    <2>2. PickType \/ PickParam \/ Enter \/ OnSaveHrcParams \/ CancelHrc
      BY ConfigIsDialog
         DEF Next, OpenEditor, Focus, Leave, CloseEditor, UseEditor, RedrawFails,
             Palette, ShowFile, RedrawViewer, CloseViewer, Free, Restart, InMenu,
             MenuFails, MenuReload, ChooseType, MenuConfigure, PanelsConfigure,
             TestLoadBase, ConfigureOK, ConfigureCancel, ConfigureHrc
    <2>3. plugin'.user \in {plugin.user, saved}
      <3>1. CASE PickType
        BY <2>1, <3>1, PickEffect DEF PickType, Becomes, States
      <3>2. CASE PickParam
        BY <2>1, <3>2, PickEffect DEF PickParam, Becomes, States
      <3>3. CASE Enter
        BY <2>1, <3>3 DEF Enter
      <3>4. CASE OnSaveHrcParams
        BY <2>1, <3>4 DEF OnSaveHrcParams, States
      <3>5. CASE CancelHrc
        BY <2>1, <3>5 DEF CancelHrc
      <3> QED
        BY <2>2, <3>1, <3>2, <3>3, <3>4, <3>5
    <2>4. saved = [plugin.user EXCEPT ![dialog.at] = dialog.text]
      BY <2>1, PickEffect
    <2> HIDE DEF saved
    <2>5. plugin'.user = [plugin.user EXCEPT ![dialog.at] = dialog.text]
      BY <2>3, <2>4
    <2> QED
      BY <2>1, <2>5 DEF UserValues
  <1> QED
    BY <1>1, Invariance, PTL DEF Spec, NoStrayEdits
=============================================================================
