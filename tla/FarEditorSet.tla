---------------------------- MODULE FarEditorSet ----------------------------
(***************************************************************************)
(* The plugin's set of editors: FarEditorSet owns the loaded base (parser  *)
(* factory and region mapper) and an instance for every editor and viewer  *)
(* it colours.  Instances point into the base; settings and user values of *)
(* type parameters live in memory and in two files.  Every handler runs to *)
(* its end on the host's thread; dialogs are modal, but the editing of     *)
(* type parameters takes several events.                                   *)
(*                                                                         *)
(* The host sends EE_READ once for an editor, when it opens it; nobody     *)
(* else writes the settings file; and no redraw fails under a dialog.      *)
(***************************************************************************)
EXTENDS Naturals, Sequences, FiniteSets

CONSTANTS
  None,
  Editors,   \* editor ids of the host; 0 is one
  Viewers, Quick, \* viewer ids; those that are quick views
  Files,     \* files a viewer shows
  Paths, DefaultPaths, \* values of the paths and colour scheme names
  Types,     \* file types of the base
  Params,    \* the parameters of the types, in the order of the list
  Favorite,  \* the one the type menu sets
  Values,    \* values a user gives to a parameter
  Unset,     \* no user value, shown as <default-...>
  Modes,     \* bound: modes of viewer colouring the user picks
  MaxSet     \* bound: parameters that have a user value

ASSUME FarAssumption ==
  /\ 0 \in Editors /\ Quick \subseteq Viewers /\ DefaultPaths \in Paths
  /\ Params \in Seq({Params[i] : i \in DOMAIN Params}) /\ Len(Params) > 0
  /\ Modes \subseteq {"off", "quick", "all"} /\ "quick" \in Modes /\ MaxSet \in Nat
  /\ Favorite \in {Params[i] : i \in DOMAIN Params}
  /\ Unset \notin Values /\ None \notin Files

\* What a FarEditor and a FarViewer keep of what they were made from, and what
\* a base was loaded for; live: the base it points into is not deleted.
Instances == [live : BOOLEAN, cross : {1, 2}, syntax : BOOLEAN, trueMod : BOOLEAN]
Watchers == [live : BOOLEAN, file : Files, trueMod : BOOLEAN]
Bases == [paths : Paths, rgb : BOOLEAN]

ASSUME NoneAssumption ==
  None \notin Instances /\ None \notin Watchers /\ None \notin Bases

VARIABLES
  plugin,  \* FarEditorSet, the settings file and the user profile
  host,    \* what far2l shows
  dialog   \* the dialog on the screen

vars == <<plugin, host, dialog>>

ParamNames == {Params[i] : i \in DOMAIN Params}
UserValues == [Types \X ParamNames -> Values \cup {Unset}]
NoUserValues == [tp \in Types \X ParamNames |-> Unset]
MayEnter(user, v) ==
  v # Unset => Cardinality({tp \in Types \X ParamNames : user[tp] # Unset}) < MaxSet
NoEditors == [e \in Editors |-> None]
NoViewers == [v \in Viewers |-> None]

(* drawCross: 1 is always, 2 is as the type says. *)
Options == [enabled : BOOLEAN, paths : Paths, cross : {1, 2}, syntax : BOOLEAN,
            viewer : Modes, trueMod : BOOLEAN]

NoDialog == [kind |-> "none"]
Config == [kind |-> "config"]

\* The id getCurrentEditor looks up: ECTL_GETINFO leaves 0 when there is none.
CurrentId == IF host.current = None THEN 0 ELSE host.current

\* The state a handler starts from: nothing freed was used yet.
Now == [plugin EXCEPT !.misused = FALSE]

-----------------------------------------------------------------------------
(* Parts of FarEditorSet, as functions of its state s. *)

DropCurrentEditor(s, id) == [s EXCEPT !.editors[id] = None]

\* Mutant: the other editors' instances are kept.
DropOneEditor(s, id) == DropCurrentEditor(s, id)

DropAllEditors(s, id) == [DropCurrentEditor(s, id) EXCEPT !.editors = NoEditors]

\* The parser factory and the mapper are deleted: what points there dangles.
FreeBase(s) ==
  LET dangling(i) == IF i = None THEN None ELSE [i EXCEPT !.live = FALSE]
  IN  [s EXCEPT !.base = None, !.user = NoUserValues,
                !.editors = [e \in Editors |-> dangling(s.editors[e])],
                !.viewers = [v \in Viewers |-> dangling(s.viewers[v])]]

DisableColorer(s, id) ==
  FreeBase([DropCurrentEditor(s, id) EXCEPT
              !.opt.enabled = FALSE, !.ini.enabled = FALSE, !.viewers = NoViewers])

ReadSettings(s) == [s EXCEPT !.opt = s.ini]

SaveSettings(s) == [s EXCEPT !.ini = s.opt]

\* The new base has the types' parameters as system files and the profile say.
LoadBase(s) ==
  [s EXCEPT !.base = [paths |-> s.opt.paths, rgb |-> s.extended], !.user = s.profile]

ReloadBase(s, id, ok) ==
  LET r == ReadSettings(s)
      dropped == [DropAllEditors(r, id) EXCEPT
                    !.viewers = NoViewers,
                    !.extended = host.palette /\ r.opt.trueMod]
  IN  IF ~r.opt.enabled THEN r
      ELSE IF ok THEN LoadBase(FreeBase(dropped))
      ELSE DisableColorer(FreeBase(dropped), id)

Shown(s) == [live |-> TRUE, cross |-> s.opt.cross, syntax |-> s.opt.syntax,
             trueMod |-> s.extended]

\* emplace keeps an instance that is there and deletes the new one, which is
\* then used.
AddCurrentEditor(s, id, ok) ==
  IF s.base = None \/ ~ok THEN DisableColorer(s, id)
  ELSE IF s.editors[id] # None THEN [s EXCEPT !.misused = TRUE]
  ELSE [s EXCEPT !.editors[id] = Shown(s)]

\* Any work an editor's instance does reads the base.
Use(s, id) ==
  [s EXCEPT !.misused = s.editors[id] # None /\ ~s.editors[id].live]

\* Mutant: drawSyntax is not passed on.
AppliedInPart(s, i) ==
  IF i = None THEN None ELSE [i EXCEPT !.trueMod = s.extended, !.cross = s.opt.cross]

\* setDrawCross(2) asks the type for its cross.
Applied(s, i) ==
  IF i = None THEN None
  ELSE [i EXCEPT !.trueMod = s.extended, !.cross = s.opt.cross, !.syntax = s.opt.syntax]

\* Mutant: the viewers' instances are kept.
ApplyToEditorsOnly(s) ==
  [s EXCEPT !.editors = [e \in Editors |-> Applied(s, s.editors[e])]]

ApplySettingsToEditors(s) ==
  [s EXCEPT !.viewers = NoViewers,
            !.editors = [e \in Editors |-> Applied(s, s.editors[e])],
            !.misused = s.opt.cross = 2 /\ \E e \in Editors :
                          s.editors[e] # None /\ ~s.editors[e].live]

\* OK in the settings dialog: `new' is what it shows.
Configured(s, new, id, ok) ==
  LET reload == new.paths # s.opt.paths
      drawn == [s EXCEPT !.opt = [new EXCEPT !.enabled = s.opt.enabled,
                                             !.trueMod = s.opt.trueMod],
                         !.viewers = IF new.viewer # s.opt.viewer THEN NoViewers ELSE @]
      saved(on) == SaveSettings([drawn EXCEPT !.opt.enabled = on,
                                              !.opt.trueMod = new.trueMod])
  IN  IF s.opt.enabled /\ ~new.enabled THEN DisableColorer(saved(FALSE), id)
      ELSE IF (~s.opt.enabled /\ new.enabled) \/ reload
           THEN ReloadBase(saved(TRUE), id, ok)
      ELSE IF new.trueMod # s.opt.trueMod
           THEN ReloadBase(saved(s.opt.enabled), id, ok)
      ELSE ApplySettingsToEditors(SaveSettings(drawn))

\* The constructor; saved is what the two files hold.
Constructed(saved, palette, ok) ==
  LET empty == [opt |-> saved.ini, ini |-> saved.ini, base |-> None,
                extended |-> palette /\ saved.ini.trueMod /\ saved.ini.enabled,
                editors |-> NoEditors, viewers |-> NoViewers, user |-> NoUserValues,
                profile |-> saved.profile, misused |-> FALSE]
  IN  IF ~saved.ini.enabled THEN empty
      ELSE IF ok THEN LoadBase(empty) ELSE DisableColorer(empty, 0)

-----------------------------------------------------------------------------
(* Editors: the host's actions with the events they send. *)

Free == dialog = NoDialog /\ UNCHANGED dialog

\* EE_READ
OpenEditor == Free /\ \E e \in Editors \ host.open, ok \in BOOLEAN :
  /\ host' = [host EXCEPT !.open = @ \cup {e}, !.current = e]
  /\ plugin' = IF plugin.opt.enabled THEN AddCurrentEditor(Now, e, ok) ELSE Now

\* EE_GOTFOCUS
Focus == Free /\ \E e \in host.open, ok \in BOOLEAN :
  /\ host' = [host EXCEPT !.current = e]
  /\ plugin' = IF plugin.opt.enabled
               THEN IF plugin.editors[e] # None THEN Now
                    ELSE AddCurrentEditor(Now, e, ok)
               ELSE DropCurrentEditor(Now, e)

\* The panels, or another window, come to the front.
Leave == Free /\ host' = [host EXCEPT !.current = None] /\ plugin' = Now

\* EE_CLOSE
CloseEditor == Free /\ \E e \in host.open :
  /\ host' = [host EXCEPT !.open = @ \ {e}, !.current = IF @ = e THEN None ELSE @]
  /\ plugin' = IF plugin.opt.enabled THEN DropCurrentEditor(Now, e) ELSE Now

\* EE_REDRAW, keys, the background parse, commands of the menu
UseEditor == /\ Free /\ plugin.opt.enabled /\ plugin.editors[CurrentId] # None
             /\ plugin' = Use(Now, CurrentId) /\ UNCHANGED host

RedrawFails == /\ Free /\ plugin.opt.enabled
               /\ host.current # None /\ plugin.editors[host.current] # None
               /\ plugin' = DisableColorer(Use(Now, CurrentId), CurrentId)
               /\ UNCHANGED host

\* Far exits and starts again: memory is lost, the files stay.
Restart == \E ok \in BOOLEAN :
  /\ host' = [host EXCEPT !.open = {}, !.current = None, !.shows = NoViewers]
  /\ dialog' = NoDialog
  /\ plugin' = Constructed(plugin, host.palette, ok)

\* The terminal gains or loses its palette.
Palette == Free /\ host' = [host EXCEPT !.palette = ~@] /\ plugin' = Now

-----------------------------------------------------------------------------
(* Viewers *)

ViewersOn(s) == s.opt.enabled /\ s.opt.syntax /\ s.opt.viewer # "off" /\ s.base # None

\* VE_READ
ShowFile == Free /\ \E v \in Viewers, f \in Files :
  /\ host' = [host EXCEPT !.shows[v] = f]
  /\ plugin' = IF ViewersOn(plugin) THEN [Now EXCEPT !.viewers[v] = None] ELSE Now

\* VE_REDRAW
RedrawViewer == Free /\ \E v \in Viewers :
  /\ ViewersOn(plugin) /\ host.shows[v] # None
  /\ plugin.opt.viewer = "quick" => v \in Quick
  /\ plugin' = IF plugin.viewers[v] # None
               THEN [Now EXCEPT !.misused = ~plugin.viewers[v].live]
               ELSE [Now EXCEPT !.viewers[v] = [live |-> TRUE, file |-> host.shows[v],
                                                trueMod |-> plugin.extended]]
  /\ UNCHANGED host

\* VE_CLOSE
CloseViewer == Free /\ \E v \in Viewers :
  /\ host.shows[v] # None
  /\ host' = [host EXCEPT !.shows[v] = None]
  /\ plugin' = [Now EXCEPT !.viewers[v] = None]

-----------------------------------------------------------------------------
(* The menu of the editor and the settings dialog *)

InMenu == dialog = NoDialog /\ host.current # None

\* Without an instance of the current editor the menu disables the plugin.
MenuFails == /\ InMenu /\ plugin.opt.enabled /\ plugin.editors[host.current] = None
             /\ plugin' = DisableColorer(Now, CurrentId) /\ UNCHANGED <<host, dialog>>

MenuReload == InMenu /\ \E ok \in BOOLEAN :
  /\ plugin.opt.enabled /\ plugin.editors[host.current] # None
  /\ plugin' = ReloadBase(Now, CurrentId, ok)
  /\ UNCHANGED <<host, dialog>>

\* The list of types: hotkeys and favourites are set on the way to a choice.
ChooseType == InMenu /\ \E t \in Types, v \in Values \cup {Unset} :
  /\ plugin.opt.enabled /\ plugin.editors[host.current] # None
  /\ MayEnter(plugin.user, v)
  /\ LET user == IF v = Unset THEN plugin.user
                 ELSE [plugin.user EXCEPT ![<<t, Favorite>>] = v]
     IN  plugin' = [Use(Now, CurrentId) EXCEPT !.user = user, !.profile = user]
  /\ UNCHANGED <<host, dialog>>

MenuConfigure ==
  /\ InMenu
  /\ plugin.opt.enabled => plugin.editors[host.current] # None
  /\ dialog' = Config
  /\ plugin' = IF plugin.opt.enabled THEN Now ELSE ReadSettings(Now)
  /\ UNCHANGED host

PanelsConfigure == /\ dialog = NoDialog /\ dialog' = Config
                   /\ plugin' = ReadSettings(Now) /\ UNCHANGED host

\* A base of its own is loaded, with all its types when the user asks for the
\* test, and deleted again; OK is refused when that fails.
TestLoadBase == /\ dialog = Config /\ UNCHANGED <<host, dialog>>
                /\ plugin' = Now

\* The load that follows a successful trial may still fail.
ConfigureOK == dialog = Config /\ \E new \in Options, ok \in BOOLEAN :
  /\ plugin' = Configured(Now, new, CurrentId, ok)
  /\ dialog' = NoDialog /\ UNCHANGED host

ConfigureCancel == /\ dialog = Config /\ dialog' = NoDialog
                   /\ plugin' = Now /\ UNCHANGED host

-----------------------------------------------------------------------------
(* The dialog of type parameters.  menuid is the parameter in the field, 0   *)
(* for the -1 of the code; at says where the text in the field belongs.      *)

Field(user, t, i) == [kind |-> "types", type |-> t, menuid |-> i,
                      text |-> user[<<t, Params[i]>>], at |-> <<t, Params[i]>>]

SaveChangedValueParam(user, d) == [user EXCEPT ![<<d.type, Params[d.menuid]>>] = d.text]

\* The first parameter of type t is shown; the field is saved first only if
\* menuid was not reset.
OnChangeHrc(user, d, t) ==
  LET there == [d EXCEPT !.type = t]
      kept == IF d.menuid = 0 THEN user ELSE SaveChangedValueParam(user, there)
  IN  [user |-> kept, dialog |-> Field(kept, t, 1)]

OnChangeParam(user, d, i) ==
  LET kept == IF i # d.menuid /\ d.menuid # 0 THEN SaveChangedValueParam(user, d) ELSE user
  IN  [user |-> kept, dialog |-> Field(kept, d.type, i)]

\* Mutant: menuid is not reset.
SwitchKept(user, d, t) == OnChangeHrc(user, d, t)

\* DN_EDITCHANGE of the list of types
SwitchType(user, d, t) == OnChangeHrc(user, [d EXCEPT !.menuid = 0], t)

Becomes(r) == /\ plugin' = [Now EXCEPT !.user = r.user]
              /\ dialog' = r.dialog /\ UNCHANGED host

ConfigureHrc == /\ dialog = Config /\ plugin.opt.enabled
                /\ \E t \in Types : dialog' = Field(plugin.user, t, 1)
                /\ plugin' = Now /\ UNCHANGED host

PickType == dialog.kind = "types" /\ \E t \in Types :
  t # dialog.type /\ Becomes(SwitchType(plugin.user, dialog, t))

PickParam == dialog.kind = "types" /\ \E i \in DOMAIN Params :
  Becomes(OnChangeParam(plugin.user, dialog, i))

Enter == dialog.kind = "types" /\ \E v \in Values \cup {Unset} :
  /\ MayEnter(plugin.user, v)
  /\ dialog' = [dialog EXCEPT !.text = v,
                              !.at = <<dialog.type, Params[dialog.menuid]>>]
  /\ plugin' = Now /\ UNCHANGED host

OnSaveHrcParams ==
  /\ dialog.kind = "types" /\ dialog' = Config
  /\ plugin' = LET user == SaveChangedValueParam(plugin.user, dialog)
               IN  [Now EXCEPT !.user = user, !.profile = user]
  /\ UNCHANGED host

\* What was saved on the way to another parameter stays.
CancelHrc == /\ dialog.kind = "types" /\ dialog' = Config
             /\ plugin' = Now /\ UNCHANGED host

-----------------------------------------------------------------------------
\* SetDefaultSettings writes this when there is no settings file.
Defaults == [enabled |-> TRUE, paths |-> DefaultPaths, cross |-> 2, syntax |-> TRUE,
             viewer |-> "quick", trueMod |-> TRUE]

Init ==
  /\ dialog = NoDialog
  /\ \E palette, ok \in BOOLEAN :
       /\ host = [open |-> {}, current |-> None, shows |-> NoViewers, palette |-> palette]
       /\ plugin = Constructed([ini |-> Defaults, profile |-> NoUserValues], palette, ok)

Next ==
  \/ OpenEditor \/ Focus \/ Leave \/ CloseEditor \/ UseEditor \/ RedrawFails
  \/ Restart \/ Palette
  \/ ShowFile \/ RedrawViewer \/ CloseViewer
  \/ MenuFails \/ MenuReload \/ ChooseType \/ MenuConfigure \/ PanelsConfigure
  \/ TestLoadBase \/ ConfigureOK \/ ConfigureCancel
  \/ ConfigureHrc \/ PickType \/ PickParam \/ Enter \/ OnSaveHrcParams \/ CancelHrc

(* Properties *)

\* What the plugin uses is never freed: while it is enabled there is a base,
\* every instance points into it and no handler used an older one; while it
\* is disabled no viewer instance is left.  (Disabled, instances of editors
\* other than the current one are left and dangle.)
LiveBase ==
  /\ plugin.opt.enabled =>
       /\ plugin.base # None /\ ~plugin.misused
       /\ \A e \in Editors : plugin.editors[e] # None => plugin.editors[e].live
  /\ \A v \in Viewers : plugin.viewers[v] # None =>
       plugin.opt.enabled /\ plugin.viewers[v].live

\* While the plugin is enabled the base is the configured one and every
\* instance draws by the settings in use, whatever failed or changed before;
\* and a restart reads the settings in use.
SettingsShown ==
  /\ plugin.ini = plugin.opt
  /\ plugin.opt.enabled =>
       /\ plugin.base = [paths |-> plugin.opt.paths, rgb |-> plugin.extended]
       /\ \A e \in Editors : plugin.editors[e] \in {None, Shown(plugin)}
       /\ \A v \in Viewers : plugin.viewers[v] # None =>
            plugin.viewers[v].trueMod = plugin.extended

\* A viewer instance has the file type of the file its viewer shows, though
\* VE_READ is ignored while viewers are not coloured.
ViewerFresh ==
  \A v \in Viewers : plugin.viewers[v] # None => plugin.viewers[v].file = host.shows[v]

\* The dialog of type parameters changes no value but the one whose text was
\* in the field, whatever is picked in between (a restart closes it).
NoStrayEdits ==
  [][dialog.kind = "types" /\ dialog' # NoDialog =>
       \A tp \in Types \X ParamNames :
         plugin'.user[tp] # plugin.user[tp] =>
           tp = dialog.at /\ plugin'.user[tp] = dialog.text]_vars

Spec == Init /\ [][Next]_vars

=============================================================================
