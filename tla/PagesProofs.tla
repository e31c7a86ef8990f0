----------------------------- MODULE PagesProofs ----------------------------
(***************************************************************************)
(* Proofs about the pages that change the configuration or write files.    *)
(***************************************************************************)
EXTENDS Settings, HotkeySettings, WebcamBox, ConfigFile, Export, SequenceLemmas

-----------------------------------------------------------------------------
(* Settings, for whatever a system offers, every configuration and any     *)
(* number of tracks and edits: what a page shows is what its choices need. *)

IsList(s) == s \in Seq(ToSet(s))

SettingsFields == {"sel", "num", "flags", "tracks", "source", "camera", "camera_setup",
               "formats", "format", "setups", "setup", "shown"}
CameraFields == {"source", "camera", "camera_setup", "formats", "format", "setups", "setup"}
ConfigFields == {"sel", "num", "flags", "tracks", "camera"}

IsTrack(t) ==
    /\ DOMAIN t = {"rows", "invert", "warning", "app_options"}
    /\ IsList(t.rows) /\ \A j \in DOMAIN t.rows : DOMAIN t.rows[j] = {"kind", "id"}
AreTracks(ts) == IsList(ts) /\ \A i \in DOMAIN ts : IsTrack(ts[i])
IsSettingsPage(p) ==
    /\ DOMAIN p = SettingsFields /\ DOMAIN p.sel = Boxes /\ "change_resolution" \in DOMAIN p.flags
    /\ AreTracks(p.tracks)
IsConfig(c) ==
    /\ DOMAIN c = ConfigFields /\ "change_resolution" \in DOMAIN c.flags
    /\ IsList(c.tracks) /\ \A i \in DOMAIN c.tracks : IsList(c.tracks[i].inputs)

\* What is shown, by the choice it follows.
Services == {"twitch", "youtube", "rumble", "kick", "whip", "custom"}
Warned(t) ==
    /\ \E j \in DOMAIN t.rows : t.rows[j].kind = "output"
    /\ (\E j \in DOMAIN t.rows : t.rows[j].kind \in {"app", "custom"}) \/ t.invert
AreaShown(p) ==
    /\ "portal" \in p.shown <=> p.sel.area = "portal"
    /\ type # "screenshot" => /\ "area_size" \in p.shown => p.sel.area = "focused"
                              /\ p.sel.area = "focused" /\ SelectsArea(env) => "area_size" \in p.shown
ResolutionShown(p) ==
    "resolution" \in p.shown <=> p.flags.change_resolution /\ (type = "screenshot" \/ p.sel.area # "focused")
QualityShown(p) == type # "screenshot" => ("bitrate" \in p.shown <=> p.sel.quality = "custom")
ViewShown(p) ==
    type # "screenshot" =>
      /\ "codec" \in p.shown <=> p.sel.view = "advanced"
      /\ \A i \in DOMAIN p.tracks : p.tracks[i].app_options <=> p.sel.view = "advanced" /\ env.app_audio
CameraShown(p) == type # "screenshot" => ("webcam_body" \in p.shown <=> p.source # "")
WarningsShown(p) == \A i \in DOMAIN p.tracks : p.tracks[i].warning <=> Warned(p.tracks[i])
ServiceShown(p) == type = "stream" => \A service \in Services : service \in p.shown <=> p.sel.service = service

Good(p) ==
    /\ IsSettingsPage(p) /\ AreaShown(p) /\ ResolutionShown(p) /\ QualityShown(p) /\ ViewShown(p)
    /\ CameraShown(p) /\ WarningsShown(p) /\ ServiceShown(p)

PageTypes == {"replay", "record", "stream", "screenshot"}
SettingsInv ==
    /\ type \in PageTypes /\ IsConfig(config)
    /\ page # NoPage => Good(page)

-----------------------------------------------------------------------------
(* Lists. *)

LEMMA FunctionIsList ==
  ASSUME NEW n \in Nat, NEW f, f = [k \in 1..n |-> f[k]]
  PROVE  IsList(f) /\ DOMAIN f = 1..n /\ Len(f) = n
<1>1. DOMAIN f = 1..n
  OBVIOUS
<1>2. ToSet(f) = {f[k] : k \in 1..n}
  BY <1>1 DEF ToSet
<1>3. f \in [1..n -> ToSet(f)]
  BY <1>2
<1>4. f \in Seq(ToSet(f))
  BY <1>3
<1> QED BY <1>1, <1>4 DEF IsList

LEMMA ListIsFunction ==
  ASSUME NEW f, IsList(f)
  PROVE  DOMAIN f = 1..Len(f) /\ Len(f) \in Nat /\ f = [k \in DOMAIN f |-> f[k]]
BY DEF IsList

LEMMA AppendIsList ==
  ASSUME NEW f, IsList(f), NEW e
  PROVE  /\ IsList(Append(f, e)) /\ DOMAIN Append(f, e) = 1..Len(f) + 1 /\ Append(f, e)[Len(f) + 1] = e
         /\ \A k \in DOMAIN f : Append(f, e)[k] = f[k]
<1> DEFINE S == ToSet(f) \cup {e}
<1>1. f \in Seq(S)
  BY SeqMonotonic, f \in Seq(ToSet(f)) DEF IsList
<1>2. Append(f, e) \in Seq(S) /\ ToSet(Append(f, e)) = ToSet(f) \cup {e}
  <2> HIDE DEF S
  <2>1. e \in S BY DEF S
  <2> QED BY <1>1, <2>1, AppendKeeps
<1>3. DOMAIN f = 1..Len(f) /\ Len(f) \in Nat
  BY ListIsFunction
<1>4. /\ DOMAIN Append(f, e) = 1..Len(f) + 1 /\ Append(f, e)[Len(f) + 1] = e
      /\ \A k \in DOMAIN f : Append(f, e)[k] = f[k]
  <2> HIDE DEF S
  <2>1. e \in S BY DEF S
  <2> QED BY <1>1, <1>3, <2>1
<1> QED BY <1>2, <1>4 DEF IsList

\* What is left after one is removed was there before.
LEMMA RemovedIsList ==
  ASSUME NEW f, IsList(f), NEW k \in DOMAIN f
  PROVE  IsList(RemoveAt(f, k)) /\ \A j \in DOMAIN RemoveAt(f, k) : \E i \in DOMAIN f : RemoveAt(f, k)[j] = f[i]
<1> DEFINE T == ToSet(f)
           r == RemoveAt(f, k)
<1>1. DOMAIN f = 1..Len(f) /\ Len(f) \in Nat /\ f \in Seq(T)
  BY ListIsFunction DEF IsList
<1> HIDE DEF T
<1>2. /\ r \in Seq(T) /\ Len(r) = Len(f) - 1
      /\ \A j \in 1..Len(f) - 1 : r[j] = IF j < k THEN f[j] ELSE f[j + 1]
  BY <1>1, RemoveAtIsSeq
<1> HIDE DEF r
<1>3. DOMAIN r = 1..Len(r) /\ r = [j \in 1..Len(r) |-> r[j]] /\ Len(r) \in Nat
  BY <1>2
<1>4. IsList(r)
  BY <1>3, FunctionIsList
<1>5. ASSUME NEW j \in DOMAIN r PROVE \E i \in DOMAIN f : r[j] = f[i]
  <2>1. j \in 1..Len(f) - 1 /\ j \in DOMAIN f /\ j + 1 \in DOMAIN f
    BY <1>1, <1>2, <1>3
  <2> QED BY <1>2, <2>1
<1> QED BY <1>4, <1>5 DEF r

-----------------------------------------------------------------------------
(* Handlers that only show and hide. *)

SameBut(q, p, fields) == DOMAIN q = DOMAIN p /\ \A f \in DOMAIN p : f \notin fields => q[f] = p[f]

\* q is p with some controls shown or hidden.
Touches(q, p, controls) ==
    /\ SameBut(q, p, {"shown"})
    /\ \A x : x \notin controls => (x \in q.shown <=> x \in p.shown)

LEMMA ShowIs ==
  ASSUME NEW p, DOMAIN p = SettingsFields, NEW controls, NEW on
  PROVE  /\ Touches(Show(p, controls, on), p, controls)
         /\ \A x \in controls : x \in Show(p, controls, on).shown <=> on
BY DEF Show, Touches, SameBut, SettingsFields

LEMMA TouchesTrans ==
  ASSUME NEW p, NEW q, NEW r, NEW C, NEW D, Touches(q, p, C), Touches(r, q, D)
  PROVE  Touches(r, p, C \cup D)
BY DEF Touches, SameBut

\* What is not touched stays as it should be.
LEMMA TouchedKeeps ==
  ASSUME NEW p, NEW q, NEW C, IsSettingsPage(p), Touches(q, p, C)
  PROVE  /\ IsSettingsPage(q)
         /\ "portal" \notin C /\ "area_size" \notin C /\ AreaShown(p) => AreaShown(q)
         /\ "resolution" \notin C /\ ResolutionShown(p) => ResolutionShown(q)
         /\ "bitrate" \notin C /\ QualityShown(p) => QualityShown(q)
         /\ "codec" \notin C /\ ViewShown(p) => ViewShown(q)
         /\ "webcam_body" \notin C /\ CameraShown(p) => CameraShown(q)
         /\ Services \cap C = {} /\ ServiceShown(p) => ServiceShown(q)
         /\ WarningsShown(p) => WarningsShown(q)
<1>1. /\ q.sel = p.sel /\ q.flags = p.flags /\ q.tracks = p.tracks /\ q.source = p.source
      /\ DOMAIN q = SettingsFields
      /\ \A x : x \notin C => (x \in q.shown <=> x \in p.shown)
  BY DEF Touches, SameBut, IsSettingsPage, SettingsFields
<1>2. IsSettingsPage(q)
  BY <1>1 DEF IsSettingsPage
<1>3. Services \cap C = {} /\ ServiceShown(p) => ServiceShown(q)
  BY <1>1 DEF ServiceShown
<1>4. "codec" \notin C /\ ViewShown(p) => ViewShown(q)
  BY <1>1 DEF ViewShown
<1>5. WarningsShown(p) => WarningsShown(q)
  BY <1>1 DEF WarningsShown
<1>6. /\ "portal" \notin C /\ "area_size" \notin C /\ AreaShown(p) => AreaShown(q)
      /\ "resolution" \notin C /\ ResolutionShown(p) => ResolutionShown(q)
      /\ "bitrate" \notin C /\ QualityShown(p) => QualityShown(q)
      /\ "webcam_body" \notin C /\ CameraShown(p) => CameraShown(q)
  <2>1. "portal" \notin C /\ "area_size" \notin C /\ AreaShown(p) => AreaShown(q)
    BY <1>1 DEF AreaShown
  <2> QED BY <1>1, <2>1 DEF ResolutionShown, QualityShown, CameraShown
<1> QED BY <1>2, <1>3, <1>4, <1>5, <1>6

AreaControls == {"portal", "area_size", "resolution", "change_resolution"}

\* The name that the handler of the source is called with: that of the source
\* that is shown, or none.
Names(p, id) ==
    \/ id = p.sel.area
    \/ id \notin {"portal", "focused"} /\ ~SelectsArea(env) /\ p.sel.area # "portal" /\ ~p.flags.change_resolution

LEMMA AreaIsPicked ==
  ASSUME NEW p, IsSettingsPage(p), NEW id
  PROVE  /\ Touches(AreaPicked(p, id), p, AreaControls)
         /\ Names(p, id) => AreaShown(AreaPicked(p, id)) /\ ResolutionShown(AreaPicked(p, id))
<1> DEFINE a == Show(p, {"portal"}, id = "portal")
           s == Show(a, {"resolution"}, a.flags.change_resolution)
           b == Show(a, {"area_size"}, id = "focused")
           c == Show(b, {"resolution"}, id # "focused" /\ a.flags.change_resolution)
           d == Show(c, {"change_resolution"}, id # "focused")
           q == AreaPicked(p, id)
<1>1. Touches(a, p, {"portal"}) /\ ("portal" \in a.shown <=> id = "portal")
  BY ShowIs DEF IsSettingsPage
<1>2. DOMAIN a = SettingsFields /\ a.flags = p.flags
  BY <1>1 DEF Touches, SameBut, IsSettingsPage, SettingsFields
<1> HIDE DEF a
<1>3. CASE type = "screenshot"
  <2>1. q = s
    BY <1>3 DEF AreaPicked, a
  <2>2. Touches(s, a, {"resolution"}) /\ ("resolution" \in s.shown <=> a.flags.change_resolution)
    BY <1>2, ShowIs
  <2> HIDE DEF s
  <2>3. Touches(s, p, AreaControls) /\ s.sel = p.sel /\ s.flags = p.flags
    BY <1>1, <2>2 DEF Touches, SameBut, AreaControls, IsSettingsPage, SettingsFields
  <2>4. "portal" \in s.shown <=> id = "portal"
    BY <1>1, <2>2 DEF Touches
  <2> QED BY <1>2, <1>3, <2>1, <2>2, <2>3, <2>4 DEF AreaShown, ResolutionShown, Names
<1>4. CASE type # "screenshot"
  <2>1. q = d
    BY <1>4 DEF AreaPicked, a
  <2>2. Touches(b, a, {"area_size"}) /\ ("area_size" \in b.shown <=> id = "focused")
    BY <1>2, ShowIs
  <2>3. DOMAIN b = SettingsFields
    BY <1>2, <2>2 DEF Touches, SameBut
  <2> HIDE DEF b
  <2>4. /\ Touches(c, b, {"resolution"})
        /\ "resolution" \in c.shown <=> id # "focused" /\ a.flags.change_resolution
    BY <2>3, ShowIs
  <2>5. DOMAIN c = SettingsFields
    BY <2>3, <2>4 DEF Touches, SameBut
  <2> HIDE DEF c
  <2>6. Touches(d, c, {"change_resolution"})
    BY <2>5, ShowIs
  <2> HIDE DEF d
  <2>7. Touches(c, a, {"area_size"} \cup {"resolution"})
    BY <2>2, <2>4, TouchesTrans
  <2>8. Touches(d, a, {"area_size"} \cup {"resolution"} \cup {"change_resolution"})
    BY <2>6, <2>7, TouchesTrans
  <2>9. Touches(d, p, {"portal"} \cup ({"area_size"} \cup {"resolution"} \cup {"change_resolution"}))
    BY <1>1, <2>8, TouchesTrans
  <2>10. Touches(d, p, AreaControls) /\ d.sel = p.sel /\ d.flags = p.flags
    BY <2>9 DEF Touches, SameBut, AreaControls, IsSettingsPage, SettingsFields
  <2>11. /\ "portal" \in d.shown <=> id = "portal"
         /\ "area_size" \in d.shown <=> id = "focused"
         /\ "resolution" \in d.shown <=> id # "focused" /\ p.flags.change_resolution
    BY <1>1, <1>2, <2>2, <2>4, <2>6, <2>8 DEF Touches
  <2> QED BY <1>4, <2>1, <2>10, <2>11 DEF AreaShown, ResolutionShown, Names
<1> QED BY <1>3, <1>4

LEMMA ResolutionIsChecked ==
  ASSUME NEW p, IsSettingsPage(p), NEW checked, checked = p.flags.change_resolution
  PROVE  /\ Touches(ResolutionChecked(p, checked), p, {"resolution"})
         /\ ResolutionShown(ResolutionChecked(p, checked))
<1> DEFINE on == checked /\ (type = "screenshot" \/ p.sel.area # "focused")
           q == Show(p, {"resolution"}, on)
<1>1. Touches(q, p, {"resolution"}) /\ ("resolution" \in q.shown <=> on)
  BY ShowIs DEF IsSettingsPage
<1>2. q = ResolutionChecked(p, checked)
  BY DEF ResolutionChecked
<1> HIDE DEF q
<1>3. q.sel = p.sel /\ q.flags = p.flags
  BY <1>1 DEF Touches, SameBut, IsSettingsPage, SettingsFields
<1> QED BY <1>1, <1>2, <1>3 DEF ResolutionShown

LEMMA QualityIsPicked ==
  ASSUME NEW p, IsSettingsPage(p), NEW id, id = p.sel.quality
  PROVE  /\ Touches(QualityPicked(p, id), p, {"bitrate", "file_size"})
         /\ QualityShown(QualityPicked(p, id))
<1> DEFINE C == {"bitrate"} \cup (IF type \in {"replay", "record"} THEN {"file_size"} ELSE {})
           q == Show(p, C, id = "custom")
<1>1. Touches(q, p, C) /\ \A x \in C : x \in q.shown <=> id = "custom"
  BY ShowIs DEF IsSettingsPage
<1>2. q = QualityPicked(p, id)
  BY DEF QualityPicked
<1> HIDE DEF q
<1>3. q.sel = p.sel /\ Touches(q, p, {"bitrate", "file_size"})
  BY <1>1 DEF Touches, SameBut, IsSettingsPage, SettingsFields
<1> QED BY <1>1, <1>2, <1>3 DEF QualityShown

ServiceControls == Services \cup {"key_list"}

LEMMA ServiceIsPicked ==
  ASSUME NEW p, IsSettingsPage(p), NEW id \in Services, type = "stream" => p.sel.service = id
  PROVE  /\ Touches(ServicePicked(p, id), p, ServiceControls)
         /\ ServiceShown(ServicePicked(p, id))
<1> DEFINE C == {"twitch", "youtube", "rumble"} \cup {"kick", "whip", "custom"} \cup {"key_list"}
           D == {id} \cup (IF id \in {"twitch", "youtube", "rumble"} THEN {"key_list"} ELSE {})
           a == Show(p, C, FALSE)
           q == Show(a, D, TRUE)
<1>1. Touches(a, p, C) /\ \A x \in C : x \notin a.shown
  BY ShowIs DEF IsSettingsPage
<1>2. DOMAIN a = SettingsFields
  BY <1>1 DEF Touches, SameBut, IsSettingsPage
<1>3. q = ServicePicked(p, id)
  BY DEF ServicePicked
<1> HIDE DEF a
<1>4. Touches(q, a, D) /\ \A x \in D : x \in q.shown
  BY <1>2, ShowIs
<1> HIDE DEF q
<1>5. Touches(q, p, ServiceControls) /\ q.sel = p.sel
  BY <1>1, <1>4 DEF Touches, SameBut, IsSettingsPage, SettingsFields, ServiceControls, Services
<1>6. \A service \in Services : service \in q.shown <=> service = id
  BY <1>1, <1>4 DEF Touches, Services
<1> QED BY <1>3, <1>5, <1>6 DEF ServiceShown

-----------------------------------------------------------------------------
(* Handlers that change the tracks. *)

\* q is p with other tracks.
LEMMA TracksKeep ==
  ASSUME NEW p, NEW q, IsSettingsPage(p), SameBut(q, p, {"tracks"}), AreTracks(q.tracks)
  PROVE  /\ IsSettingsPage(q)
         /\ AreaShown(p) => AreaShown(q)
         /\ ResolutionShown(p) => ResolutionShown(q)
         /\ QualityShown(p) => QualityShown(q)
         /\ CameraShown(p) => CameraShown(q)
         /\ ServiceShown(p) => ServiceShown(q)
<1>1. q.sel = p.sel /\ q.flags = p.flags /\ q.shown = p.shown /\ q.source = p.source /\ DOMAIN q = SettingsFields
  BY DEF SameBut, IsSettingsPage, SettingsFields
<1>2. AreaShown(p) => AreaShown(q)
  BY <1>1 DEF AreaShown
<1> QED BY <1>1, <1>2 DEF IsSettingsPage, ResolutionShown, QualityShown, CameraShown, ServiceShown

LEMMA WarningsAreUpdated ==
  ASSUME NEW p, IsSettingsPage(p)
  PROVE  /\ SameBut(WarningsUpdated(p), p, {"tracks"}) /\ AreTracks(WarningsUpdated(p).tracks)
         /\ WarningsShown(WarningsUpdated(p))
         /\ ViewShown(p) => ViewShown(WarningsUpdated(p))
<1> DEFINE W(t) == "output" \in Kinds(t) /\ (Kinds(t) \cap {"app", "custom"} # {} \/ t.invert)
           ts == [i \in DOMAIN p.tracks |-> [p.tracks[i] EXCEPT !.warning = W(p.tracks[i])]]
           q == WarningsUpdated(p)
<1>1. q = [p EXCEPT !.tracks = ts]
  BY DEF WarningsUpdated
<1>2. ASSUME NEW i \in DOMAIN p.tracks PROVE W(p.tracks[i]) <=> Warned(p.tracks[i])
  BY DEF Kinds, Warned
<1> HIDE DEF W
<1>3. SameBut(q, p, {"tracks"}) /\ q.tracks = ts /\ q.sel = p.sel /\ q.shown = p.shown
  BY <1>1 DEF SameBut, IsSettingsPage, SettingsFields
<1> HIDE DEF q
<1>4. IsList(ts) /\ DOMAIN ts = DOMAIN p.tracks
  <2>1. IsList(p.tracks)
    BY DEF IsSettingsPage, AreTracks
  <2>2. DOMAIN p.tracks = 1..Len(p.tracks) /\ Len(p.tracks) \in Nat
    BY <2>1, ListIsFunction
  <2> QED BY <2>2, FunctionIsList
<1>5. ASSUME NEW i \in DOMAIN p.tracks
      PROVE  /\ IsTrack(ts[i])
             /\ ts[i].rows = p.tracks[i].rows /\ ts[i].invert = p.tracks[i].invert
             /\ ts[i].app_options = p.tracks[i].app_options
             /\ ts[i].warning = W(p.tracks[i])
  <2>1. IsTrack(p.tracks[i])
    BY DEF IsSettingsPage, AreTracks
  <2>2. ts[i] = [p.tracks[i] EXCEPT !.warning = W(p.tracks[i])]
    OBVIOUS
  <2> HIDE DEF ts
  <2> QED BY <2>1, <2>2 DEF IsTrack
<1> HIDE DEF ts
<1>6. AreTracks(q.tracks)
  BY <1>3, <1>4, <1>5 DEF AreTracks
<1>7. WarningsShown(q)
  BY <1>2, <1>3, <1>4, <1>5 DEF WarningsShown, Warned
<1>8. ViewShown(p) => ViewShown(q)
  BY <1>3, <1>4, <1>5 DEF ViewShown
<1> QED BY <1>3, <1>6, <1>7, <1>8 DEF q

ViewControls == {"color_range", "audio_codec", "codec", "framerate"}

LEMMA ViewIsPicked ==
  ASSUME NEW p, IsSettingsPage(p), NEW id, type # "screenshot" => id = p.sel.view
  PROVE  LET q == ViewPicked(p, id)
         IN  /\ IsSettingsPage(q) /\ ViewShown(q)
             /\ AreaShown(p) => AreaShown(q)
             /\ ResolutionShown(p) => ResolutionShown(q)
             /\ QualityShown(p) => QualityShown(q)
             /\ CameraShown(p) => CameraShown(q)
             /\ ServiceShown(p) => ServiceShown(q)
             /\ WarningsShown(p) => WarningsShown(q)
             /\ q.sel = p.sel
<1> DEFINE a == Show(p, ViewControls, id = "advanced")
           ts == [i \in DOMAIN p.tracks |->
                    [p.tracks[i] EXCEPT !.app_options = id = "advanced" /\ env.app_audio]]
           q == ViewPicked(p, id)
<1>1. Touches(a, p, ViewControls) /\ \A x \in ViewControls : x \in a.shown <=> id = "advanced"
  BY ShowIs DEF IsSettingsPage
<1>2. a.tracks = p.tracks /\ DOMAIN a = SettingsFields /\ a.sel = p.sel
  BY <1>1 DEF Touches, SameBut, IsSettingsPage, SettingsFields
<1>3. q = [a EXCEPT !.tracks = ts]
  <2>1. q = [a EXCEPT !.tracks = [i \in DOMAIN a.tracks |->
                    [a.tracks[i] EXCEPT !.app_options = id = "advanced" /\ env.app_audio]]]
    BY DEF ViewPicked, ViewControls
  <2> HIDE DEF a, q
  <2> QED BY <1>2, <2>1
<1> HIDE DEF a, q
<1>4. SameBut(q, a, {"tracks"}) /\ q.tracks = ts /\ q.sel = p.sel /\ q.shown = a.shown
  BY <1>2, <1>3 DEF SameBut, SettingsFields
<1>5. /\ IsSettingsPage(a)
      /\ AreaShown(p) => AreaShown(a)
      /\ ResolutionShown(p) => ResolutionShown(a)
      /\ QualityShown(p) => QualityShown(a)
      /\ CameraShown(p) => CameraShown(a)
      /\ ServiceShown(p) => ServiceShown(a)
  BY <1>1, TouchedKeeps DEF ViewControls, Services
<1>6. IsList(ts) /\ DOMAIN ts = DOMAIN p.tracks
  <2>1. IsList(p.tracks)
    BY DEF IsSettingsPage, AreTracks
  <2>2. DOMAIN p.tracks = 1..Len(p.tracks) /\ Len(p.tracks) \in Nat
    BY <2>1, ListIsFunction
  <2> QED BY <2>2, FunctionIsList
<1>7. ASSUME NEW i \in DOMAIN p.tracks
      PROVE  /\ IsTrack(ts[i])
             /\ ts[i].rows = p.tracks[i].rows /\ ts[i].invert = p.tracks[i].invert
             /\ ts[i].warning = p.tracks[i].warning
             /\ ts[i].app_options <=> id = "advanced" /\ env.app_audio
  <2> DEFINE o == id = "advanced" /\ env.app_audio
  <2>1. IsTrack(p.tracks[i])
    BY DEF IsSettingsPage, AreTracks
  <2>2. ts[i] = [p.tracks[i] EXCEPT !.app_options = o]
    OBVIOUS
  <2>3. o \in BOOLEAN
    OBVIOUS
  <2> HIDE DEF ts, o
  <2>4. /\ IsTrack(ts[i]) /\ ts[i].rows = p.tracks[i].rows /\ ts[i].invert = p.tracks[i].invert
        /\ ts[i].warning = p.tracks[i].warning /\ ts[i].app_options = o
    BY <2>1, <2>2 DEF IsTrack
  <2> QED BY <2>4 DEF o
<1> HIDE DEF ts
<1>8. AreTracks(q.tracks)
  BY <1>4, <1>6, <1>7 DEF AreTracks
<1>9. ViewShown(q)
  BY <1>1, <1>4, <1>6, <1>7 DEF ViewShown, ViewControls
<1>10. WarningsShown(p) => WarningsShown(q)
  BY <1>4, <1>6, <1>7 DEF WarningsShown, Warned
<1> QED BY <1>4, <1>5, <1>8, <1>9, <1>10, TracksKeep DEF q

-----------------------------------------------------------------------------
(* The handlers of the camera. *)

IsLoading(s) == DOMAIN s = {"p", "c"} /\ DOMAIN s.p = SettingsFields /\ DOMAIN s.c = ConfigFields

\* The handlers of the format and of the setup change only the camera's part.
CameraOnly(q, s, fields) ==
    /\ IsLoading(q) /\ SameBut(q.p, s.p, fields) /\ SameBut(q.c, s.c, {"camera"})

SetupFields == CameraFields \ {"source"}

LEMMA SetupIsPicked ==
  ASSUME NEW s, IsLoading(s), NEW setup
  PROVE  CameraOnly(SetupPicked(s, setup), s, SetupFields)
BY DEF SetupPicked, IsLoading, CameraOnly, SameBut, SetupFields, CameraFields, SettingsFields, ConfigFields

LEMMA CameraOnlyTrans ==
  ASSUME NEW s, NEW q, NEW r, NEW fields, IsLoading(s), CameraOnly(q, s, fields), CameraOnly(r, q, fields)
  PROVE  CameraOnly(r, s, fields)
BY DEF CameraOnly, SameBut, IsLoading

LEMMA SetupsAreFilled ==
  ASSUME NEW s, IsLoading(s), NEW setups
  PROVE  CameraOnly(SetupsFilled(s, setups), s, SetupFields)
<1> DEFINE listed == [s EXCEPT !.p.setups = setups, !.p.setup = 0]
<1>1. SetupsFilled(s, setups) = IF setups = {} THEN listed ELSE SetupPicked(listed, Min(setups))
  BY DEF SetupsFilled
<1>2. CameraOnly(listed, s, SetupFields)
  BY DEF IsLoading, CameraOnly, SameBut, SetupFields, CameraFields, SettingsFields, ConfigFields
<1> HIDE DEF listed
<1>3. CameraOnly(SetupPicked(listed, Min(setups)), listed, SetupFields)
  BY <1>2, SetupIsPicked DEF CameraOnly
<1>4. CameraOnly(SetupPicked(listed, Min(setups)), s, SetupFields)
  BY <1>2, <1>3, CameraOnlyTrans
<1> QED BY <1>1, <1>2, <1>4

LEMMA FormatIsPicked ==
  ASSUME NEW s, IsLoading(s), NEW format
  PROVE  CameraOnly(FormatPicked(s, format), s, SetupFields)
<1> DEFINE t      == [s EXCEPT !.p.format = format, !.c.camera.format = format]
           setups == SetupsOf(s.p.source, format)
           first  == SetupsFilled(t, setups)
           again  == SetupPicked(first, s.c.camera.setup)
<1>1. FormatPicked(s, format) = IF s.p.source \notin DOMAIN env.cameras THEN t
                                ELSE IF s.c.camera.setup \in setups THEN again
                                ELSE first
  BY Zenon DEF FormatPicked
<1>2. CameraOnly(t, s, SetupFields)
  BY DEF IsLoading, CameraOnly, SameBut, SetupFields, CameraFields, SettingsFields, ConfigFields
<1> HIDE DEF t, setups
<1>3. CameraOnly(first, t, SetupFields)
  BY <1>2, SetupsAreFilled DEF CameraOnly
<1>4. CameraOnly(first, s, SetupFields)
  BY <1>2, <1>3, CameraOnlyTrans
<1> HIDE DEF first
<1>5. CameraOnly(again, first, SetupFields)
  BY <1>4, SetupIsPicked DEF CameraOnly
<1>6. CameraOnly(again, s, SetupFields)
  BY <1>4, <1>5, CameraOnlyTrans
<1> HIDE DEF again
<1> QED BY <1>1, <1>2, <1>4, <1>6

\* The camera's part is shown when there is a camera.
SourceFields == CameraFields \cup {"shown"}

LEMMA SourceIsPicked ==
  ASSUME NEW s, IsLoading(s), NEW source
  PROVE  LET q == SourcePicked(s, source)
         IN  /\ CameraOnly(q, s, SourceFields)
             /\ q.p.source = source /\ ("webcam_body" \in q.p.shown <=> source # "")
             /\ \A x : x # "webcam_body" => (x \in q.p.shown <=> x \in s.p.shown)
<1> DEFINE t == [s EXCEPT !.p.source = source, !.p.camera = "", !.p.camera_setup = 0,
                          !.p.formats = <<>>, !.p.format = ""]
           formats == <<"auto">> \o Some(env.cameras[source].yuyv # {}, <<"yuyv">>)
                                 \o Some(env.cameras[source].mjpeg # {}, <<"mjpeg">>)
           listed == [t.p EXCEPT !.formats = formats]
           shown == [t EXCEPT !.p = Show(listed, {"webcam_body"}, TRUE)]
           hidden == [t EXCEPT !.p = Show(t.p, {"webcam_body"}, FALSE)]
           auto == FormatPicked(shown, "auto")
           restored == IF Offers(formats, s.c.camera.format) THEN FormatPicked(auto, s.c.camera.format) ELSE auto
           found == [restored EXCEPT !.p.camera = source]
           q == SourcePicked(s, source)
<1>1. q = IF source = "" THEN hidden ELSE found
  BY DEF SourcePicked
<1>2. CameraOnly(t, s, SourceFields) /\ t.p.source = source /\ t.p.shown = s.p.shown
  BY DEF IsLoading, CameraOnly, SameBut, SourceFields, CameraFields, SettingsFields, ConfigFields
<1> HIDE DEF t, formats
<1>3. CASE source = ""
  <2>1. /\ Touches(hidden.p, t.p, {"webcam_body"}) /\ "webcam_body" \notin hidden.p.shown
        /\ DOMAIN hidden = {"p", "c"} /\ hidden.c = t.c
    BY <1>2, ShowIs DEF CameraOnly, IsLoading
  <2> HIDE DEF hidden
  <2>2. CameraOnly(hidden, s, SourceFields) /\ hidden.p.source = source
    BY <1>2, <2>1 DEF CameraOnly, IsLoading, Touches, SameBut, SourceFields, CameraFields, SettingsFields
  <2>3. \A x : x # "webcam_body" => (x \in hidden.p.shown <=> x \in s.p.shown)
    BY <1>2, <2>1 DEF Touches
  <2> HIDE DEF q
  <2> QED BY <1>1, <1>3, <2>1, <2>2, <2>3 DEF q
<1>4. CASE source # ""
  <2> DEFINE l == Show(listed, {"webcam_body"}, TRUE)
  <2>1. DOMAIN listed = SettingsFields /\ SameBut(listed, t.p, {"formats"})
    BY <1>2 DEF CameraOnly, IsLoading, SameBut, SettingsFields
  <2> HIDE DEF listed
  <2>2. Touches(l, listed, {"webcam_body"}) /\ "webcam_body" \in l.shown
    BY <2>1, ShowIs
  <2> HIDE DEF l
  <2>3. shown.p = l /\ DOMAIN shown = {"p", "c"} /\ shown.c = t.c
    BY <1>2 DEF CameraOnly, IsLoading, l
  <2> HIDE DEF shown
  <2>4. IsLoading(shown) /\ SameBut(shown.p, t.p, {"formats", "shown"}) /\ shown.p.source = source
    BY <1>2, <2>1, <2>2, <2>3 DEF CameraOnly, IsLoading, Touches, SameBut, SettingsFields
  <2>5. CameraOnly(auto, shown, SetupFields)
    BY <2>4, FormatIsPicked
  <2> HIDE DEF auto
  <2>6. CameraOnly(restored, shown, SetupFields)
    <3>1. CameraOnly(FormatPicked(auto, s.c.camera.format), auto, SetupFields)
      BY <2>5, FormatIsPicked DEF CameraOnly
    <3>2. CameraOnly(FormatPicked(auto, s.c.camera.format), shown, SetupFields)
      BY <2>4, <2>5, <3>1, CameraOnlyTrans
    <3> QED BY <2>5, <3>2
  <2> HIDE DEF restored
  <2>7. CameraOnly(found, restored, {"camera"})
    BY <2>6 DEF IsLoading, CameraOnly, SameBut, SettingsFields, ConfigFields
  <2> HIDE DEF found
  <2>8. CameraOnly(found, s, SourceFields) /\ found.p.source = source
    BY <1>2, <2>3, <2>4, <2>6, <2>7
    DEF CameraOnly, IsLoading, SameBut, SetupFields, SourceFields, CameraFields, SettingsFields, ConfigFields
  <2>9. found.p.shown = l.shown /\ listed.shown = s.p.shown
    BY <1>2, <2>1, <2>3, <2>4, <2>6, <2>7
    DEF CameraOnly, IsLoading, SameBut, SetupFields, CameraFields, SettingsFields
  <2>10. \A x : x # "webcam_body" => (x \in found.p.shown <=> x \in s.p.shown)
    BY <2>2, <2>9 DEF Touches
  <2> HIDE DEF q
  <2> QED BY <1>1, <1>4, <2>2, <2>8, <2>9, <2>10 DEF q
<1> QED BY <1>3, <1>4

LEMMA ConfigKept ==
  ASSUME NEW c, NEW d, IsConfig(c), SameBut(d, c, {"sel", "num", "camera"})
  PROVE  IsConfig(d)
BY DEF IsConfig, SameBut, ConfigFields

\* A good page stays good.
LEMMA CameraKeepsPage ==
  ASSUME NEW s, NEW q, Good(s.p), IsConfig(s.c), IsLoading(s), CameraOnly(q, s, SetupFields)
  PROVE  Good(q.p) /\ IsConfig(q.c) /\ IsLoading(q)
<1>1. /\ q.p.sel = s.p.sel /\ q.p.flags = s.p.flags /\ q.p.tracks = s.p.tracks /\ q.p.source = s.p.source
      /\ q.p.shown = s.p.shown /\ DOMAIN q.p = SettingsFields
  BY DEF CameraOnly, IsLoading, SameBut, SetupFields, CameraFields, SettingsFields
<1>2. Good(q.p)
  <2>1. IsSettingsPage(q.p)
    BY <1>1 DEF Good, IsSettingsPage
  <2>3. AreaShown(q.p) /\ ResolutionShown(q.p)
    BY <1>1 DEF Good, AreaShown, ResolutionShown
  <2>4. QualityShown(q.p) /\ CameraShown(q.p)
    BY <1>1 DEF Good, QualityShown, CameraShown
  <2>2. ViewShown(q.p) /\ WarningsShown(q.p) /\ ServiceShown(q.p)
    BY <1>1 DEF Good, ViewShown, WarningsShown, ServiceShown
  <2> QED BY <2>1, <2>2, <2>3, <2>4 DEF Good
<1>3. IsConfig(q.c)
  <2>1. SameBut(q.c, s.c, {"sel", "num", "camera"})
    BY DEF CameraOnly, SameBut
  <2> QED BY <2>1, ConfigKept
<1> QED BY <1>2, <1>3 DEF CameraOnly

LEMMA SourceKeepsPage ==
  ASSUME NEW s, Good(s.p), IsConfig(s.c), IsLoading(s), NEW source
  PROVE  LET q == SourcePicked(s, source) IN Good(q.p) /\ IsConfig(q.c) /\ IsLoading(q)
<1> DEFINE q == SourcePicked(s, source)
<1>1. /\ CameraOnly(q, s, SourceFields)
      /\ q.p.source = source /\ ("webcam_body" \in q.p.shown <=> source # "")
      /\ \A x : x # "webcam_body" => (x \in q.p.shown <=> x \in s.p.shown)
  BY SourceIsPicked
<1> HIDE DEF q
<1>2. /\ q.p.sel = s.p.sel /\ q.p.flags = s.p.flags /\ q.p.tracks = s.p.tracks
      /\ DOMAIN q.p = SettingsFields
  BY <1>1 DEF CameraOnly, IsLoading, SameBut, SourceFields, CameraFields, SettingsFields
<1>3. IsSettingsPage(q.p) /\ WarningsShown(q.p) /\ CameraShown(q.p)
  BY <1>1, <1>2 DEF Good, IsSettingsPage, WarningsShown, CameraShown
<1>4. AreaShown(q.p) /\ ResolutionShown(q.p) /\ QualityShown(q.p)
  <2>1. \A x \in {"portal", "area_size", "resolution", "bitrate"} : x \in q.p.shown <=> x \in s.p.shown
    BY <1>1
  <2> QED BY <1>2, <2>1 DEF Good, AreaShown, ResolutionShown, QualityShown
<1>5. ViewShown(q.p) /\ ServiceShown(q.p)
  BY <1>1, <1>2 DEF Good, ViewShown, ServiceShown, Services
<1>6. IsConfig(q.c)
  <2>1. SameBut(q.c, s.c, {"sel", "num", "camera"})
    BY <1>1 DEF CameraOnly, SameBut
  <2> QED BY <2>1, ConfigKept
<1> QED BY <1>1, <1>3, <1>4, <1>5, <1>6 DEF Good, CameraOnly, q

-----------------------------------------------------------------------------
(* Loading. *)

LEMMA NewTrackIsTrack ==
  ASSUME NEW p
  PROVE  /\ IsTrack(NewTrack(p)) /\ NewTrack(p).rows = <<>>
         /\ NewTrack(p).app_options <=> p.sel.view = "advanced" /\ env.app_audio
<1> DEFINE o == p.sel.view = "advanced" /\ env.app_audio
<1>1. NewTrack(p) = [rows |-> <<>>, invert |-> FALSE, warning |-> FALSE, app_options |-> o]
  BY DEF NewTrack
<1> HIDE DEF o
<1>2. IsList(<<>>) /\ DOMAIN <<>> = {}
  BY DEF IsList
<1>3. /\ DOMAIN NewTrack(p) = {"rows", "invert", "warning", "app_options"}
      /\ NewTrack(p).rows = <<>> /\ NewTrack(p).app_options = o
  BY <1>1
<1>4. NewTrack(p).app_options <=> p.sel.view = "advanced" /\ env.app_audio
  BY <1>3 DEF o
<1>5. IsTrack(NewTrack(p))
  BY <1>2, <1>3 DEF IsTrack
<1> QED BY <1>3, <1>4, <1>5

LEMMA RowsHaveKinds ==
  ASSUME NEW kind
  PROVE  /\ DOMAIN DeviceRow(kind) = {"kind", "id"} /\ DeviceRow(kind).kind = kind
         /\ DOMAIN AppRow = {"kind", "id"}
BY DEF DeviceRow, AppRow

LEMMA LoadedRowIsRow == ASSUME NEW input PROVE DOMAIN LoadedRow(input) = {"kind", "id"}
<1>1. CASE input.kind = "app"
  BY <1>1 DEF LoadedRow
<1>2. CASE input.kind # "app"
  <2> DEFINE row == DeviceRow(DeviceKind(input.id))
             id == IF Offers(DeviceItems(row.kind), input.id) THEN input.id ELSE row.id
  <2>1. LoadedRow(input) = [row EXCEPT !.id = id]
    BY <1>2 DEF LoadedRow
  <2>2. DOMAIN row = {"kind", "id"}
    BY RowsHaveKinds
  <2> HIDE DEF row, id
  <2> QED BY <2>1, <2>2
<1> QED BY <1>1, <1>2

LEMMA LoadedTrackIsTrack ==
  ASSUME NEW p, NEW track, IsList(track.inputs)
  PROVE  IsTrack(LoadedTrack(p, track))
<1> DEFINE rows == {j \in DOMAIN track.inputs : track.inputs[j].kind = "app" => env.app_audio}
           at(n) == CHOOSE j \in rows : Cardinality({i \in rows : i <= j}) = n
           list == [n \in 1 .. Cardinality(rows) |-> LoadedRow(track.inputs[at(n)])]
           t == NewTrack(p)
<1>1. LoadedTrack(p, track) = [t EXCEPT !.rows = list, !.invert = track.invert]
  BY DEF LoadedTrack
<1>2. Cardinality(rows) \in Nat
  <2>1. DOMAIN track.inputs = 1..Len(track.inputs) /\ Len(track.inputs) \in Nat
    BY ListIsFunction
  <2> DEFINE last == Len(track.inputs)
  <2>2. 1 \in Int /\ last \in Int
    BY <2>1
  <2> HIDE DEF last
  <2>3. IsFiniteSet(1..last)
    BY <2>2, FS_Interval
  <2>4. IsFiniteSet(rows)
    BY <2>1, <2>3, FS_Subset DEF last
  <2> QED BY <2>4, FS_CardinalityType
<1> HIDE DEF rows, at
<1>3. IsList(list) /\ DOMAIN list = 1 .. Cardinality(rows)
  BY <1>2, FunctionIsList
<1>4. ASSUME NEW n \in DOMAIN list PROVE DOMAIN list[n] = {"kind", "id"}
  BY <1>3, <1>4, LoadedRowIsRow
<1>5. DOMAIN t = {"rows", "invert", "warning", "app_options"}
  BY NewTrackIsTrack DEF IsTrack
<1> HIDE DEF list, t
<1>6. DOMAIN LoadedTrack(p, track) = DOMAIN t /\ LoadedTrack(p, track).rows = list
  BY <1>1, <1>5
<1> QED BY <1>3, <1>4, <1>5, <1>6 DEF IsTrack

LEMMA TracksAreLoaded ==
  ASSUME NEW p, IsSettingsPage(p), NEW tracks, IsList(tracks), \A i \in DOMAIN tracks : IsList(tracks[i].inputs)
  PROVE  SameBut(TracksLoaded(p, tracks), p, {"tracks"}) /\ AreTracks(TracksLoaded(p, tracks).tracks)
         /\ WarningsShown(TracksLoaded(p, tracks))
<1> DEFINE all    == [i \in DOMAIN tracks |-> LoadedTrack(p, tracks[i])]
           stream == IF all = <<>> THEN <<NewTrack(p)>> ELSE <<all[1]>>
           ts     == IF type = "stream" THEN stream ELSE all
           a      == [p EXCEPT !.tracks = ts]
           q      == TracksLoaded(p, tracks)
<1>1. q = WarningsUpdated(a)
  BY DEF TracksLoaded
<1>2. DOMAIN tracks = 1..Len(tracks) /\ Len(tracks) \in Nat
  BY ListIsFunction
<1>3. AreTracks(all) /\ DOMAIN all = 1..Len(tracks)
  <2>1. IsList(all) /\ DOMAIN all = 1..Len(tracks)
    BY <1>2, FunctionIsList
  <2>2. ASSUME NEW i \in DOMAIN all PROVE IsTrack(all[i])
    BY <2>2, LoadedTrackIsTrack
  <2> QED BY <2>1, <2>2 DEF AreTracks
<1>4. ASSUME NEW t, IsTrack(t) PROVE AreTracks(<<t>>)
  <2>1. IsList(<<t>>) /\ DOMAIN <<t>> = {1} /\ <<t>>[1] = t
    BY FunctionIsList DEF IsList, ToSet
  <2> QED BY <1>4, <2>1 DEF AreTracks
<1>5. AreTracks(stream)
  <2>1. CASE all = <<>>
    BY <2>1, <1>4, NewTrackIsTrack
  <2>2. CASE all # <<>>
    <3>1. 1 \in DOMAIN all
      <4>1. all = [i \in 1..Len(tracks) |-> all[i]]
        BY <1>2
      <4> HIDE DEF all
      <4>2. Len(tracks) # 0
        BY <2>2, <4>1
      <4> QED BY <1>2, <1>3, <4>2
    <3>2. IsTrack(all[1])
      BY <1>3, <3>1 DEF AreTracks
    <3> QED BY <1>4, <2>2, <3>2
  <2> QED BY <2>1, <2>2
<1>6. AreTracks(ts)
  BY <1>3, <1>5
<1> HIDE DEF ts
<1>7. SameBut(a, p, {"tracks"}) /\ AreTracks(a.tracks) /\ IsSettingsPage(a)
  <2>1. SameBut(a, p, {"tracks"}) /\ a.tracks = ts
    BY DEF SameBut, IsSettingsPage, SettingsFields
  <2> HIDE DEF a
  <2> QED BY <1>6, <2>1, TracksKeep
<1> HIDE DEF a
<1>8. SameBut(q, a, {"tracks"}) /\ AreTracks(q.tracks) /\ WarningsShown(q)
  BY <1>1, <1>7, WarningsAreUpdated
<1> QED BY <1>7, <1>8 DEF SameBut, q

\* The services that are offered, a list of known ones that begins with the first.
LEMMA ServicesAreKnown ==
  /\ ToSet(ServiceItems(env)) \subseteq Services
  /\ BoxItems(env, "service") = ServiceItems(env)
  /\ First(BoxItems(env, "service")) = "twitch"
<1> DEFINE a == <<"twitch", "youtube", "rumble", "kick">>
           b == Some(env.whip, <<"whip">>)
           c == <<"custom">>
<1>1. a \in Seq(Services) /\ Len(a) = 4 /\ a[1] = "twitch"
  BY DEF Services
<1>2. b \in Seq(Services)
  <2>1. <<"whip">> \in Seq(Services) /\ <<>> \in Seq(Services)
    BY DEF Services
  <2> QED BY <2>1 DEF Some
<1>3. c \in Seq(Services) /\ Len(c) = 1
  BY DEF Services
<1>4. ServiceItems(env) = (a \o b) \o c
  BY DEF ServiceItems
<1> HIDE DEF a, b, c
<1>5. /\ a \o b \in Seq(Services) /\ Len(a \o b) = Len(a) + Len(b)
      /\ \A i \in 1..Len(a) + Len(b) : (a \o b)[i] = IF i <= Len(a) THEN a[i] ELSE b[i - Len(a)]
  BY <1>1, <1>2, ConcatProperties
<1>6. (a \o b)[1] = "twitch" /\ Len(a \o b) >= 4
  BY <1>1, <1>2, <1>5
<1> DEFINE d == a \o b
<1>7. d \in Seq(Services)
  BY <1>5
<1> HIDE DEF d
<1>8. /\ d \o c \in Seq(Services) /\ Len(d \o c) = Len(d) + Len(c)
      /\ \A i \in 1..Len(d) + Len(c) : (d \o c)[i] = IF i <= Len(d) THEN d[i] ELSE c[i - Len(d)]
  BY <1>3, <1>7, ConcatProperties
<1>9. /\ ServiceItems(env) \in Seq(Services) /\ Len(ServiceItems(env)) >= 5
      /\ ServiceItems(env)[1] = "twitch"
  <2>1. d \in Seq(Services) /\ d[1] = "twitch" /\ Len(d) >= 4 /\ ServiceItems(env) = d \o c
    BY <1>4, <1>5, <1>6 DEF d
  <2>2. 1 \in 1..Len(d) + Len(c) /\ 1 <= Len(d) /\ Len(d) \in Nat
    BY <1>3, <2>1
  <2> QED BY <1>3, <1>8, <2>1, <2>2
<1>10. ToSet(ServiceItems(env)) \subseteq Services
  BY <1>9 DEF ToSet
<1>11. ServiceItems(env) # <<>>
  BY <1>9
<1>12. First(ServiceItems(env)) = "twitch"
  BY <1>9, <1>11 DEF First
<1> QED BY <1>10, <1>12 DEF BoxItems

\* Where no source is selected by name, the first is none that needs the portal.
LEMMA FirstAreaIsPlain ==
  ~SelectsArea(env) => First(AreaItems(env)) # "portal" /\ NamedArea(env) \notin {"portal", "focused"}
<1> DEFINE focused == Some("focused" \in env.capture /\ type # "screenshot", <<"focused">>)
           region == Some("region" \in env.capture, <<"region">>)
<1> SUFFICES ASSUME ~SelectsArea(env)
             PROVE  First(AreaItems(env)) # "portal" /\ NamedArea(env) \notin {"portal", "focused"}
  OBVIOUS
<1>1. env.monitors = <<>> /\ "portal" \notin env.capture /\ "window" \notin env.capture
  BY DEF SelectsArea
<1>2. AreaItems(env) = <<>> \o focused \o region \o <<>> \o <<>> \o <<>>
  BY <1>1, Zenon DEF AreaItems, Some
<1> DEFINE S == {"focused", "region"}
<1>3. focused \in Seq(S) /\ region \in Seq(S) /\ <<>> \in Seq(S)
  <2>1. <<"focused">> \in Seq(S) /\ <<"region">> \in Seq(S) /\ <<>> \in Seq(S)
    OBVIOUS
  <2> QED BY <2>1, Zenon DEF Some
<1> HIDE DEF focused, region
<1>4. AreaItems(env) \in Seq(S)
  <2> HIDE DEF S
  <2> QED BY <1>2, <1>3
<1>5. First(AreaItems(env)) # "portal"
  <2>1. ASSUME AreaItems(env) # <<>> PROVE AreaItems(env)[1] \in S
    <3> HIDE DEF S
    <3> QED BY <1>4, <2>1
  <2> QED BY <2>1, Zenon DEF First
<1>6. NamedArea(env) \notin {"portal", "focused"}
  BY <1>1, Zenon DEF NamedArea
<1> QED BY <1>5, <1>6

\* The page of a new configuration shows what it chose.
LEMMA NewPageIsGood ==
  ASSUME NEW c, IsConfig(c), type \in PageTypes
  PROVE  Good(NewPage(c))
<1> DEFINE sel == [widget \in Boxes |->
                    CASE widget = "area"    -> DefaultArea(env)
                      [] widget = "quality" -> DefaultQuality
                      [] OTHER           -> First(BoxItems(env, widget))]
           flags == [c.flags EXCEPT !.change_resolution = FALSE]
           p == [sel |-> sel, num |-> c.num, flags |-> flags,
                 tracks |-> <<>>, source |-> "", camera |-> "", camera_setup |-> 0,
                 formats |-> <<>>, format |-> "", setups |-> {}, setup |-> 0,
                 shown |-> {"change_resolution"}]
           area == AreaPicked(p, NamedArea(env))
           quality == QualityPicked(area, sel.quality)
           service == IF type = "stream" THEN ServicePicked(quality, "twitch") ELSE quality
           view == ViewPicked(service, "simple")
<1>1. NewPage(c) = IF type = "screenshot" THEN area ELSE view
  <2>1. NewPage(c) = IF type = "screenshot" THEN area
                     ELSE ViewPicked(IF type = "stream" THEN ServicePicked(QualityPicked(area, sel.quality), "twitch")
                                     ELSE QualityPicked(area, sel.quality), "simple")
    BY Zenon DEF NewPage
  <2> HIDE DEF area, sel
  <2> QED BY <2>1
<1>2. /\ {"area", "quality"} \subseteq Boxes
      /\ type # "screenshot" => "view" \in Boxes
      /\ type = "stream" => "service" \in Boxes
  BY DEF PageTypes, Boxes, ReplayBoxes, RecordBoxes, StreamBoxes, ScreenshotBoxes, CommonBoxes
<1>3. /\ DOMAIN sel = Boxes /\ sel.area = DefaultArea(env)
      /\ type # "screenshot" => sel.view = "simple"
      /\ type = "stream" => sel.service = "twitch"
  <2>1. First(BoxItems(env, "view")) = "simple"
    BY DEF First, BoxItems
  <2>2. First(BoxItems(env, "service")) = "twitch"
    BY ServicesAreKnown
  <2> QED BY <1>2, <2>1, <2>2
<1>4. "change_resolution" \in DOMAIN flags /\ ~flags.change_resolution
  BY DEF IsConfig
<1> HIDE DEF sel, flags
<1>5. /\ DOMAIN p = SettingsFields /\ p.sel = sel /\ p.flags = flags /\ p.tracks = <<>> /\ p.source = ""
      /\ p.shown = {"change_resolution"}
  BY DEF SettingsFields
<1> HIDE DEF p
<1>6. IsSettingsPage(p) /\ WarningsShown(p) /\ CameraShown(p)
  <2>1. AreTracks(<<>>) /\ DOMAIN <<>> = {}
    BY DEF AreTracks, IsList
  <2> QED BY <1>3, <1>4, <1>5, <2>1 DEF IsSettingsPage, WarningsShown, CameraShown
<1>7. /\ IsSettingsPage(area) /\ WarningsShown(area) /\ CameraShown(area) /\ AreaShown(area) /\ ResolutionShown(area)
      /\ area.sel = sel
  <2>1. Touches(area, p, AreaControls) /\ AreaShown(area) /\ ResolutionShown(area)
    <3>1. Names(p, NamedArea(env))
      BY <1>3, <1>4, <1>5, FirstAreaIsPlain DEF DefaultArea, Names
    <3> QED BY <1>6, <3>1, AreaIsPicked
  <2>2. area.sel = sel
    BY <1>5, <2>1 DEF Touches, SameBut, SettingsFields
  <2> QED BY <1>6, <2>1, <2>2, TouchedKeeps DEF AreaControls
<1> HIDE DEF area
<1>8. CASE type = "screenshot"
  BY <1>1, <1>7, <1>8 DEF Good, QualityShown, ViewShown, ServiceShown
<1>9. CASE type # "screenshot"
  <2>1. /\ IsSettingsPage(quality) /\ WarningsShown(quality) /\ CameraShown(quality) /\ AreaShown(quality)
        /\ ResolutionShown(quality) /\ QualityShown(quality) /\ quality.sel = sel
    <3>1. Touches(quality, area, {"bitrate", "file_size"}) /\ QualityShown(quality)
      BY <1>7, QualityIsPicked
    <3>2. quality.sel = sel
      BY <1>7, <3>1 DEF Touches, SameBut, IsSettingsPage, SettingsFields
    <3> QED BY <1>7, <3>1, <3>2, TouchedKeeps
  <2> HIDE DEF quality
  <2>2. /\ IsSettingsPage(service) /\ WarningsShown(service) /\ CameraShown(service) /\ AreaShown(service)
        /\ ResolutionShown(service) /\ QualityShown(service) /\ ServiceShown(service) /\ service.sel = sel
    <3>1. CASE type = "stream"
      <4>1. Touches(service, quality, ServiceControls) /\ ServiceShown(service)
        BY <1>3, <2>1, <3>1, ServiceIsPicked DEF Services
      <4>2. service.sel = sel
        BY <2>1, <4>1 DEF Touches, SameBut, IsSettingsPage, SettingsFields
      <4> HIDE DEF service
      <4> QED BY <2>1, <4>1, <4>2, TouchedKeeps DEF ServiceControls, Services
    <3>2. CASE type # "stream"
      BY <2>1, <3>2 DEF ServiceShown
    <3> QED BY <3>1, <3>2
  <2> HIDE DEF service
  <2>3. Good(view)
    BY <1>3, <1>9, <2>2, ViewIsPicked DEF Good
  <2> QED BY <1>1, <1>9, <2>3
<1> QED BY <1>8, <1>9

\* Loading selects what is kept and runs the handlers of each box.
LEMMA BoxesAreLoaded ==
  ASSUME NEW p, Good(p), NEW c, IsConfig(c), type \in PageTypes
  PROVE  Good(BoxesLoaded(p, c))
<1> DEFINE f == [widget \in Boxes |-> IF Kept(c, widget) THEN c.sel[widget] ELSE p.sel[widget]]
           selected == SelectionsLoaded(p, c)
           area == AreaLoaded(selected, c)
           flagged == [area EXCEPT !.flags = c.flags]
           flags == FlagsLoaded(area, c)
           quality == QualityLoaded(flags, c)
           tracks == TracksLoaded(quality, c.tracks)
           view == ViewLoaded(tracks)
           service == ServiceLoaded(view, c)
<1>1. BoxesLoaded(p, c) = IF type = "screenshot" THEN flags ELSE service
  BY DEF BoxesLoaded
<1>2. /\ {"area", "quality"} \subseteq Boxes
      /\ type = "stream" => "service" \in Boxes
  BY DEF PageTypes, Boxes, ReplayBoxes, RecordBoxes, StreamBoxes, ScreenshotBoxes, CommonBoxes
<1>3. IsSettingsPage(p) /\ DOMAIN p = SettingsFields
  BY DEF Good, IsSettingsPage
<1>4. /\ DOMAIN f = Boxes
      /\ \A widget \in Boxes : f[widget] = IF Kept(c, widget) THEN c.sel[widget] ELSE p.sel[widget]
  OBVIOUS
<1>5. SameBut(selected, p, {"sel"}) /\ selected.sel = f
  BY <1>3 DEF SelectionsLoaded, SameBut, SettingsFields
<1> HIDE DEF f, selected
<1>6. /\ selected.flags = p.flags /\ selected.tracks = p.tracks /\ selected.source = p.source
      /\ selected.shown = p.shown /\ DOMAIN selected = SettingsFields
  BY <1>3, <1>5 DEF SameBut, SettingsFields
<1>7. IsSettingsPage(selected)
  BY <1>3, <1>4, <1>5, <1>6 DEF IsSettingsPage
<1>8. CameraShown(selected) /\ WarningsShown(selected)
  BY <1>6 DEF Good, CameraShown, WarningsShown
<1>9. ~Kept(c, "area") => AreaShown(selected)
  BY <1>2, <1>4, <1>5, <1>6 DEF Good, AreaShown
<1>10. ~Kept(c, "quality") => QualityShown(selected)
  BY <1>2, <1>4, <1>5, <1>6 DEF Good, QualityShown
<1>11. type = "stream" /\ ~Kept(c, "service") => ServiceShown(selected)
  BY <1>2, <1>4, <1>5, <1>6 DEF Good, ServiceShown
<1>12. /\ Kept(c, "area") => f.area = c.sel.area
       /\ Kept(c, "quality") => f.quality = c.sel.quality
       /\ type = "stream" /\ Kept(c, "service") => f.service = c.sel.service /\ f.service \in Services
  <2>1. ASSUME type = "stream", Kept(c, "service") PROVE c.sel.service \in Services
    BY <2>1, ServicesAreKnown DEF Kept, Offers
  <2> QED BY <1>2, <1>4, <2>1
<1> DEFINE Rest(q) == /\ IsSettingsPage(q) /\ q.sel = f /\ CameraShown(q)
                      /\ type = "stream" /\ ~Kept(c, "service") => ServiceShown(q)
<1>13. /\ Rest(area) /\ WarningsShown(area) /\ AreaShown(area)
       /\ ~Kept(c, "quality") => QualityShown(area)
  <2>1. CASE Kept(c, "area")
    <3>1. area = AreaPicked(selected, c.sel.area)
      BY <2>1 DEF AreaLoaded
    <3>2. Touches(area, selected, AreaControls) /\ AreaShown(area)
      BY <1>5, <1>7, <1>12, <2>1, <3>1, AreaIsPicked DEF Names
    <3> HIDE DEF area
    <3>3. area.sel = f
      BY <1>5, <1>6, <3>2 DEF Touches, SameBut, SettingsFields
    <3> QED BY <1>7, <1>8, <1>10, <1>11, <3>2, <3>3, TouchedKeeps DEF AreaControls, Services
  <2>2. CASE ~Kept(c, "area")
    BY <1>5, <1>7, <1>8, <1>9, <1>10, <1>11, <2>2 DEF AreaLoaded
  <2> QED BY <2>1, <2>2
<1> HIDE DEF area
<1>14. SameBut(flagged, area, {"flags"}) /\ flagged.flags = c.flags
  BY <1>13 DEF SameBut, IsSettingsPage, SettingsFields
<1>15. flags = ResolutionChecked(flagged, c.flags.change_resolution)
  BY DEF FlagsLoaded
<1> HIDE DEF flagged
<1>16. /\ Rest(flagged) /\ WarningsShown(flagged) /\ AreaShown(flagged)
       /\ ~Kept(c, "quality") => QualityShown(flagged)
  <2>1. /\ flagged.sel = area.sel /\ flagged.tracks = area.tracks /\ flagged.source = area.source
        /\ flagged.shown = area.shown /\ DOMAIN flagged = SettingsFields
    BY <1>13, <1>14 DEF SameBut, IsSettingsPage, SettingsFields
  <2>2. IsSettingsPage(flagged)
    BY <1>13, <1>14, <2>1 DEF IsSettingsPage, IsConfig
  <2>3. CameraShown(flagged) /\ WarningsShown(flagged) /\ AreaShown(flagged)
    <3>1. AreaShown(flagged)
      BY <1>13, <2>1 DEF AreaShown
    <3> QED BY <1>13, <2>1, <3>1 DEF CameraShown, WarningsShown
  <2>4. ~Kept(c, "quality") => QualityShown(flagged)
    BY <1>13, <2>1 DEF QualityShown
  <2>5. type = "stream" /\ ~Kept(c, "service") => ServiceShown(flagged)
    BY <1>13, <2>1 DEF ServiceShown
  <2> QED BY <1>13, <2>1, <2>2, <2>3, <2>4, <2>5
<1>17. /\ Rest(flags) /\ WarningsShown(flags) /\ AreaShown(flags) /\ ResolutionShown(flags)
       /\ ~Kept(c, "quality") => QualityShown(flags)
  <2>1. Touches(flags, flagged, {"resolution"}) /\ ResolutionShown(flags)
    BY <1>14, <1>15, <1>16, ResolutionIsChecked
  <2> HIDE DEF flags
  <2>2. flags.sel = f
    BY <1>16, <2>1 DEF Touches, SameBut, IsSettingsPage, SettingsFields
  <2> QED BY <1>16, <2>1, <2>2, TouchedKeeps DEF Services
<1> HIDE DEF flags
<1>18. CASE type = "screenshot"
  BY <1>1, <1>17, <1>18 DEF Good, QualityShown, ViewShown, ServiceShown
<1>19. CASE type # "screenshot"
  <2>1. /\ Rest(quality) /\ AreaShown(quality) /\ ResolutionShown(quality) /\ QualityShown(quality)
    <3>1. CASE Kept(c, "quality")
      <4>1. quality = QualityPicked(flags, c.sel.quality)
        BY <3>1 DEF QualityLoaded
      <4>2. Touches(quality, flags, {"bitrate", "file_size"}) /\ QualityShown(quality)
        BY <1>12, <1>17, <3>1, <4>1, QualityIsPicked
      <4> HIDE DEF quality
      <4>3. quality.sel = f
        BY <1>17, <4>2 DEF Touches, SameBut, IsSettingsPage, SettingsFields
      <4> QED BY <1>17, <4>2, <4>3, TouchedKeeps DEF Services
    <3>2. CASE ~Kept(c, "quality")
      BY <1>17, <3>2 DEF QualityLoaded
    <3> QED BY <3>1, <3>2
  <2> HIDE DEF quality
  <2>2. /\ Rest(tracks) /\ AreaShown(tracks) /\ ResolutionShown(tracks) /\ QualityShown(tracks)
        /\ WarningsShown(tracks)
    <3>1. SameBut(tracks, quality, {"tracks"}) /\ AreTracks(tracks.tracks) /\ WarningsShown(tracks)
      BY <2>1, TracksAreLoaded DEF IsConfig
    <3> HIDE DEF tracks
    <3>2. tracks.sel = f
      BY <2>1, <3>1 DEF SameBut, IsSettingsPage, SettingsFields
    <3> QED BY <2>1, <3>1, <3>2, TracksKeep
  <2> HIDE DEF tracks
  <2>3. /\ Rest(view) /\ AreaShown(view) /\ ResolutionShown(view) /\ QualityShown(view)
        /\ WarningsShown(view) /\ ViewShown(view)
    BY <2>2, ViewIsPicked DEF ViewLoaded
  <2> HIDE DEF view
  <2>4. CASE type = "stream" /\ Kept(c, "service")
    <3>1. service = ServicePicked(view, c.sel.service)
      BY <2>4 DEF ServiceLoaded
    <3>2. Touches(service, view, ServiceControls) /\ ServiceShown(service)
      BY <1>12, <2>3, <2>4, <3>1, ServiceIsPicked
    <3> HIDE DEF service
    <3> QED BY <1>1, <1>19, <2>3, <3>2, TouchedKeeps DEF Good, ServiceControls, Services
  <2>5. CASE ~(type = "stream" /\ Kept(c, "service"))
    BY <1>1, <1>19, <2>3, <2>5 DEF Good, ServiceLoaded, ServiceShown
  <2> QED BY <2>4, <2>5
<1> QED BY <1>18, <1>19

\* Numbers are shown as they are rounded.
LEMMA NumbersKeep ==
  ASSUME NEW p, Good(p), NEW num
  PROVE  Good([p EXCEPT !.num = num])
<1> DEFINE q == [p EXCEPT !.num = num]
<1>1. /\ q.sel = p.sel /\ q.flags = p.flags /\ q.tracks = p.tracks /\ q.source = p.source
      /\ q.shown = p.shown /\ DOMAIN q = SettingsFields
  BY DEF Good, IsSettingsPage, SettingsFields
<1> HIDE DEF q
<1>2. IsSettingsPage(q)
  BY <1>1 DEF Good, IsSettingsPage
<1>3. AreaShown(q) /\ ResolutionShown(q)
  BY <1>1 DEF Good, AreaShown, ResolutionShown
<1>4. QualityShown(q) /\ CameraShown(q)
  BY <1>1 DEF Good, QualityShown, CameraShown
<1>5. ViewShown(q) /\ WarningsShown(q) /\ ServiceShown(q)
  BY <1>1 DEF Good, ViewShown, WarningsShown, ServiceShown
<1> QED BY <1>2, <1>3, <1>4, <1>5 DEF Good, q

LEMMA ScreenshotIsLoaded ==
  ASSUME NEW c, IsConfig(c), type \in PageTypes
  PROVE  LET s == LoadedScreenshot(c) IN Good(s.p) /\ IsConfig(s.c) /\ IsLoading(s)
<1> DEFINE num == [f \in DOMAIN c.num |-> LoadedNumber(f, c.num[f])]
           b == BoxesLoaded(NewPage(c), c)
           s == LoadedScreenshot(c)
<1>1. s = [p |-> [b EXCEPT !.num = num], c |-> [c EXCEPT !.num = num]]
  BY DEF LoadedScreenshot
<1>2. Good(b)
  BY NewPageIsGood, BoxesAreLoaded
<1> HIDE DEF num, b
<1>3. Good([b EXCEPT !.num = num])
  BY <1>2, NumbersKeep
<1>4. IsConfig([c EXCEPT !.num = num])
  <2>1. SameBut([c EXCEPT !.num = num], c, {"sel", "num", "camera"})
    BY DEF SameBut, IsConfig, ConfigFields
  <2> QED BY <2>1, ConfigKept
<1>5. s.p = [b EXCEPT !.num = num] /\ s.c = [c EXCEPT !.num = num] /\ DOMAIN s = {"p", "c"}
  BY <1>1
<1> HIDE DEF s
<1>6. Good(s.p) /\ IsConfig(s.c)
  BY <1>3, <1>4, <1>5
<1>7. IsLoading(s)
  BY <1>5, <1>6 DEF Good, IsSettingsPage, IsConfig, IsLoading
<1> QED BY <1>6, <1>7 DEF s

LEMMA PageIsLoaded ==
  ASSUME NEW c, IsConfig(c), type \in PageTypes
  PROVE  Good(Loaded(c).p) /\ IsConfig(Loaded(c).c)
<1> DEFINE OK(s) == Good(s.p) /\ IsConfig(s.c) /\ IsLoading(s)
<1>1. CASE type = "screenshot"
  BY <1>1, ScreenshotIsLoaded DEF Loaded
<1>2. CASE type # "screenshot"
  <2> DEFINE d == OfferedService(c)
             s == LoadedScreenshot(d)
             source == SourceLoaded(s)
             format == FormatLoaded(source)
             setup == SetupLoaded(format, d.camera.setup)
  <2>1. Loaded(c) = setup
    BY <1>2 DEF Loaded, LoadedVideo
  <2>2. IsConfig(d)
    <3>1. SameBut(d, c, {"sel", "num", "camera"})
      BY DEF OfferedService, SameBut, IsConfig, ConfigFields
    <3> QED BY <3>1, ConfigKept
  <2> HIDE DEF d
  <2>3. OK(s)
    BY <2>2, ScreenshotIsLoaded
  <2> HIDE DEF s
  <2>4. OK(source)
    BY <2>3, SourceKeepsPage DEF SourceLoaded
  <2> HIDE DEF source
  <2>5. OK(format)
    <3>1. CameraOnly(FormatPicked(source, source.c.camera.format), source, SetupFields)
      BY <2>4, FormatIsPicked
    <3>2. OK(FormatPicked(source, source.c.camera.format))
      BY <2>4, <3>1, CameraKeepsPage
    <3> QED BY <2>4, <3>2 DEF FormatLoaded
  <2> HIDE DEF format
  <2>6. OK(setup)
    <3>1. CameraOnly(SetupPicked(format, d.camera.setup), format, SetupFields)
      BY <2>5, SetupIsPicked
    <3>2. OK(SetupPicked(format, d.camera.setup))
      BY <2>5, <3>1, CameraKeepsPage
    <3> QED BY <2>5, <3>2 DEF SetupLoaded
  <2> QED BY <2>1, <2>6
<1> QED BY <1>1, <1>2

-----------------------------------------------------------------------------
(* Saving. *)

LEMMA PageIsSaved ==
  ASSUME NEW p, Good(p), NEW c, IsConfig(c)
  PROVE  IsConfig(Saved(p, c))
<1> DEFINE num == [f \in DOMAIN p.num |-> SavedNumber(f, p.num[f])]
           s == SavedScreenshot(p, c)
           ts == SavedTracks(p)
           v == [s EXCEPT !.tracks = ts, !.camera.source = p.source]
<1>1. s = [c EXCEPT !.sel = p.sel, !.flags = p.flags, !.num = num]
  BY DEF SavedScreenshot
<1> HIDE DEF num, s, ts
<1>2. DOMAIN s = ConfigFields /\ s.flags = p.flags /\ s.tracks = c.tracks
  BY <1>1 DEF IsConfig, ConfigFields
<1>3. IsConfig(s)
  BY <1>2 DEF IsConfig, Good, IsSettingsPage
<1>4. IsList(ts) /\ \A i \in DOMAIN ts : IsList(ts[i].inputs)
  <2>1. IsList(p.tracks) /\ \A i \in DOMAIN p.tracks : IsList(p.tracks[i].rows)
    BY DEF Good, IsSettingsPage, AreTracks, IsTrack
  <2>2. DOMAIN p.tracks = 1..Len(p.tracks) /\ Len(p.tracks) \in Nat
    BY <2>1, ListIsFunction
  <2> DEFINE Input(row) == [kind |-> IF row.kind \in {"app", "custom"} THEN "app" ELSE "device", id |-> row.id]
             In(t) == [j \in DOMAIN t.rows |-> Input(t.rows[j])]
  <2>3. ts = [i \in DOMAIN p.tracks |-> [invert |-> p.tracks[i].invert, inputs |-> In(p.tracks[i])]]
    BY DEF SavedTracks, ts
  <2>4. ASSUME NEW i \in DOMAIN p.tracks PROVE IsList(In(p.tracks[i]))
    <3>1. DOMAIN p.tracks[i].rows = 1..Len(p.tracks[i].rows) /\ Len(p.tracks[i].rows) \in Nat
      BY <2>1, ListIsFunction
    <3> HIDE DEF Input
    <3> QED BY <3>1, FunctionIsList
  <2> HIDE DEF In, Input
  <2>5. IsList(ts) /\ DOMAIN ts = DOMAIN p.tracks
    <3>1. ts = [i \in 1..Len(p.tracks) |-> ts[i]] /\ DOMAIN ts = DOMAIN p.tracks
      BY <2>2, <2>3
    <3> QED BY <2>2, <3>1, FunctionIsList
  <2>6. ASSUME NEW i \in DOMAIN ts PROVE IsList(ts[i].inputs)
    BY <2>3, <2>4, <2>5
  <2> QED BY <2>5, <2>6
<1>5. IsConfig(v)
  <2>1. DOMAIN v = ConfigFields /\ v.flags = p.flags /\ v.tracks = ts
    BY <1>2 DEF ConfigFields
  <2> HIDE DEF v
  <2> QED BY <1>3, <1>4, <2>1, <1>2 DEF IsConfig
<1>6. Saved(p, c) \in {s, v}
  BY DEF Saved, SavedVideo, s, ts
<1> QED BY <1>3, <1>5, <1>6

-----------------------------------------------------------------------------
(* Edits of the tracks. *)

\* One track is replaced by t, which offers applications as it did.
LEMMA TrackIsReplaced ==
  ASSUME NEW p, Good(p), NEW i \in DOMAIN p.tracks, NEW t, IsTrack(t),
         t.app_options = p.tracks[i].app_options,
         NEW q, q = [p EXCEPT !.tracks[i] = t]
  PROVE  /\ SameBut(q, p, {"tracks"}) /\ AreTracks(q.tracks) /\ ViewShown(q)
         /\ (t.warning <=> Warned(t)) => WarningsShown(q)
<1> DEFINE ts == [p.tracks EXCEPT ![i] = t]
<1>1. SameBut(q, p, {"tracks"}) /\ q.tracks = ts /\ q.sel = p.sel /\ q.shown = p.shown
  BY DEF SameBut, Good, IsSettingsPage, SettingsFields
<1>2. AreTracks(p.tracks)
  BY DEF Good, IsSettingsPage
<1>3. /\ DOMAIN ts = DOMAIN p.tracks /\ ts[i] = t
      /\ \A j \in DOMAIN p.tracks : j # i => ts[j] = p.tracks[j]
  OBVIOUS
<1>4. IsList(ts)
  <2>1. DOMAIN p.tracks = 1..Len(p.tracks) /\ Len(p.tracks) \in Nat
    BY <1>2, ListIsFunction DEF AreTracks
  <2>2. ts = [j \in 1..Len(p.tracks) |-> ts[j]]
    BY <2>1
  <2> HIDE DEF ts
  <2> QED BY <2>1, <2>2, FunctionIsList
<1> HIDE DEF ts
<1>5. AreTracks(ts)
  BY <1>2, <1>3, <1>4 DEF AreTracks
<1>6. ViewShown(q)
  BY <1>1, <1>3 DEF ViewShown, Good
<1>7. (t.warning <=> Warned(t)) => WarningsShown(q)
  BY <1>1, <1>3 DEF WarningsShown, Good
<1> QED BY <1>1, <1>5, <1>6, <1>7

\* Such a page is good when its warnings are, or are updated.
LEMMA ReplacedIsGood ==
  ASSUME NEW p, Good(p), NEW q, SameBut(q, p, {"tracks"}), AreTracks(q.tracks), ViewShown(q)
  PROVE  /\ WarningsShown(q) => Good(q)
         /\ Good(WarningsUpdated(q))
<1>1. /\ IsSettingsPage(q) /\ AreaShown(q) /\ ResolutionShown(q) /\ QualityShown(q) /\ CameraShown(q)
      /\ ServiceShown(q)
  BY TracksKeep DEF Good
<1> DEFINE w == WarningsUpdated(q)
<1>2. SameBut(w, q, {"tracks"}) /\ AreTracks(w.tracks) /\ WarningsShown(w) /\ ViewShown(w)
  BY <1>1, WarningsAreUpdated
<1> HIDE DEF w
<1>3. /\ IsSettingsPage(w) /\ AreaShown(w) /\ ResolutionShown(w) /\ QualityShown(w) /\ CameraShown(w)
      /\ ServiceShown(w)
  BY <1>1, <1>2, TracksKeep
<1> QED BY <1>1, <1>2, <1>3 DEF Good, w

\* The rows of a track are replaced.
LEMMA RowsAreReplaced ==
  ASSUME NEW i \in DOMAIN page.tracks, Good(page), NEW rows, IsList(rows),
         \A j \in DOMAIN rows : DOMAIN rows[j] = {"kind", "id"}
  PROVE  LET old == page.tracks[i].rows
         IN  /\ Good(WarningsUpdated(WithRows(i, rows)))
             /\ /\ (\E j \in DOMAIN rows : rows[j].kind = "output") <=>
                      (\E j \in DOMAIN old : old[j].kind = "output")
                /\ (\E j \in DOMAIN rows : rows[j].kind \in {"app", "custom"}) <=>
                      (\E j \in DOMAIN old : old[j].kind \in {"app", "custom"})
                => Good(WithRows(i, rows))
<1> DEFINE old == page.tracks[i].rows
           t == [page.tracks[i] EXCEPT !.rows = rows]
           q == WithRows(i, rows)
<1>1. IsTrack(page.tracks[i]) /\ WarningsShown(page)
  BY DEF Good, IsSettingsPage, AreTracks
<1>2. /\ IsTrack(t) /\ t.rows = rows /\ t.invert = page.tracks[i].invert
      /\ t.warning = page.tracks[i].warning /\ t.app_options = page.tracks[i].app_options
  BY <1>1 DEF IsTrack
<1>3. q = [page EXCEPT !.tracks[i] = t]
  BY DEF WithRows
<1> HIDE DEF t, q
<1>4. /\ SameBut(q, page, {"tracks"}) /\ AreTracks(q.tracks) /\ ViewShown(q)
      /\ (t.warning <=> Warned(t)) => WarningsShown(q)
  BY <1>2, <1>3, TrackIsReplaced
<1>5. ASSUME /\ (\E j \in DOMAIN rows : rows[j].kind = "output") <=>
                  (\E j \in DOMAIN old : old[j].kind = "output"),
             /\ (\E j \in DOMAIN rows : rows[j].kind \in {"app", "custom"}) <=>
                  (\E j \in DOMAIN old : old[j].kind \in {"app", "custom"})
      PROVE  t.warning <=> Warned(t)
  <2>1. page.tracks[i].warning <=> Warned(page.tracks[i])
    BY <1>1 DEF WarningsShown
  <2> QED BY <1>2, <1>5, <2>1 DEF Warned
<1>6. Good(WarningsUpdated(q)) /\ (WarningsShown(q) => Good(q))
  BY <1>4, ReplacedIsGood
<1> QED BY <1>4, <1>5, <1>6 DEF q

LEMMA TracksAreEdited ==
  ASSUME SettingsInv, EditTracks
  PROVE  page # NoPage /\ Good(page') /\ config' = config /\ UNCHANGED <<type, env>>
<1>1. ASSUME NEW p, EditedPage(p)
      PROVE  page' = p /\ config' = config /\ UNCHANGED <<type, env>>
  BY <1>1 DEF EditedPage, Edited, Current
<1>2. page # NoPage
  BY DEF EditTracks, AddTrack
<1>3. Good(page) /\ AreTracks(page.tracks)
  BY <1>2 DEF SettingsInv, Good, IsSettingsPage
<1>4. CASE AddTrack
  <2> DEFINE t == NewTrack(page)
             ts == Append(page.tracks, t)
             q == [page EXCEPT !.tracks = ts]
  <2>1. EditedPage(q)
    BY <1>4 DEF AddTrack
  <2>2. IsTrack(t) /\ t.rows = <<>> /\ (t.app_options <=> page.sel.view = "advanced" /\ env.app_audio)
    BY NewTrackIsTrack
  <2>3. ~t.warning /\ ~Warned(t)
    BY <2>2 DEF NewTrack, Warned
  <2> HIDE DEF t
  <2>4. /\ IsList(ts) /\ DOMAIN ts = 1..Len(page.tracks) + 1 /\ ts[Len(page.tracks) + 1] = t
        /\ DOMAIN page.tracks = 1..Len(page.tracks) /\ Len(page.tracks) \in Nat
        /\ \A k \in DOMAIN page.tracks : ts[k] = page.tracks[k]
    BY <1>3, AppendIsList, ListIsFunction DEF AreTracks
  <2> HIDE DEF ts
  <2>5. \A k \in DOMAIN ts : k \in DOMAIN page.tracks \/ ts[k] = t
    BY <2>4
  <2>6. SameBut(q, page, {"tracks"}) /\ q.tracks = ts /\ q.sel = page.sel /\ q.shown = page.shown
    BY <1>3 DEF SameBut, Good, IsSettingsPage, SettingsFields
  <2> HIDE DEF q
  <2>7. AreTracks(ts)
    BY <1>3, <2>2, <2>4, <2>5 DEF AreTracks
  <2>8. ViewShown(q)
    BY <1>3, <2>2, <2>4, <2>5, <2>6 DEF ViewShown, Good
  <2>9. WarningsShown(q)
    BY <1>3, <2>3, <2>4, <2>5, <2>6 DEF WarningsShown, Good
  <2>10. Good(q)
    BY <1>3, <2>6, <2>7, <2>8, <2>9, ReplacedIsGood
  <2> QED BY <1>1, <1>2, <2>1, <2>10
<1>5. ASSUME NEW i \in DOMAIN page.tracks, RemoveTrack(i)
      PROVE  Good(page') /\ config' = config /\ UNCHANGED <<type, env>>
  <2> DEFINE ts == RemoveAt(page.tracks, i)
             q == [page EXCEPT !.tracks = ts]
  <2>1. EditedPage(q)
    BY <1>5 DEF RemoveTrack
  <2>2. IsList(ts) /\ \A k \in DOMAIN ts : \E j \in DOMAIN page.tracks : ts[k] = page.tracks[j]
    BY <1>3, RemovedIsList DEF AreTracks
  <2> HIDE DEF ts
  <2>3. SameBut(q, page, {"tracks"}) /\ q.tracks = ts /\ q.sel = page.sel /\ q.shown = page.shown
    BY <1>3 DEF SameBut, Good, IsSettingsPage, SettingsFields
  <2> HIDE DEF q
  <2>4. AreTracks(ts)
    BY <1>3, <2>2 DEF AreTracks
  <2>5. ViewShown(q)
    BY <1>3, <2>2, <2>3 DEF ViewShown, Good
  <2>6. WarningsShown(q)
    BY <1>3, <2>2, <2>3 DEF WarningsShown, Good
  <2>7. Good(q)
    BY <1>3, <2>3, <2>4, <2>5, <2>6, ReplacedIsGood
  <2> QED BY <1>1, <2>1, <2>7
<1>6. ASSUME NEW i \in DOMAIN page.tracks,
             \/ AddOutput(i) \/ AddInput(i) \/ AddApp(i)
             \/ \E j \in DOMAIN page.tracks[i].rows : RemoveRow(i, j) \/ PickCustom(i, j)
                  \/ \E id \in ToSet(env.outputs) \cup ToSet(env.inputs) : PickDevice(i, j, id)
      PROVE  Good(page') /\ config' = config /\ UNCHANGED <<type, env>>
  <2> DEFINE old == page.tracks[i].rows
  <2>1. IsList(old) /\ \A j \in DOMAIN old : DOMAIN old[j] = {"kind", "id"}
    BY <1>3 DEF AreTracks, IsTrack
  <2>2. DOMAIN old = 1..Len(old) /\ Len(old) \in Nat
    BY <2>1, ListIsFunction
  <2>3. ASSUME NEW row, DOMAIN row = {"kind", "id"}
        PROVE  /\ IsList(Append(old, row)) /\ \A j \in DOMAIN Append(old, row) : DOMAIN Append(old, row)[j] = {"kind", "id"}
               /\ \A j \in DOMAIN Append(old, row) : j \in DOMAIN old \/ Append(old, row)[j] = row
               /\ \A j \in DOMAIN old : j \in DOMAIN Append(old, row) /\ Append(old, row)[j] = old[j]
    <3> DEFINE r == Append(old, row)
    <3>1. /\ IsList(r) /\ DOMAIN r = 1..Len(old) + 1 /\ r[Len(old) + 1] = row
          /\ \A k \in DOMAIN old : r[k] = old[k]
      BY <2>1, AppendIsList
    <3> HIDE DEF r, old
    <3>2. \A j \in DOMAIN r : j \in DOMAIN old \/ r[j] = row
      BY <2>2, <3>1
    <3>3. \A j \in DOMAIN old : j \in DOMAIN r
      BY <2>2, <3>1
    <3> QED BY <2>1, <2>3, <3>1, <3>2, <3>3 DEF r
  <2>4. CASE AddOutput(i)
    <3> DEFINE r == Append(old, DeviceRow("output"))
    <3>1. EditedPage(WarningsUpdated(WithRows(i, r)))
      BY <2>4 DEF AddOutput
    <3>2. IsList(r) /\ \A j \in DOMAIN r : DOMAIN r[j] = {"kind", "id"}
      BY <2>3, RowsHaveKinds
    <3> HIDE DEF r
    <3> QED BY <1>1, <1>3, <3>1, <3>2, RowsAreReplaced
  <2>5. CASE AddApp(i)
    <3> DEFINE r == Append(old, AppRow)
    <3>1. EditedPage(WarningsUpdated(WithRows(i, r)))
      BY <2>5 DEF AddApp
    <3>2. IsList(r) /\ \A j \in DOMAIN r : DOMAIN r[j] = {"kind", "id"}
      BY <2>3, RowsHaveKinds
    <3> HIDE DEF r
    <3> QED BY <1>1, <1>3, <3>1, <3>2, RowsAreReplaced
  <2>6. CASE AddInput(i)
    <3> DEFINE row == DeviceRow("input")
               r == Append(old, row)
    <3>1. EditedPage(WithRows(i, r))
      BY <2>6 DEF AddInput
    <3>2. DOMAIN row = {"kind", "id"} /\ row.kind = "input"
      BY RowsHaveKinds
    <3> HIDE DEF row
    <3>3. /\ IsList(r) /\ \A j \in DOMAIN r : DOMAIN r[j] = {"kind", "id"}
          /\ \A j \in DOMAIN r : j \in DOMAIN old \/ r[j] = row
          /\ \A j \in DOMAIN old : j \in DOMAIN r /\ r[j] = old[j]
      BY <2>3, <3>2
    <3> HIDE DEF r
    <3>4. (\E j \in DOMAIN r : r[j].kind = "output") <=> (\E j \in DOMAIN old : old[j].kind = "output")
      BY <3>2, <3>3
    <3>5. /\ (\E j \in DOMAIN r : r[j].kind \in {"app", "custom"}) <=>
              (\E j \in DOMAIN old : old[j].kind \in {"app", "custom"})
      BY <3>2, <3>3
    <3> QED BY <1>1, <1>3, <3>1, <3>3, <3>4, <3>5, RowsAreReplaced
  <2>7. ASSUME NEW j \in DOMAIN old, RemoveRow(i, j)
        PROVE  Good(page') /\ config' = config /\ UNCHANGED <<type, env>>
    <3> DEFINE r == RemoveAt(old, j)
    <3>1. EditedPage(WarningsUpdated(WithRows(i, r)))
      BY <2>7 DEF RemoveRow
    <3>2. IsList(r) /\ \A k \in DOMAIN r : DOMAIN r[k] = {"kind", "id"}
      <4>1. IsList(r) /\ \A k \in DOMAIN r : \E l \in DOMAIN old : r[k] = old[l]
        BY <2>1, RemovedIsList
      <4> HIDE DEF r, old
      <4> QED BY <2>1, <4>1
    <3> HIDE DEF r
    <3> QED BY <1>1, <1>3, <3>1, <3>2, RowsAreReplaced
  <2>8. ASSUME NEW j \in DOMAIN old, NEW row, DOMAIN row = {"kind", "id"}, EditedPage(WithRows(i, [old EXCEPT ![j] = row])),
               \/ row.kind = old[j].kind
               \/ row.kind = "custom" /\ old[j].kind = "app"
        PROVE  Good(page') /\ config' = config /\ UNCHANGED <<type, env>>
    <3> DEFINE r == [old EXCEPT ![j] = row]
    <3>1. DOMAIN r = DOMAIN old /\ r[j] = row /\ \A k \in DOMAIN old : k # j => r[k] = old[k]
      OBVIOUS
    <3>2. IsList(r)
      <4>1. r = [k \in 1..Len(old) |-> r[k]]
        BY <2>2
      <4> HIDE DEF r, old
      <4> QED BY <2>2, <4>1, FunctionIsList
    <3> HIDE DEF r
    <3>3. \A k \in DOMAIN r : DOMAIN r[k] = {"kind", "id"}
      BY <2>1, <2>8, <3>1
    <3>4. (\E k \in DOMAIN r : r[k].kind = "output") <=> (\E k \in DOMAIN old : old[k].kind = "output")
      BY <2>8, <3>1
    <3>5. /\ (\E k \in DOMAIN r : r[k].kind \in {"app", "custom"}) <=>
              (\E k \in DOMAIN old : old[k].kind \in {"app", "custom"})
      BY <2>8, <3>1
    <3>6. Good(WithRows(i, r))
      BY <1>3, <3>2, <3>3, <3>4, <3>5, RowsAreReplaced
    <3> QED BY <1>1, <2>8, <3>6 DEF r
  <2>9. ASSUME NEW j \in DOMAIN old, PickCustom(i, j)
        PROVE  Good(page') /\ config' = config /\ UNCHANGED <<type, env>>
    <3> DEFINE row == [kind |-> "custom", id |-> ""]
    <3>1. EditedPage(WithRows(i, [old EXCEPT ![j] = row])) /\ old[j].kind = "app"
      BY <2>9 DEF PickCustom
    <3>2. DOMAIN row = {"kind", "id"} /\ row.kind = "custom"
      OBVIOUS
    <3> HIDE DEF row, old
    <3> QED BY <2>8, <3>1, <3>2
  <2>10. ASSUME NEW j \in DOMAIN old, NEW id, PickDevice(i, j, id)
        PROVE  Good(page') /\ config' = config /\ UNCHANGED <<type, env>>
    <3> DEFINE row == [old[j] EXCEPT !.id = id]
    <3>1. EditedPage(WithRows(i, [old EXCEPT ![j] = row]))
      BY <2>10 DEF PickDevice
    <3>2. DOMAIN row = {"kind", "id"} /\ row.kind = old[j].kind
      BY <2>1
    <3> HIDE DEF row, old
    <3> QED BY <2>8, <3>1, <3>2
  <2> HIDE DEF old
  <2> QED BY <1>6, <2>4, <2>5, <2>6, <2>7, <2>9, <2>10 DEF old
<1>7. ASSUME NEW i \in DOMAIN page.tracks, Invert(i)
      PROVE  Good(page') /\ config' = config /\ UNCHANGED <<type, env>>
  <2> DEFINE t == [page.tracks[i] EXCEPT !.invert = ~@]
             q == [page EXCEPT !.tracks[i].invert = ~@]
  <2>1. EditedPage(WarningsUpdated(q))
    BY <1>7 DEF Invert
  <2>2. IsTrack(page.tracks[i])
    BY <1>3 DEF AreTracks
  <2>3. IsTrack(t) /\ t.app_options = page.tracks[i].app_options
    BY <2>2 DEF IsTrack
  <2>4. q = [page EXCEPT !.tracks[i] = t]
    OBVIOUS
  <2> HIDE DEF t, q
  <2>5. SameBut(q, page, {"tracks"}) /\ AreTracks(q.tracks) /\ ViewShown(q)
    BY <1>3, <2>3, <2>4, TrackIsReplaced
  <2>6. Good(WarningsUpdated(q))
    BY <1>3, <2>5, ReplacedIsGood
  <2> QED BY <1>1, <2>1, <2>6
<1> QED BY <1>2, <1>4, <1>5, <1>6, <1>7 DEF EditTracks

-----------------------------------------------------------------------------
(* The other steps. *)

\* An item is selected, and the box's handler has run.
LEMMA ItemIsPicked ==
  ASSUME SettingsInv, NEW widget \in Boxes, NEW id \in ToSet(BoxItems(env, widget)), Pick(widget, id)
  PROVE  Good(page') /\ config' = config /\ UNCHANGED <<type, env>>
<1> DEFINE p == [page EXCEPT !.sel[widget] = id]
           q == CASE widget = "area"    -> AreaPicked(p, id)
                  [] widget = "quality" /\ type # "screenshot" -> QualityPicked(p, id)
                  [] widget = "service" -> ServicePicked(p, id)
                  [] widget = "view"    -> ViewPicked(p, id)
                  [] OTHER -> p
<1>1. page # NoPage /\ EditedPage(q)
  BY DEF Pick
<1>2. Good(page)
  BY <1>1 DEF SettingsInv
<1>3. page' = q /\ config' = config /\ UNCHANGED <<type, env>>
  BY <1>1 DEF EditedPage, Edited, Current
<1>4. SameBut(p, page, {"sel"}) /\ DOMAIN p.sel = Boxes /\ p.sel[widget] = id
      /\ \A b \in Boxes : b # widget => p.sel[b] = page.sel[b]
  BY <1>2 DEF SameBut, Good, IsSettingsPage, SettingsFields
<1>5. /\ {"area", "quality"} \subseteq Boxes
      /\ type # "screenshot" => "view" \in Boxes
      /\ type = "stream" <=> "service" \in Boxes
      /\ type = "screenshot" => "view" \notin Boxes
  BY DEF SettingsInv, PageTypes, Boxes, ReplayBoxes, RecordBoxes, StreamBoxes, ScreenshotBoxes, CommonBoxes
<1> HIDE DEF p
<1>6. /\ p.flags = page.flags /\ p.tracks = page.tracks /\ p.source = page.source /\ p.shown = page.shown
      /\ DOMAIN p = SettingsFields
  BY <1>2, <1>4 DEF SameBut, Good, IsSettingsPage, SettingsFields
<1>7. IsSettingsPage(p) /\ WarningsShown(p) /\ CameraShown(p)
  BY <1>2, <1>4, <1>6 DEF Good, IsSettingsPage, WarningsShown, CameraShown
<1>8. widget # "area" => AreaShown(p) /\ ResolutionShown(p)
  BY <1>2, <1>4, <1>5, <1>6 DEF Good, AreaShown, ResolutionShown
<1>9. widget # "quality" => QualityShown(p)
  BY <1>2, <1>4, <1>5, <1>6 DEF Good, QualityShown
<1>10. widget # "view" => ViewShown(p)
  BY <1>2, <1>4, <1>5, <1>6 DEF Good, ViewShown
<1>11. widget # "service" => ServiceShown(p)
  BY <1>2, <1>4, <1>5, <1>6 DEF Good, ServiceShown
<1>12. CASE widget = "area"
  <2>1. q = AreaPicked(p, id)
    BY <1>12
  <2>2. Touches(q, p, AreaControls) /\ AreaShown(q) /\ ResolutionShown(q)
    BY <1>4, <1>7, <1>12, <2>1, AreaIsPicked DEF Names
  <2> HIDE DEF q
  <2> QED BY <1>3, <1>7, <1>9, <1>10, <1>11, <1>12, <2>2, TouchedKeeps DEF Good, AreaControls, Services
<1>13. CASE widget = "quality" /\ type # "screenshot"
  <2>1. q = QualityPicked(p, id)
    BY <1>13
  <2>2. Touches(q, p, {"bitrate", "file_size"}) /\ QualityShown(q)
    BY <1>4, <1>7, <1>13, <2>1, QualityIsPicked
  <2> HIDE DEF q
  <2> QED BY <1>3, <1>7, <1>8, <1>10, <1>11, <1>13, <2>2, TouchedKeeps DEF Good, Services
<1>14. CASE widget = "service"
  <2>1. q = ServicePicked(p, id)
    BY <1>14
  <2>2. id \in Services
    BY <1>14, ServicesAreKnown
  <2>3. Touches(q, p, ServiceControls) /\ ServiceShown(q)
    BY <1>4, <1>7, <1>14, <2>1, <2>2, ServiceIsPicked
  <2> HIDE DEF q
  <2> QED BY <1>3, <1>7, <1>8, <1>9, <1>10, <1>14, <2>3, TouchedKeeps DEF Good, ServiceControls, Services
<1>15. CASE widget = "view"
  <2>1. q = ViewPicked(p, id)
    BY <1>15
  <2> HIDE DEF q
  <2> QED BY <1>3, <1>4, <1>7, <1>8, <1>9, <1>11, <1>15, <2>1, ViewIsPicked DEF Good
<1>16. CASE widget \notin {"area", "service", "view"} /\ ~(widget = "quality" /\ type # "screenshot")
  <2>1. q = p
    BY <1>16
  <2>2. QualityShown(p)
    BY <1>9, <1>16 DEF QualityShown
  <2> HIDE DEF q
  <2> QED BY <1>3, <1>7, <1>8, <1>10, <1>11, <1>16, <2>1, <2>2 DEF Good
<1> QED BY <1>12, <1>13, <1>14, <1>15, <1>16

LEMMA FlagIsToggled ==
  ASSUME SettingsInv, NEW flag, Toggle(flag)
  PROVE  Good(page') /\ config' = config /\ UNCHANGED <<type, env>>
<1> DEFINE p == [page EXCEPT !.flags[flag] = ~@]
           q == IF flag = "change_resolution" THEN ResolutionChecked(p, p.flags[flag]) ELSE p
<1>1. page # NoPage /\ EditedPage(q)
  BY DEF Toggle
<1>2. Good(page)
  BY <1>1 DEF SettingsInv
<1>3. page' = q /\ config' = config /\ UNCHANGED <<type, env>>
  BY <1>1 DEF EditedPage, Edited, Current
<1>4. /\ p.sel = page.sel /\ p.tracks = page.tracks /\ p.source = page.source /\ p.shown = page.shown
      /\ DOMAIN p = SettingsFields /\ DOMAIN p.flags = DOMAIN page.flags
      /\ flag # "change_resolution" => p.flags.change_resolution = page.flags.change_resolution
  BY <1>2 DEF Good, IsSettingsPage, SettingsFields
<1> HIDE DEF p
<1>5. IsSettingsPage(p) /\ WarningsShown(p) /\ CameraShown(p)
  BY <1>2, <1>4 DEF Good, IsSettingsPage, WarningsShown, CameraShown
<1>6. AreaShown(p) /\ QualityShown(p)
  BY <1>2, <1>4 DEF Good, AreaShown, QualityShown
<1>7. ViewShown(p) /\ ServiceShown(p)
  BY <1>2, <1>4 DEF Good, ViewShown, ServiceShown
<1>8. CASE flag = "change_resolution"
  <2>1. q = ResolutionChecked(p, p.flags.change_resolution)
    BY <1>8
  <2>2. Touches(q, p, {"resolution"}) /\ ResolutionShown(q)
    BY <1>5, <2>1, ResolutionIsChecked
  <2> HIDE DEF q
  <2> QED BY <1>3, <1>5, <1>6, <1>7, <2>2, TouchedKeeps DEF Good, Services
<1>9. CASE flag # "change_resolution"
  <2>1. q = p
    BY <1>9
  <2>2. ResolutionShown(p)
    BY <1>2, <1>4, <1>9 DEF Good, ResolutionShown
  <2> HIDE DEF q
  <2> QED BY <1>3, <1>5, <1>6, <1>7, <2>1, <2>2 DEF Good
<1> QED BY <1>8, <1>9

LEMMA NumberIsTyped ==
  ASSUME SettingsInv, NEW field, NEW n, TypeNumber(field, n)
  PROVE  Good(page') /\ config' = config /\ UNCHANGED <<type, env>>
<1> DEFINE num == [page.num EXCEPT ![field] = IF n > Most[field] THEN Most[field] ELSE n]
           q == [page EXCEPT !.num = num]
<1>1. page # NoPage /\ EditedPage(q)
  BY DEF TypeNumber
<1>2. Good(page)
  BY <1>1 DEF SettingsInv
<1>3. page' = q /\ config' = config /\ UNCHANGED <<type, env>>
  BY <1>1 DEF EditedPage, Edited, Current
<1> HIDE DEF num
<1> QED BY <1>2, <1>3, NumbersKeep

LEMMA CameraIsEdited ==
  ASSUME SettingsInv, EditCamera
  PROVE  Good(page') /\ IsConfig(config') /\ UNCHANGED <<type, env>>
<1>1. page # NoPage
  BY DEF EditCamera
<1>2. Good(page) /\ IsConfig(config)
  BY <1>1 DEF SettingsInv
<1>3. Current.p = page /\ Current.c = config /\ IsLoading(Current)
  BY <1>2 DEF Current, IsLoading, Good, IsSettingsPage, IsConfig
<1>4. ASSUME NEW q, Edited(q)
      PROVE  page' = q.p /\ config' = q.c /\ UNCHANGED <<type, env>>
  BY <1>4 DEF Edited
<1>5. ASSUME NEW source, PickSource(source)
      PROVE  Good(page') /\ IsConfig(config') /\ UNCHANGED <<type, env>>
  BY <1>2, <1>3, <1>4, <1>5, SourceKeepsPage DEF PickSource
<1>6. ASSUME NEW format, PickFormat(format)
      PROVE  Good(page') /\ IsConfig(config') /\ UNCHANGED <<type, env>>
  BY <1>2, <1>3, <1>4, <1>6, FormatIsPicked, CameraKeepsPage DEF PickFormat
<1>7. ASSUME NEW setup, PickSetup(setup)
      PROVE  Good(page') /\ IsConfig(config') /\ UNCHANGED <<type, env>>
  BY <1>2, <1>3, <1>4, <1>7, SetupIsPicked, CameraKeepsPage DEF PickSetup
<1> QED BY <1>5, <1>6, <1>7 DEF EditCamera

\* What is good stays good while the page's type and the system stay.
LEMMA GoodPrimed ==
  ASSUME UNCHANGED <<type, env>>, Good(page')
  PROVE  Good(page)'
<1>1. IsSettingsPage(page)'
  BY DEF Good, IsSettingsPage, AreTracks, IsTrack, Boxes
<1>2. AreaShown(page)' /\ ResolutionShown(page)'
  BY DEF Good, AreaShown, ResolutionShown
<1>3. QualityShown(page)' /\ CameraShown(page)'
  BY DEF Good, QualityShown, CameraShown
<1>4. ViewShown(page)' /\ WarningsShown(page)' /\ ServiceShown(page)'
  BY DEF Good, ViewShown, WarningsShown, ServiceShown, Warned
<1> QED BY <1>1, <1>2, <1>3, <1>4 DEF Good

LEMMA SettingsStart == SettingsInit => SettingsInv
<1> SUFFICES ASSUME SettingsInit PROVE SettingsInv
  OBVIOUS
<1>1. type \in PageTypes /\ config \in Configs(type) /\ type \in Types /\ page = NoPage
  BY SettingsAssumption DEF SettingsInit, PageTypes
<1>2. /\ DOMAIN config = ConfigFields /\ "change_resolution" \in DOMAIN config.flags
      /\ config.tracks \in Seq(ToSet(config.tracks))
      /\ \A track \in ToSet(config.tracks) : track.inputs \in Seq(ToSet(track.inputs))
  BY <1>1, SettingsAssumption DEF ConfigFields
<1>3. \A i \in DOMAIN config.tracks : IsList(config.tracks[i].inputs)
  BY <1>2 DEF ToSet, IsList
<1> QED BY <1>1, <1>2, <1>3 DEF SettingsInv, IsConfig, IsList

LEMMA SettingsStep == SettingsInv /\ [SettingsNext]_settingsVars => SettingsInv'
<1> SUFFICES ASSUME SettingsInv, [SettingsNext]_settingsVars PROVE SettingsInv'
  OBVIOUS
<1>1. ASSUME Good(page'), IsConfig(config'), UNCHANGED <<type, env>> PROVE SettingsInv'
  BY <1>1, GoodPrimed DEF SettingsInv, IsConfig, IsList
<1>2. CASE SystemChanges
  BY <1>2 DEF SystemChanges, SettingsInv, IsConfig, IsList
<1>3. CASE Open
  <2>1. type \in PageTypes /\ IsConfig(config)
    BY DEF SettingsInv
  <2>2. page' = Loaded(config).p /\ config' = Loaded(config).c /\ UNCHANGED <<type, env>>
    BY <1>3 DEF Open
  <2> QED BY <1>1, <2>1, <2>2, PageIsLoaded
<1>4. CASE Close
  <2>1. Good(page) /\ IsConfig(config)
    BY <1>4 DEF Close, SettingsInv
  <2>2. IsConfig(Saved(page, config))
    BY <2>1, PageIsSaved
  <2>3. page' = NoPage /\ config' = Saved(page, config) /\ type' = type
    BY <1>4 DEF Close
  <2>4. IsConfig(config')
    BY <2>2, <2>3
  <2> QED BY <2>3, <2>4 DEF SettingsInv, IsConfig, IsList
<1>5. CASE EditTracks
  BY <1>1, <1>5, TracksAreEdited DEF SettingsInv
<1>6. CASE EditCamera
  BY <1>1, <1>6, CameraIsEdited
<1>7. CASE \E widget \in Boxes : \E id \in ToSet(BoxItems(env, widget)) : Pick(widget, id)
  BY <1>1, <1>7, ItemIsPicked DEF SettingsInv
<1>8. CASE \E flag \in DOMAIN config.flags : Toggle(flag)
  BY <1>1, <1>8, FlagIsToggled DEF SettingsInv
<1>9. CASE \E field \in DOMAIN config.num, n \in Numbers : TypeNumber(field, n)
  BY <1>1, <1>9, NumberIsTyped DEF SettingsInv
<1>10. CASE UNCHANGED settingsVars
  <2>1. UNCHANGED <<type, env, page, config>>
    BY <1>10 DEF settingsVars
  <2>2. CASE page = NoPage
    BY <2>1, <2>2 DEF SettingsInv, IsConfig, IsList
  <2>3. CASE page # NoPage
    BY <1>1, <2>1, <2>3 DEF SettingsInv
  <2> QED BY <2>2, <2>3
<1> QED BY <1>2, <1>3, <1>4, <1>5, <1>6, <1>7, <1>8, <1>9, <1>10 DEF SettingsNext

\* Whatever a system offers, in whatever order a page was loaded and edited,
\* with any number of tracks and edits, it shows the controls that its choices
\* need and no others, and warns of exactly the tracks that mix the two ways to
\* record an application (src/src/gui/SettingsPage.cpp, add_widgets to
\* load_stream).
THEOREM PagesShowWhatApplies == SettingsSpec => []ShownIsCurrent
<1>1. SettingsInv => ShownIsCurrent
  <2> SUFFICES ASSUME SettingsInv, page # NoPage PROVE ShownIsCurrent
    BY DEF ShownIsCurrent
  <2>1. Good(page)
    BY DEF SettingsInv
  <2>2. ASSUME type # "screenshot", NEW i \in DOMAIN page.tracks PROVE TrackIsCurrent(page.tracks[i])
    <3>1. page.tracks[i].warning <=> Warned(page.tracks[i])
      BY <2>1 DEF Good, WarningsShown
    <3>2. page.tracks[i].app_options <=> page.sel.view = "advanced" /\ env.app_audio
      BY <2>1, <2>2 DEF Good, ViewShown
    <3> QED BY <3>1, <3>2 DEF TrackIsCurrent, Warned
  <2>3. "resolution" \in page.shown <=>
          page.flags.change_resolution /\ (type = "screenshot" \/ page.sel.area # "focused")
    BY <2>1 DEF Good, ResolutionShown
  <2>4. /\ "portal" \in page.shown <=> page.sel.area = "portal"
        /\ type # "screenshot" => /\ "area_size" \in page.shown => page.sel.area = "focused"
                                  /\ page.sel.area = "focused" /\ SelectsArea(env) => "area_size" \in page.shown
    BY <2>1 DEF Good, AreaShown
  <2>5. type # "screenshot" =>
          /\ "bitrate" \in page.shown <=> page.sel.quality = "custom"
          /\ "codec" \in page.shown <=> page.sel.view = "advanced"
          /\ "webcam_body" \in page.shown <=> page.source # ""
    BY <2>1 DEF Good, QualityShown, ViewShown, CameraShown
  <2>6. type = "stream" =>
          \A service \in ToSet(ServiceItems(env)) : service \in page.shown <=> page.sel.service = service
    BY <2>1, ServicesAreKnown DEF Good, ServiceShown
  <2> QED BY <2>2, <2>3, <2>4, <2>5, <2>6 DEF ShownIsCurrent
<1> QED BY <1>1, SettingsStart, SettingsStep, PTL DEF SettingsSpec

-----------------------------------------------------------------------------
(* Settings: a visit without an edit changes nothing.  What was saved is   *)
(* settled: what the system offers keeps every item, number, track and     *)
(* camera of it as it is; and a page that is open will save such a         *)
(* configuration.                                                          *)

IsRecordOf(r, fields) == r = [f \in fields |-> r[f]]
CameraParts == {"source", "format", "setup"}

\* The parts that a page rounds or selects.
IsTyped(c) ==
    /\ DOMAIN c.num \subseteq DOMAIN Most /\ \A f \in DOMAIN c.num : c.num[f] \in Int
    /\ DOMAIN c.camera = CameraParts

FirstShown(e, widget) ==
    CASE widget = "area"    -> DefaultArea(e)
      [] widget = "quality" -> DefaultQuality
      [] OTHER              -> First(BoxItems(e, widget))
ItemSettled(e, widget, id) == Offers(BoxItems(e, widget), id) \/ id = FirstShown(e, widget)
ItemsSettled(sel, e) == IsRecordOf(sel, Boxes) /\ \A widget \in Boxes : ItemSettled(e, widget, sel[widget])

NumberSettled(field, n) == LoadedNumber(field, n) = n /\ SavedNumber(field, n) = n
NumbersSettled(num) == IsRecordOf(num, DOMAIN num) /\ \A f \in DOMAIN num : NumberSettled(f, num[f])

Devices(kind, e) == IF kind = "output" THEN e.outputs ELSE e.inputs
DeviceSettled(kind, id, e) == Offers(Devices(kind, e), id) \/ id = First(Devices(kind, e))
InputSettled(input, e) ==
    /\ IsRecordOf(input, {"kind", "id"})
    /\ \/ input.kind = "app" /\ e.app_audio
       \/ input.kind = "device" /\ DeviceSettled(DeviceKind(input.id), input.id, e)
TrackSettled(track, e) ==
    /\ IsRecordOf(track, {"invert", "inputs"}) /\ IsList(track.inputs)
    /\ \A j \in DOMAIN track.inputs : InputSettled(track.inputs[j], e)
TracksSettled(tracks, e) ==
    /\ IsList(tracks) /\ (type = "stream" => Len(tracks) = 1)
    /\ \A i \in DOMAIN tracks : TrackSettled(tracks[i], e)

CameraFormats(camera, e) ==
    {"auto"} \cup (IF e.cameras[camera].yuyv # {} THEN {"yuyv"} ELSE {})
             \cup (IF e.cameras[camera].mjpeg # {} THEN {"mjpeg"} ELSE {})
CameraSetups(camera, format, e) ==
    CASE format = "yuyv"  -> e.cameras[camera].yuyv
      [] format = "mjpeg" -> e.cameras[camera].mjpeg
      [] format = "auto"  -> e.cameras[camera].yuyv \cup e.cameras[camera].mjpeg
SetupSettled(camera, e) ==
    /\ camera.source \in DOMAIN e.cameras
    /\ camera.format \in CameraFormats(camera.source, e)
    /\ \/ CameraSetups(camera.source, camera.format, e) = {}
       \/ camera.setup \in CameraSetups(camera.source, camera.format, e)
CameraSettled(camera, e) ==
    IsRecordOf(camera, CameraParts) /\ (camera.source = "" \/ SetupSettled(camera, e))

\* Loading and saving keep the configuration c where the system offers e.
Settled(c, e) ==
    /\ IsRecordOf(c, ConfigFields) /\ ItemsSettled(c.sel, e) /\ NumbersSettled(c.num)
    /\ type # "screenshot" => TracksSettled(c.tracks, e) /\ CameraSettled(c.camera, e)

RowSettled(row) ==
    \/ row.kind \in {"app", "custom"} /\ env.app_audio
    \/ row.kind \in {"output", "input"} /\ DeviceSettled(row.kind, row.id, env)
RowsSettled(p) ==
    /\ \A i \in DOMAIN p.tracks : \A j \in DOMAIN p.tracks[i].rows : RowSettled(p.tracks[i].rows[j])
    /\ type = "stream" => Len(p.tracks) = 1
EntriesSettled(p) ==
    /\ DOMAIN p.num \subseteq DOMAIN Most
    /\ \A f \in DOMAIN p.num : p.num[f] \in Int /\ (f = "replay_time" => p.num[f] <= 86400)

\* The camera of the page p, whose format and setup its handlers write to c.
CameraShowsSetup(s) ==
    IF s.p.source \in DOMAIN env.cameras /\ s.p.source # ""
      THEN /\ ToSet(s.p.formats) = CameraFormats(s.p.source, env)
           /\ s.c.camera.format \in CameraFormats(s.p.source, env)
           /\ s.p.setups = SetupsOf(s.p.source, s.c.camera.format)
           /\ s.p.setups = {} \/ s.c.camera.setup \in s.p.setups
      ELSE s.p.source = "" /\ s.p.formats = <<>>

\* Saving the page p, which c was loaded into, gives a settled configuration.
WillSettle(p, c) ==
    /\ ItemsSettled(p.sel, env) /\ EntriesSettled(p)
    /\ type # "screenshot" => RowsSettled(p) /\ CameraShowsSetup([p |-> p, c |-> c])

VisitInv ==
    /\ IsTyped(config)
    /\ savedIn \in Environments \cup {NoEnvironment} /\ env \in Environments
    /\ page = NoPage /\ savedIn # NoEnvironment => Settled(config, savedIn)
    /\ page # NoPage => WillSettle(page, config)
    /\ page # NoPage /\ ~edited /\ savedIn = env => Saved(page, config) = config

-----------------------------------------------------------------------------
(* What the handlers leave alone.                                          *)

\* q shows the same choices and the same rows as p.
SameRows(us, ts) == DOMAIN us = DOMAIN ts /\ \A i \in DOMAIN ts : us[i].rows = ts[i].rows /\ us[i].invert = ts[i].invert
SameContents(q, p) ==
    /\ DOMAIN q = SettingsFields /\ DOMAIN p = SettingsFields
    /\ SameBut(q, p, {"shown", "tracks"}) /\ SameRows(q.tracks, p.tracks)

LEMMA TouchesContents ==
  ASSUME NEW p, IsSettingsPage(p), NEW q, NEW controls, Touches(q, p, controls)
  PROVE  SameContents(q, p) /\ IsSettingsPage(q)
<1>1. IsSettingsPage(q) /\ q.tracks = p.tracks
  BY TouchedKeeps DEF Touches, SameBut, IsSettingsPage, SettingsFields
<1> QED BY <1>1 DEF Touches, SameBut, SameContents, SameRows, IsSettingsPage

LEMMA ContentsTrans ==
  ASSUME NEW p, NEW q, NEW r, SameContents(q, p), SameContents(r, q)
  PROVE  SameContents(r, p)
<1>1. SameRows(r.tracks, p.tracks)
  BY DEF SameContents, SameRows
<1>2. SameBut(r, p, {"shown", "tracks"})
  BY DEF SameContents, SameBut
<1> QED BY <1>1, <1>2 DEF SameContents

LEMMA WarningsKeepContents ==
  ASSUME NEW p, IsSettingsPage(p)
  PROVE  SameContents(WarningsUpdated(p), p) /\ IsSettingsPage(WarningsUpdated(p))
<1> DEFINE W(t) == "output" \in Kinds(t) /\ (Kinds(t) \cap {"app", "custom"} # {} \/ t.invert)
           ts == [i \in DOMAIN p.tracks |-> [p.tracks[i] EXCEPT !.warning = W(p.tracks[i])]]
           q == WarningsUpdated(p)
<1>1. q = [p EXCEPT !.tracks = ts]
  BY DEF WarningsUpdated
<1> HIDE DEF W
<1>2. ASSUME NEW i \in DOMAIN p.tracks
      PROVE  ts[i].rows = p.tracks[i].rows /\ ts[i].invert = p.tracks[i].invert
  <2>1. IsTrack(p.tracks[i])
    BY DEF IsSettingsPage, AreTracks
  <2> QED BY <2>1 DEF IsTrack
<1>3. DOMAIN ts = DOMAIN p.tracks
  OBVIOUS
<1> HIDE DEF ts
<1>4. q.tracks = ts /\ SameBut(q, p, {"tracks"})
  BY <1>1 DEF SameBut, IsSettingsPage, SettingsFields
<1> HIDE DEF q
<1>5. SameContents(q, p)
  BY <1>2, <1>3, <1>4 DEF SameContents, SameRows, SameBut, IsSettingsPage
<1>6. IsSettingsPage(q)
  BY WarningsAreUpdated, TracksKeep DEF q
<1> QED BY <1>5, <1>6 DEF q

LEMMA ViewKeepsContents ==
  ASSUME NEW p, IsSettingsPage(p), NEW id, type # "screenshot" => id = p.sel.view
  PROVE  SameContents(ViewPicked(p, id), p) /\ IsSettingsPage(ViewPicked(p, id))
<1> DEFINE a == Show(p, ViewControls, id = "advanced")
           o == id = "advanced" /\ env.app_audio
           ts == [i \in DOMAIN a.tracks |-> [a.tracks[i] EXCEPT !.app_options = o]]
           q == ViewPicked(p, id)
<1>1. q = [a EXCEPT !.tracks = ts]
  BY DEF ViewPicked, ViewControls
<1>2. Touches(a, p, ViewControls)
  BY ShowIs DEF IsSettingsPage
<1> HIDE DEF a, o
<1>3. SameContents(a, p) /\ IsSettingsPage(a)
  BY <1>2, TouchesContents
<1>4. ASSUME NEW i \in DOMAIN a.tracks
      PROVE  ts[i].rows = a.tracks[i].rows /\ ts[i].invert = a.tracks[i].invert
  <2>1. IsTrack(a.tracks[i])
    BY <1>3 DEF IsSettingsPage, AreTracks
  <2> QED BY <2>1 DEF IsTrack
<1>5. DOMAIN ts = DOMAIN a.tracks
  OBVIOUS
<1> HIDE DEF ts
<1>6. q.tracks = ts /\ SameBut(q, a, {"tracks"})
  BY <1>1, <1>3 DEF SameBut, IsSettingsPage, SettingsFields
<1> HIDE DEF q
<1>7. SameContents(q, a)
  BY <1>3, <1>4, <1>5, <1>6 DEF SameContents, SameRows, SameBut, IsSettingsPage
<1>8. SameContents(q, p)
  BY <1>3, <1>7, ContentsTrans
<1>9. IsSettingsPage(q)
  BY ViewIsPicked DEF q
<1> QED BY <1>8, <1>9 DEF q

\* The choices of a page and what is written beside them.
SameChoices(q, p) ==
    /\ q.sel = p.sel /\ q.num = p.num /\ q.flags = p.flags /\ q.source = p.source
    /\ q.formats = p.formats /\ q.setups = p.setups

LEMMA ContentsChoices ==
  ASSUME NEW p, NEW q, SameContents(q, p)
  PROVE  SameChoices(q, p) /\ SameRows(q.tracks, p.tracks)
BY DEF SameContents, SameBut, SettingsFields, SameChoices

\* A new page shows the first choices, no track and no camera.
IsNew(p, c) ==
    /\ p.sel = [widget \in Boxes |-> FirstShown(env, widget)] /\ p.num = c.num
    /\ p.source = "" /\ p.formats = <<>> /\ p.setups = {} /\ DOMAIN p.tracks = {}

LEMMA NewPageIsNew ==
  ASSUME NEW c, IsConfig(c), type \in PageTypes
  PROVE  IsNew(NewPage(c), c)
<1> DEFINE sel == [widget \in Boxes |->
                    CASE widget = "area"    -> DefaultArea(env)
                      [] widget = "quality" -> DefaultQuality
                      [] OTHER           -> First(BoxItems(env, widget))]
           flags == [c.flags EXCEPT !.change_resolution = FALSE]
           p == [sel |-> sel, num |-> c.num, flags |-> flags,
                 tracks |-> <<>>, source |-> "", camera |-> "", camera_setup |-> 0,
                 formats |-> <<>>, format |-> "", setups |-> {}, setup |-> 0,
                 shown |-> {"change_resolution"}]
           area == AreaPicked(p, NamedArea(env))
           quality == QualityPicked(area, sel.quality)
           service == IF type = "stream" THEN ServicePicked(quality, "twitch") ELSE quality
           view == ViewPicked(service, "simple")
<1>1. NewPage(c) = IF type = "screenshot" THEN area ELSE view
  <2>1. NewPage(c) = IF type = "screenshot" THEN area
                     ELSE ViewPicked(IF type = "stream" THEN ServicePicked(QualityPicked(area, sel.quality), "twitch")
                                     ELSE QualityPicked(area, sel.quality), "simple")
    BY Zenon DEF NewPage
  <2> HIDE DEF area, sel
  <2> QED BY <2>1
<1>2. /\ {"area", "quality"} \subseteq Boxes
      /\ type # "screenshot" => "view" \in Boxes
      /\ type = "stream" => "service" \in Boxes
  BY DEF PageTypes, Boxes, ReplayBoxes, RecordBoxes, StreamBoxes, ScreenshotBoxes, CommonBoxes
<1>3. /\ DOMAIN sel = Boxes /\ sel = [widget \in Boxes |-> FirstShown(env, widget)]
      /\ type # "screenshot" => sel.view = "simple"
      /\ type = "stream" => sel.service = "twitch"
  <2>1. First(BoxItems(env, "view")) = "simple"
    BY DEF First, BoxItems
  <2>2. First(BoxItems(env, "service")) = "twitch"
    BY ServicesAreKnown
  <2>3. sel = [widget \in Boxes |-> FirstShown(env, widget)]
    BY Zenon DEF FirstShown
  <2> QED BY <1>2, <2>1, <2>2, <2>3
<1>4. "change_resolution" \in DOMAIN flags
  BY DEF IsConfig
<1> HIDE DEF sel, flags
<1>5. /\ DOMAIN p = SettingsFields /\ p.sel = sel /\ p.flags = flags /\ p.tracks = <<>> /\ IsNew(p, c)
  <2>1. DOMAIN <<>> = {}
    OBVIOUS
  <2> QED BY <1>3, <2>1 DEF SettingsFields, IsNew
<1> HIDE DEF p
<1>6. IsSettingsPage(p)
  <2>1. AreTracks(<<>>) /\ DOMAIN <<>> = {}
    BY DEF AreTracks, IsList
  <2> QED BY <1>3, <1>4, <1>5, <2>1 DEF IsSettingsPage
<1> DEFINE OK(q) == IsSettingsPage(q) /\ SameContents(q, p)
<1>7. ASSUME NEW q, SameContents(q, p) PROVE q.sel = sel /\ IsNew(q, c)
  <2>1. SameChoices(q, p) /\ SameRows(q.tracks, p.tracks)
    BY <1>7, ContentsChoices
  <2>2. DOMAIN q.tracks = DOMAIN p.tracks
    BY <2>1, Zenon DEF SameRows
  <2> QED BY <1>5, <2>1, <2>2 DEF IsNew, SameChoices
<1>8. OK(area)
  BY <1>5, <1>6, AreaIsPicked, TouchesContents
<1> HIDE DEF area
<1>9. OK(quality)
  <2>1. SameContents(quality, area) /\ IsSettingsPage(quality)
    BY <1>7, <1>8, QualityIsPicked, TouchesContents
  <2> HIDE DEF quality
  <2> QED BY <1>8, <2>1, ContentsTrans
<1> HIDE DEF quality
<1>10. OK(service)
  <2>1. CASE type = "stream"
    <3>1. "twitch" \in Services
      BY DEF Services
    <3>2. SameContents(service, quality) /\ IsSettingsPage(service)
      BY <1>3, <1>7, <1>9, <2>1, <3>1, ServiceIsPicked, TouchesContents
    <3> HIDE DEF service
    <3> QED BY <1>9, <3>2, ContentsTrans
  <2> QED BY <1>9, <2>1
<1> HIDE DEF service
<1>11. OK(view)
  <2>1. SameContents(view, service) /\ IsSettingsPage(view)
    BY <1>3, <1>7, <1>10, ViewKeepsContents
  <2> HIDE DEF view
  <2> QED BY <1>10, <2>1, ContentsTrans
<1> HIDE DEF view
<1> QED BY <1>1, <1>7, <1>8, <1>11

\* The rows that a track of the configuration is loaded into.
LoadedRows(track) ==
    LET rows  == {j \in DOMAIN track.inputs : track.inputs[j].kind = "app" => env.app_audio}
        at(n) == CHOOSE j \in rows : Cardinality({i \in rows : i <= j}) = n
    IN  [n \in 1 .. Cardinality(rows) |-> LoadedRow(track.inputs[at(n)])]
ShowsTrack(t, track) == t.rows = LoadedRows(track) /\ t.invert = track.invert
ShowsTracks(p, tracks) ==
    /\ type # "stream" => DOMAIN p.tracks = DOMAIN tracks /\ \A i \in DOMAIN tracks : ShowsTrack(p.tracks[i], tracks[i])
    /\ type = "stream" => /\ DOMAIN p.tracks = {1}
                          /\ p.tracks[1].rows = <<>> \/ 1 \in DOMAIN tracks
                          /\ 1 \in DOMAIN tracks => ShowsTrack(p.tracks[1], tracks[1])

LEMMA TracksAreShown ==
  ASSUME NEW p, IsSettingsPage(p), NEW tracks, IsList(tracks), \A i \in DOMAIN tracks : IsList(tracks[i].inputs)
  PROVE  LET q == TracksLoaded(p, tracks)
         IN  SameChoices(q, p) /\ ShowsTracks(q, tracks) /\ IsSettingsPage(q)
<1> DEFINE all    == [i \in DOMAIN tracks |-> LoadedTrack(p, tracks[i])]
           new    == NewTrack(p)
           stream == IF all = <<>> THEN <<new>> ELSE <<all[1]>>
           ts     == IF type = "stream" THEN stream ELSE all
           a      == [p EXCEPT !.tracks = ts]
           q      == TracksLoaded(p, tracks)
<1>1. q = WarningsUpdated(a)
  BY DEF TracksLoaded
<1>2. SameBut(q, p, {"tracks"}) /\ AreTracks(q.tracks) /\ IsSettingsPage(q)
  BY TracksAreLoaded, TracksKeep
<1> HIDE DEF q
<1>3. SameChoices(q, p)
  BY <1>2 DEF SameBut, SameChoices, IsSettingsPage, SettingsFields
<1>4. ASSUME NEW track PROVE ShowsTrack(LoadedTrack(p, track), track)
  <2> DEFINE rows  == {j \in DOMAIN track.inputs : track.inputs[j].kind = "app" => env.app_audio}
             at(n) == CHOOSE j \in rows : Cardinality({i \in rows : i <= j}) = n
             list  == [n \in 1 .. Cardinality(rows) |-> LoadedRow(track.inputs[at(n)])]
  <2>1. LoadedTrack(p, track) = [new EXCEPT !.rows = list, !.invert = track.invert]
    BY DEF LoadedTrack
  <2>2. list = LoadedRows(track)
    BY DEF LoadedRows
  <2>3. DOMAIN new = {"rows", "invert", "warning", "app_options"}
    BY NewTrackIsTrack DEF IsTrack
  <2> HIDE DEF new, list
  <2> QED BY <2>1, <2>2, <2>3 DEF ShowsTrack
<1>5. DOMAIN tracks = 1..Len(tracks) /\ Len(tracks) \in Nat
  BY ListIsFunction
<1>6. DOMAIN all = DOMAIN tracks /\ \A i \in DOMAIN tracks : ShowsTrack(all[i], tracks[i])
  BY <1>4
<1>7. new.rows = <<>>
  BY NewTrackIsTrack
<1>8. all = <<>> <=> 1 \notin DOMAIN tracks
  <2>1. CASE Len(tracks) = 0
    BY <1>5, <2>1
  <2>2. CASE Len(tracks) # 0
    <3>1. 1 \in DOMAIN all
      BY <1>5, <1>6, <2>2
    <3> HIDE DEF all
    <3> QED BY <1>5, <2>2, <3>1
  <2> QED BY <2>1, <2>2
<1> HIDE DEF all, new
<1>9. a.tracks = ts
  BY DEF IsSettingsPage, SettingsFields
<1>10. SameRows(q.tracks, ts)
  <2>1. IsSettingsPage(a)
    <3>1. AreTracks(ts)
      <4>1. ASSUME NEW t, IsTrack(t) PROVE AreTracks(<<t>>)
        <5>1. IsList(<<t>>) /\ DOMAIN <<t>> = {1} /\ <<t>>[1] = t
          BY FunctionIsList DEF IsList, ToSet
        <5> QED BY <4>1, <5>1 DEF AreTracks
      <4>2. AreTracks(all)
        <5>1. IsList(all)
          <6>1. all = [i \in 1..Len(tracks) |-> all[i]]
            BY <1>5 DEF all
          <6> QED BY <1>5, <6>1, FunctionIsList
        <5>2. \A i \in DOMAIN all : IsTrack(all[i])
          BY LoadedTrackIsTrack DEF all
        <5> QED BY <5>1, <5>2 DEF AreTracks
      <4>3. all # <<>> => IsTrack(all[1])
        BY <1>6, <1>8, <4>2 DEF AreTracks
      <4>4. IsTrack(new)
        BY NewTrackIsTrack DEF new
      <4> QED BY <4>1, <4>2, <4>3, <4>4
    <3> HIDE DEF ts
    <3>2. SameBut(a, p, {"tracks"})
      BY DEF SameBut, IsSettingsPage, SettingsFields
    <3> HIDE DEF a
    <3> QED BY <1>9, <3>1, <3>2, TracksKeep
  <2> HIDE DEF a, ts
  <2> QED BY <1>1, <1>9, <2>1, WarningsKeepContents, ContentsChoices
<1>11. ASSUME type # "stream" PROVE ShowsTracks(q, tracks)
  BY <1>6, <1>10, <1>11 DEF SameRows, ShowsTracks, ShowsTrack
<1>12. ASSUME type = "stream" PROVE ShowsTracks(q, tracks)
  <2>1. DOMAIN ts = {1}
    BY <1>12
  <2>2. 1 \notin DOMAIN tracks => ts[1] = new
    BY <1>8, <1>12
  <2>3. 1 \in DOMAIN tracks => ts[1] = all[1]
    BY <1>8, <1>12
  <2> HIDE DEF ts
  <2> QED BY <1>6, <1>7, <1>10, <1>12, <2>1, <2>2, <2>3 DEF SameRows, ShowsTracks, ShowsTrack
<1> QED BY <1>2, <1>3, <1>11, <1>12 DEF q

LEMMA ShownStays ==
  ASSUME NEW p, NEW q, SameRows(q.tracks, p.tracks), NEW tracks, ShowsTracks(p, tracks)
  PROVE  ShowsTracks(q, tracks)
<1>1. CASE type # "stream"
  BY <1>1 DEF SameRows, ShowsTracks, ShowsTrack
<1>2. CASE type = "stream"
  BY <1>2 DEF SameRows, ShowsTracks, ShowsTrack
<1> QED BY <1>1, <1>2

\* A page that is loaded shows the items that are offered, and every track.
Loads(q, p, c) ==
    /\ q.sel = [widget \in Boxes |-> IF Kept(c, widget) THEN c.sel[widget] ELSE p.sel[widget]]
    /\ q.flags = c.flags /\ q.source = p.source /\ q.formats = p.formats /\ q.setups = p.setups

LEMMA BoxesShow ==
  ASSUME NEW p, Good(p), NEW c, IsConfig(c), type \in PageTypes
  PROVE  LET q == BoxesLoaded(p, c)
         IN  Loads(q, p, c) /\ (type # "screenshot" => ShowsTracks(q, c.tracks))
<1> DEFINE f == [widget \in Boxes |-> IF Kept(c, widget) THEN c.sel[widget] ELSE p.sel[widget]]
           selected == SelectionsLoaded(p, c)
           area == AreaLoaded(selected, c)
           flagged == [area EXCEPT !.flags = c.flags]
           flags == FlagsLoaded(area, c)
           quality == QualityLoaded(flags, c)
           tracks == TracksLoaded(quality, c.tracks)
           view == ViewLoaded(tracks)
           service == ServiceLoaded(view, c)
           q == BoxesLoaded(p, c)
<1>1. q = IF type = "screenshot" THEN flags ELSE service
  BY DEF BoxesLoaded
<1>2. /\ {"area", "quality"} \subseteq Boxes
      /\ type = "stream" => "service" \in Boxes
  BY DEF PageTypes, Boxes, ReplayBoxes, RecordBoxes, StreamBoxes, ScreenshotBoxes, CommonBoxes
<1>3. IsSettingsPage(p)
  BY DEF Good
<1>4. SameBut(selected, p, {"sel"}) /\ selected.sel = f
  BY <1>3 DEF SelectionsLoaded, SameBut, IsSettingsPage, SettingsFields
<1>5. /\ DOMAIN f = Boxes
      /\ \A widget \in Boxes : Kept(c, widget) => f[widget] = c.sel[widget]
  OBVIOUS
<1>6. f = [widget \in Boxes |-> IF Kept(c, widget) THEN c.sel[widget] ELSE p.sel[widget]]
  OBVIOUS
<1> HIDE DEF f, selected
<1>7. IsSettingsPage(selected)
  BY <1>3, <1>4, <1>5 DEF SameBut, IsSettingsPage, SettingsFields
<1> DEFINE Rest(x) == x.sel = f /\ x.source = p.source /\ x.formats = p.formats /\ x.setups = p.setups
<1>8. Rest(selected)
  BY <1>3, <1>4 DEF SameBut, IsSettingsPage, SettingsFields
<1>9. ASSUME NEW x, Rest(x), NEW y, SameContents(y, x) PROVE Rest(y) /\ y.flags = x.flags
  BY <1>9, ContentsChoices DEF SameChoices
<1>10. IsSettingsPage(area) /\ Rest(area)
  <2>1. CASE Kept(c, "area")
    <3>1. area = AreaPicked(selected, c.sel.area) /\ c.sel.area = selected.sel.area
      BY <1>2, <1>4, <1>5, <2>1 DEF AreaLoaded
    <3> HIDE DEF area
    <3>2. SameContents(area, selected) /\ IsSettingsPage(area)
      BY <1>7, <3>1, AreaIsPicked, TouchesContents
    <3> QED BY <1>8, <1>9, <3>2
  <2>2. CASE ~Kept(c, "area")
    BY <1>7, <1>8, <2>2 DEF AreaLoaded
  <2> QED BY <2>1, <2>2
<1> HIDE DEF area
<1>11. SameBut(flagged, area, {"flags"}) /\ flagged.flags = c.flags
  BY <1>10 DEF SameBut, IsSettingsPage, SettingsFields
<1>12. flags = ResolutionChecked(flagged, c.flags.change_resolution)
  BY DEF FlagsLoaded
<1> HIDE DEF flagged
<1>13. IsSettingsPage(flagged) /\ Rest(flagged)
  BY <1>10, <1>11 DEF SameBut, IsSettingsPage, SettingsFields, IsConfig
<1> HIDE DEF flags
<1>14. IsSettingsPage(flags) /\ Rest(flags) /\ flags.flags = c.flags
  <2>1. SameContents(flags, flagged) /\ IsSettingsPage(flags)
    BY <1>11, <1>12, <1>13, ResolutionIsChecked, TouchesContents
  <2> QED BY <1>9, <1>11, <1>13, <2>1
<1>15. ASSUME type = "screenshot" PROVE Loads(q, p, c)
  BY <1>1, <1>6, <1>14, <1>15 DEF Loads
<1>16. ASSUME type # "screenshot" PROVE Loads(q, p, c) /\ ShowsTracks(q, c.tracks)
  <2>1. IsSettingsPage(quality) /\ Rest(quality) /\ quality.flags = c.flags
    <3>1. CASE Kept(c, "quality")
      <4>1. quality = QualityPicked(flags, c.sel.quality) /\ c.sel.quality = flags.sel.quality
        BY <1>2, <1>5, <1>14, <3>1 DEF QualityLoaded
      <4> HIDE DEF quality
      <4>2. SameContents(quality, flags) /\ IsSettingsPage(quality)
        BY <1>14, <4>1, QualityIsPicked, TouchesContents
      <4> QED BY <1>9, <1>14, <4>2
    <3>2. CASE ~Kept(c, "quality")
      BY <1>14, <3>2 DEF QualityLoaded
    <3> QED BY <3>1, <3>2
  <2> HIDE DEF quality
  <2>2. IsSettingsPage(tracks) /\ Rest(tracks) /\ tracks.flags = c.flags /\ ShowsTracks(tracks, c.tracks)
    BY <2>1, TracksAreShown DEF IsConfig, SameChoices
  <2> HIDE DEF tracks
  <2>3. SameContents(view, tracks) /\ IsSettingsPage(view)
    BY <2>2, ViewKeepsContents DEF ViewLoaded
  <2> HIDE DEF view
  <2>4. Rest(view) /\ view.flags = c.flags /\ ShowsTracks(view, c.tracks)
    BY <1>9, <2>2, <2>3, ContentsChoices, ShownStays
  <2>5. Rest(service) /\ service.flags = c.flags /\ ShowsTracks(service, c.tracks)
    <3>1. CASE type = "stream" /\ Kept(c, "service")
      <4>1. service = ServicePicked(view, c.sel.service) /\ c.sel.service = view.sel.service
        BY <1>2, <1>5, <2>4, <3>1 DEF ServiceLoaded
      <4>2. c.sel.service \in Services
        BY <3>1, ServicesAreKnown DEF Kept, Offers
      <4> HIDE DEF service
      <4>3. SameContents(service, view)
        BY <2>3, <4>1, <4>2, ServiceIsPicked, TouchesContents
      <4> QED BY <1>9, <2>4, <4>3, ContentsChoices, ShownStays
    <3>2. CASE ~(type = "stream" /\ Kept(c, "service"))
      BY <2>4, <3>2 DEF ServiceLoaded
    <3> QED BY <3>1, <3>2
  <2> HIDE DEF service
  <2> QED BY <1>1, <1>6, <1>16, <2>5 DEF Loads
<1> QED BY <1>15, <1>16 DEF q

\* The page and the configuration after the boxes, tracks and numbers.
ScreenshotLoads(s, c) ==
    /\ s.p.sel = [widget \in Boxes |-> IF Kept(c, widget) THEN c.sel[widget] ELSE FirstShown(env, widget)]
    /\ s.p.flags = c.flags /\ s.p.source = "" /\ s.p.formats = <<>> /\ s.p.setups = {}
    /\ s.p.num = [f \in DOMAIN c.num |-> LoadedNumber(f, c.num[f])]
    /\ s.c = [c EXCEPT !.num = s.p.num]
    /\ type # "screenshot" => ShowsTracks(s.p, c.tracks)

LEMMA ScreenshotShows ==
  ASSUME NEW c, IsConfig(c), type \in PageTypes
  PROVE  ScreenshotLoads(LoadedScreenshot(c), c)
<1> DEFINE num == [f \in DOMAIN c.num |-> LoadedNumber(f, c.num[f])]
           n == NewPage(c)
           b == BoxesLoaded(n, c)
           q == [b EXCEPT !.num = num]
           s == LoadedScreenshot(c)
<1>1. s = [p |-> q, c |-> [c EXCEPT !.num = num]]
  BY DEF LoadedScreenshot
<1>2. s.p = q /\ s.c = [c EXCEPT !.num = num]
  BY <1>1
<1>3. Good(n) /\ IsNew(n, c)
  BY NewPageIsGood, NewPageIsNew
<1> HIDE DEF n
<1>4. Good(b) /\ Loads(b, n, c) /\ (type # "screenshot" => ShowsTracks(b, c.tracks))
  BY <1>3, BoxesAreLoaded, BoxesShow
<1> HIDE DEF b
<1>5. SameBut(q, b, {"num"}) /\ q.num = num
  BY <1>4 DEF SameBut, Good, IsSettingsPage, SettingsFields
<1>6. /\ q.sel = b.sel /\ q.flags = b.flags /\ q.source = b.source /\ q.formats = b.formats
      /\ q.setups = b.setups /\ q.tracks = b.tracks
  BY <1>4, <1>5 DEF SameBut, Good, IsSettingsPage, SettingsFields
<1> HIDE DEF q, s
<1>7. b.sel = [widget \in Boxes |-> IF Kept(c, widget) THEN c.sel[widget] ELSE FirstShown(env, widget)]
  <2>1. \A widget \in Boxes : n.sel[widget] = FirstShown(env, widget)
    BY <1>3, Zenon DEF IsNew
  <2> QED BY <1>4, <2>1 DEF Loads
<1>8. type # "screenshot" => ShowsTracks(q, c.tracks)
  BY <1>4, <1>6 DEF ShowsTracks
<1>9. /\ q.flags = c.flags /\ q.source = "" /\ q.formats = <<>> /\ q.setups = {}
  BY <1>3, <1>4, <1>6 DEF Loads, IsNew
<1> HIDE DEF num
<1>10. ScreenshotLoads(s, c)
  <2>1. s.p.num = num /\ s.p.sel = b.sel
    BY <1>2, <1>5, <1>6
  <2> QED BY <1>2, <1>7, <1>8, <1>9, <2>1 DEF ScreenshotLoads, num, ShowsTracks
<1> QED BY <1>10 DEF s

-----------------------------------------------------------------------------
(* What the handlers of the camera write.                                  *)

\* q is s with another format or setup written to the configuration.
Writes(q, s) ==
    /\ CameraOnly(q, s, SetupFields) /\ IsRecordOf(q.c, ConfigFields) /\ IsRecordOf(q.c.camera, CameraParts)
    /\ q.c.camera.source = s.c.camera.source
HasCamera(s) == IsLoading(s) /\ DOMAIN s.c.camera = CameraParts

LEMMA WritesKeeps ==
  ASSUME NEW s, NEW q, Writes(q, s)
  PROVE  HasCamera(q) /\ q.p.source = s.p.source
BY DEF Writes, CameraOnly, HasCamera, SameBut, IsLoading, SettingsFields, SetupFields, CameraFields, IsRecordOf

LEMMA WritesTrans ==
  ASSUME NEW s, NEW q, NEW r, HasCamera(s), Writes(q, s), Writes(r, q)
  PROVE  Writes(r, s)
<1>1. CameraOnly(r, s, SetupFields)
  BY CameraOnlyTrans DEF Writes, HasCamera
<1> QED BY <1>1 DEF Writes

LEMMA SetupWrites ==
  ASSUME NEW s, HasCamera(s), NEW setup
  PROVE  LET q == SetupPicked(s, setup)
         IN  /\ Writes(q, s) /\ q.c.camera.format = s.c.camera.format /\ q.c.camera.setup = setup
             /\ q.p.setups = s.p.setups /\ q.p.formats = s.p.formats
<1> DEFINE camera == [s.c.camera EXCEPT !.setup = setup]
           c == [s.c EXCEPT !.camera = camera]
           p == [s.p EXCEPT !.setup = setup, !.camera_setup = setup]
           q == SetupPicked(s, setup)
<1>1. q.c = c /\ q.p = p
  BY DEF SetupPicked, HasCamera, IsLoading
<1>2. IsRecordOf(camera, CameraParts) /\ camera.source = s.c.camera.source /\ camera.format = s.c.camera.format
      /\ camera.setup = setup
  BY DEF HasCamera, CameraParts, IsRecordOf
<1> HIDE DEF camera
<1>3. IsRecordOf(c, ConfigFields) /\ c.camera = camera
  BY DEF HasCamera, IsLoading, ConfigFields, IsRecordOf
<1>4. p.setups = s.p.setups /\ p.formats = s.p.formats
  BY DEF HasCamera, IsLoading, SettingsFields
<1>5. CameraOnly(q, s, SetupFields)
  BY SetupIsPicked DEF HasCamera
<1> HIDE DEF c, p, q
<1> QED BY <1>1, <1>2, <1>3, <1>4, <1>5 DEF Writes, q

CameraKinds == {"auto", "yuyv", "mjpeg"}

LEMMA SetupsHaveRanks ==
  ASSUME env \in Environments, NEW camera \in DOMAIN env.cameras, NEW format \in CameraKinds
  PROVE  SetupsOf(camera, format) \in SUBSET Nat /\ SetupsOf(camera, format) = CameraSetups(camera, format, env)
<1>1. env.cameras[camera].yuyv \cup env.cameras[camera].mjpeg \subseteq Nat
  BY SystemAssumption
<1> QED BY <1>1 DEF SetupsOf, CameraSetups, CameraKinds

\* A format that is picked offers its setups, and one of them is written: the
\* one that was configured when it is one.
FormatWritten(q, s, setups) ==
    /\ q.p.setups = setups /\ q.p.formats = s.p.formats
    /\ setups = {} \/ q.c.camera.setup \in setups
    /\ setups = {} \/ s.c.camera.setup \in setups => q.c.camera.setup = s.c.camera.setup

LEMMA FormatWrites ==
  ASSUME env \in Environments, NEW s, HasCamera(s), s.p.source \in DOMAIN env.cameras, NEW format \in CameraKinds
  PROVE  LET q == FormatPicked(s, format)
         IN  /\ Writes(q, s) /\ q.c.camera.format = format
             /\ FormatWritten(q, s, SetupsOf(s.p.source, format))
<1> DEFINE camera == [s.c.camera EXCEPT !.format = format]
           t      == [s EXCEPT !.p.format = format, !.c.camera.format = format]
           setups == SetupsOf(s.p.source, format)
           listed == [t EXCEPT !.p.setups = setups, !.p.setup = 0]
           first  == SetupsFilled(t, setups)
           again  == SetupPicked(first, s.c.camera.setup)
           q      == FormatPicked(s, format)
<1>1. q = IF s.c.camera.setup \in setups THEN again ELSE first
  <2>1. q = IF s.p.source \notin DOMAIN env.cameras THEN t
            ELSE IF s.c.camera.setup \in setups THEN again
            ELSE first
    BY Zenon DEF FormatPicked
  <2> HIDE DEF q, t, setups, first, again
  <2> QED BY <2>1
<1>2. first = IF setups = {} THEN listed ELSE SetupPicked(listed, Min(setups))
  BY DEF SetupsFilled
<1>3. t.c = [s.c EXCEPT !.camera = camera] /\ t.p = [s.p EXCEPT !.format = format] /\ DOMAIN t = {"p", "c"}
  BY DEF HasCamera, IsLoading
<1>4. IsRecordOf(camera, CameraParts) /\ camera.source = s.c.camera.source /\ camera.format = format
      /\ camera.setup = s.c.camera.setup
  BY DEF HasCamera, CameraParts, IsRecordOf
<1> HIDE DEF camera, t
<1>5. listed.c = t.c /\ listed.p = [t.p EXCEPT !.setups = setups, !.setup = 0] /\ DOMAIN listed = {"p", "c"}
  BY <1>3
<1> HIDE DEF listed
<1>6. IsRecordOf(listed.c, ConfigFields) /\ listed.c.camera = camera /\ SameBut(listed.c, s.c, {"camera"})
  BY <1>3, <1>5 DEF HasCamera, IsLoading, ConfigFields, IsRecordOf, SameBut
<1>7. listed.p.setups = setups /\ listed.p.formats = s.p.formats /\ SameBut(listed.p, s.p, SetupFields)
  BY <1>3, <1>5 DEF HasCamera, IsLoading, SettingsFields, SetupFields, CameraFields, SameBut
<1>8. Writes(listed, s) /\ listed.c.camera.format = format /\ listed.c.camera.setup = s.c.camera.setup
  BY <1>4, <1>5, <1>6, <1>7 DEF Writes, CameraOnly, IsLoading, HasCamera, SameBut
<1>9. setups \in SUBSET Nat
  BY SetupsHaveRanks
<1> HIDE DEF setups
<1>10. HasCamera(listed)
  BY <1>8, WritesKeeps
<1>11. /\ Writes(first, s) /\ first.c.camera.format = format /\ first.p.setups = setups
       /\ first.p.formats = s.p.formats
       /\ setups = {} => first.c.camera.setup = s.c.camera.setup
       /\ setups # {} => first.c.camera.setup \in setups
  <2>1. CASE setups = {}
    BY <1>2, <1>7, <1>8, <2>1
  <2>2. CASE setups # {}
    <3> DEFINE least == SetupPicked(listed, Min(setups))
    <3>1. first = least
      BY <1>2, <2>2
    <3>2. /\ Writes(least, listed) /\ least.c.camera.format = format /\ least.c.camera.setup = Min(setups)
          /\ least.p.setups = setups /\ least.p.formats = s.p.formats
      BY <1>7, <1>8, <1>10, SetupWrites
    <3>3. Min(setups) \in setups
      BY <1>9, <2>2, MinIsMember
    <3> HIDE DEF least, first
    <3>4. Writes(least, s)
      BY <1>8, <3>2, WritesTrans
    <3> QED BY <2>2, <3>1, <3>2, <3>3, <3>4
  <2> QED BY <2>1, <2>2
<1> HIDE DEF first
<1>12. HasCamera(first)
  BY <1>11, WritesKeeps
<1>13. /\ Writes(again, s) /\ again.c.camera.format = format /\ again.p.setups = setups
       /\ again.p.formats = s.p.formats /\ again.c.camera.setup = s.c.camera.setup
  <2>1. /\ Writes(again, first) /\ again.c.camera.format = format /\ again.p.setups = setups
        /\ again.p.formats = s.p.formats /\ again.c.camera.setup = s.c.camera.setup
    BY <1>11, <1>12, SetupWrites
  <2> HIDE DEF again
  <2> QED BY <1>11, <2>1, WritesTrans
<1> HIDE DEF again, q
<1> QED BY <1>1, <1>11, <1>13 DEF FormatWritten, q, setups

LEMMA FormatsAreOffered ==
  ASSUME NEW camera
  PROVE  LET formats == <<"auto">> \o Some(env.cameras[camera].yuyv # {}, <<"yuyv">>)
                                   \o Some(env.cameras[camera].mjpeg # {}, <<"mjpeg">>)
         IN  ToSet(formats) = CameraFormats(camera, env) /\ CameraFormats(camera, env) \subseteq CameraKinds
<1> DEFINE a == <<"auto">>
           y == Some(env.cameras[camera].yuyv # {}, <<"yuyv">>)
           m == Some(env.cameras[camera].mjpeg # {}, <<"mjpeg">>)
<1>1. ASSUME NEW x PROVE ToSet(<<x>>) = {x} /\ <<x>> \in Seq({x})
  BY DEF ToSet
<1>2. ToSet(<<>>) = {} /\ <<>> \in Seq(CameraKinds)
  BY DEF ToSet
<1>3. <<"auto">> \in Seq(CameraKinds) /\ <<"yuyv">> \in Seq(CameraKinds) /\ <<"mjpeg">> \in Seq(CameraKinds)
  BY DEF CameraKinds
<1>4. y \in Seq(CameraKinds) /\ ToSet(y) = IF env.cameras[camera].yuyv # {} THEN {"yuyv"} ELSE {}
  BY <1>1, <1>2, <1>3 DEF Some
<1>5. m \in Seq(CameraKinds) /\ ToSet(m) = IF env.cameras[camera].mjpeg # {} THEN {"mjpeg"} ELSE {}
  BY <1>1, <1>2, <1>3 DEF Some
<1>6. a \in Seq(CameraKinds) /\ ToSet(a) = {"auto"}
  BY <1>1, <1>3
<1> HIDE DEF a, y, m
<1>7. a \o y \in Seq(CameraKinds) /\ ToSet(a \o y) = ToSet(a) \cup ToSet(y)
  BY <1>4, <1>6, ConcatSets
<1>8. ToSet((a \o y) \o m) = ToSet(a) \cup ToSet(y) \cup ToSet(m)
  <2> DEFINE d == a \o y
  <2> HIDE DEF d
  <2>1. d \in Seq(CameraKinds) /\ ToSet(d) = ToSet(a) \cup ToSet(y)
    BY <1>7 DEF d
  <2>2. ToSet(d \o m) = ToSet(d) \cup ToSet(m)
    BY <1>5, <2>1, ConcatSets
  <2> QED BY <2>1, <2>2 DEF d
<1>9. ToSet((a \o y) \o m) = CameraFormats(camera, env)
  BY <1>4, <1>5, <1>6, <1>8 DEF CameraFormats
<1>10. CameraFormats(camera, env) \subseteq CameraKinds
  BY DEF CameraFormats, CameraKinds
<1> QED BY <1>9, <1>10 DEF a, y, m

\* A camera that is picked keeps a format and a setup that it has.
LEMMA SourceWrites ==
  ASSUME env \in Environments, NEW s, HasCamera(s), NEW source \in DOMAIN env.cameras, source # ""
  PROVE  LET q == SourcePicked(s, source)
             camera == [source |-> source, format |-> s.c.camera.format, setup |-> s.c.camera.setup]
         IN  /\ IsRecordOf(q.c, ConfigFields) /\ IsRecordOf(q.c.camera, CameraParts)
             /\ q.c.camera.source = s.c.camera.source
             /\ CameraShowsSetup(q)
             /\ SetupSettled(camera, env) =>
                  q.c.camera.format = s.c.camera.format /\ q.c.camera.setup = s.c.camera.setup
<1> DEFINE t == [s EXCEPT !.p.source = source, !.p.camera = "", !.p.camera_setup = 0,
                          !.p.formats = <<>>, !.p.format = ""]
           formats == <<"auto">> \o Some(env.cameras[source].yuyv # {}, <<"yuyv">>)
                                 \o Some(env.cameras[source].mjpeg # {}, <<"mjpeg">>)
           listed == [t.p EXCEPT !.formats = formats]
           l == Show(listed, {"webcam_body"}, TRUE)
           shown == [t EXCEPT !.p = l]
           auto == FormatPicked(shown, "auto")
           format == s.c.camera.format
           setup == s.c.camera.setup
           again == FormatPicked(auto, format)
           restored == IF Offers(formats, format) THEN again ELSE auto
           found == [restored EXCEPT !.p.camera = source]
           q == SourcePicked(s, source)
           camera == [source |-> source, format |-> format, setup |-> setup]
           All == SetupsOf(source, "auto")
           One == SetupsOf(source, format)
<1>1. q = found
  BY DEF SourcePicked
<1>2. ToSet(formats) = CameraFormats(source, env) /\ CameraFormats(source, env) \subseteq CameraKinds
  BY FormatsAreOffered
<1>3. DOMAIN t.p = SettingsFields /\ t.p.source = source /\ t.c = s.c /\ DOMAIN t = {"p", "c"}
  BY DEF HasCamera, IsLoading, SettingsFields
<1> HIDE DEF t, formats
<1>4. DOMAIN listed = SettingsFields /\ listed.source = source /\ listed.formats = formats
  BY <1>3 DEF SettingsFields
<1> HIDE DEF listed
<1>5. DOMAIN l = SettingsFields /\ l.source = source /\ l.formats = formats
  <2>1. Touches(l, listed, {"webcam_body"})
    BY <1>4, ShowIs
  <2> HIDE DEF l
  <2> QED BY <1>4, <2>1 DEF Touches, SameBut, SettingsFields
<1> HIDE DEF l
<1>6. shown.p = l /\ shown.c = s.c /\ HasCamera(shown)
  BY <1>3, <1>5 DEF HasCamera, IsLoading
<1> HIDE DEF shown
<1>7. /\ Writes(auto, shown) /\ auto.c.camera.format = "auto" /\ FormatWritten(auto, shown, All)
      /\ HasCamera(auto) /\ auto.p.source = source
  <2>1. "auto" \in CameraKinds
    BY DEF CameraKinds
  <2>2. Writes(auto, shown) /\ auto.c.camera.format = "auto" /\ FormatWritten(auto, shown, All)
    BY <1>5, <1>6, <2>1, FormatWrites
  <2> HIDE DEF auto
  <2> QED BY <1>5, <1>6, <2>2, WritesKeeps
<1> HIDE DEF auto
<1>8. ASSUME format \in CameraFormats(source, env)
      PROVE  /\ Writes(again, shown) /\ again.c.camera.format = format /\ FormatWritten(again, auto, One)
             /\ again.p.source = source
  <2>1. Writes(again, auto) /\ again.c.camera.format = format /\ FormatWritten(again, auto, One)
    BY <1>2, <1>7, <1>8, FormatWrites
  <2> HIDE DEF again
  <2> QED BY <1>6, <1>7, <2>1, WritesTrans, WritesKeeps
<1> HIDE DEF again, All, One
<1>9. Offers(formats, format) <=> format \in CameraFormats(source, env)
  BY <1>2 DEF Offers
<1>10. /\ Writes(restored, shown) /\ restored.p.source = source /\ restored.p.formats = formats
       /\ restored.c.camera.format \in CameraFormats(source, env)
       /\ restored.p.setups = SetupsOf(source, restored.c.camera.format)
       /\ restored.p.setups = {} \/ restored.c.camera.setup \in restored.p.setups
  <2>1. CASE format \in CameraFormats(source, env)
    BY <1>5, <1>6, <1>7, <1>8, <1>9, <2>1 DEF FormatWritten, One
  <2>2. CASE format \notin CameraFormats(source, env)
    BY <1>5, <1>6, <1>7, <1>9, <2>2 DEF FormatWritten, CameraFormats, All
  <2> QED BY <2>1, <2>2
<1>11. SetupSettled(camera, env) => restored.c.camera.format = format /\ restored.c.camera.setup = setup
  <2> SUFFICES ASSUME SetupSettled(camera, env)
               PROVE  restored.c.camera.format = format /\ restored.c.camera.setup = setup
    OBVIOUS
  <2>1. /\ format \in CameraFormats(source, env)
        /\ CameraSetups(source, format, env) = {} \/ setup \in CameraSetups(source, format, env)
    BY DEF SetupSettled
  <2>2. restored = again
    BY <1>9, <2>1
  <2>3. format \in CameraKinds /\ "auto" \in CameraKinds
    BY <1>2, <2>1 DEF CameraKinds
  <2>4. One = CameraSetups(source, format, env) /\ All = CameraSetups(source, "auto", env)
    BY <2>3, SetupsHaveRanks DEF One, All
  <2>5. CASE setup \in One
    <3>1. setup \in All
      BY <2>3, <2>4, <2>5 DEF CameraSetups, CameraKinds
    <3>2. auto.c.camera.setup = setup
      BY <1>6, <1>7, <3>1 DEF FormatWritten
    <3>3. again.c.camera.setup = setup
      BY <1>8, <2>1, <2>5, <3>2 DEF FormatWritten
    <3> QED BY <1>8, <2>1, <2>2, <3>3
  <2>6. CASE One = {}
    <3>1. All = {}
      BY <2>1, <2>4, <2>6 DEF CameraSetups, CameraFormats
    <3>2. auto.c.camera.setup = setup
      BY <1>6, <1>7, <3>1 DEF FormatWritten
    <3>3. again.c.camera.setup = setup
      BY <1>8, <2>1, <2>6, <3>2 DEF FormatWritten
    <3> QED BY <1>8, <2>1, <2>2, <3>3
  <2> QED BY <2>1, <2>4, <2>5, <2>6
<1> HIDE DEF restored
<1>12. /\ found.c = restored.c /\ found.p.source = source /\ found.p.formats = formats
       /\ found.p.setups = restored.p.setups
  BY <1>10 DEF Writes, CameraOnly, IsLoading, SettingsFields
<1> HIDE DEF found
<1>13. CameraShowsSetup(found)
  BY <1>2, <1>10, <1>12 DEF CameraShowsSetup
<1>14. IsRecordOf(found.c, ConfigFields) /\ IsRecordOf(found.c.camera, CameraParts) /\ found.c.camera.source = s.c.camera.source
  BY <1>6, <1>10, <1>12 DEF Writes
<1> HIDE DEF q, camera
<1>15. SetupSettled(camera, env) => found.c.camera.format = format /\ found.c.camera.setup = setup
  BY <1>11, <1>12
<1> QED BY <1>1, <1>13, <1>14, <1>15 DEF q, camera

LEMMA SourceHidden ==
  ASSUME NEW s, HasCamera(s)
  PROVE  LET q == SourcePicked(s, "") IN q.c = s.c /\ q.p.source = "" /\ q.p.formats = <<>> /\ q.p.setups = s.p.setups
<1> DEFINE t == [s EXCEPT !.p.source = "", !.p.camera = "", !.p.camera_setup = 0,
                          !.p.formats = <<>>, !.p.format = ""]
           q == SourcePicked(s, "")
           l == Show(t.p, {"webcam_body"}, FALSE)
<1>1. q = [t EXCEPT !.p = l]
  BY DEF SourcePicked
<1>2. /\ DOMAIN t.p = SettingsFields /\ t.p.source = "" /\ t.c = s.c /\ DOMAIN t = {"p", "c"}
      /\ t.p.formats = <<>> /\ t.p.setups = s.p.setups
  BY DEF HasCamera, IsLoading, SettingsFields
<1> HIDE DEF t, q
<1>3. l.source = "" /\ l.formats = <<>> /\ l.setups = s.p.setups
  <2>1. Touches(l, t.p, {"webcam_body"})
    BY <1>2, ShowIs
  <2> HIDE DEF l
  <2> QED BY <1>2, <2>1 DEF Touches, SameBut, SettingsFields
<1> HIDE DEF l
<1>4. q.p = l /\ q.c = s.c
  BY <1>1, <1>2
<1> QED BY <1>3, <1>4 DEF q

LEMMA PickedFormatShows ==
  ASSUME env \in Environments, NEW s, HasCamera(s), CameraShowsSetup(s), s.p.source # "",
         NEW format \in CameraFormats(s.p.source, env)
  PROVE  LET q == FormatPicked(s, format)
         IN  /\ Writes(q, s) /\ CameraShowsSetup(q) /\ q.c.camera.format = format
             /\ format = s.c.camera.format => q.c.camera.setup = s.c.camera.setup
<1> DEFINE q == FormatPicked(s, format)
           setups == SetupsOf(s.p.source, format)
<1>1. /\ s.p.source \in DOMAIN env.cameras /\ ToSet(s.p.formats) = CameraFormats(s.p.source, env)
      /\ s.p.setups = SetupsOf(s.p.source, s.c.camera.format)
      /\ s.p.setups = {} \/ s.c.camera.setup \in s.p.setups
  BY DEF CameraShowsSetup
<1>2. format \in CameraKinds
  BY FormatsAreOffered
<1>3. Writes(q, s) /\ q.c.camera.format = format /\ FormatWritten(q, s, setups)
  BY <1>1, <1>2, FormatWrites
<1> HIDE DEF q
<1>4. q.p.source = s.p.source
  BY <1>3, WritesKeeps
<1>5. CameraShowsSetup(q)
  BY <1>1, <1>3, <1>4 DEF CameraShowsSetup, FormatWritten
<1>6. format = s.c.camera.format => q.c.camera.setup = s.c.camera.setup
  BY <1>1, <1>3 DEF FormatWritten
<1> QED BY <1>3, <1>5, <1>6 DEF q

LEMMA PickedSetupShows ==
  ASSUME NEW s, HasCamera(s), CameraShowsSetup(s), NEW setup \in s.p.setups
  PROVE  LET q == SetupPicked(s, setup)
         IN  Writes(q, s) /\ CameraShowsSetup(q) /\ q.c.camera.format = s.c.camera.format /\ q.c.camera.setup = setup
<1> DEFINE q == SetupPicked(s, setup)
<1>1. /\ Writes(q, s) /\ q.c.camera.format = s.c.camera.format /\ q.c.camera.setup = setup
      /\ q.p.setups = s.p.setups /\ q.p.formats = s.p.formats
  BY SetupWrites
<1> HIDE DEF q
<1>2. q.p.source = s.p.source
  BY <1>1, WritesKeeps
<1>3. CameraShowsSetup(q)
  BY <1>1, <1>2 DEF CameraShowsSetup
<1> QED BY <1>1, <1>3 DEF q

LEMMA SameParts ==
  ASSUME NEW c, NEW d, IsRecordOf(c, ConfigFields), IsRecordOf(d, ConfigFields), SameBut(d, c, {"camera"}),
         IsRecordOf(c.camera, CameraParts), IsRecordOf(d.camera, CameraParts),
         d.camera.source = c.camera.source, d.camera.format = c.camera.format, d.camera.setup = c.camera.setup
  PROVE  d = c
<1>1. d.camera = c.camera
  <2> DEFINE x == c.camera
             y == d.camera
  <2>1. \A f \in CameraParts : y[f] = x[f]
    BY DEF CameraParts
  <2>2. x = [f \in CameraParts |-> x[f]] /\ y = [f \in CameraParts |-> y[f]]
    BY DEF IsRecordOf
  <2> HIDE DEF x, y
  <2>3. x = y
    BY <2>1, <2>2
  <2> QED BY <2>3 DEF x, y
<1>2. c = [f \in ConfigFields |-> c[f]] /\ d = [f \in ConfigFields |-> d[f]]
  BY DEF IsRecordOf
<1>3. DOMAIN c = ConfigFields
  BY <1>2
<1>4. \A f \in ConfigFields : d[f] = c[f]
  BY <1>1, <1>3 DEF SameBut, ConfigFields
<1> QED BY <1>2, <1>4

LEMMA NothingIsOffered == \A x : ~Offers(<<>>, x)
<1>1. DOMAIN <<>> = {}
  OBVIOUS
<1>2. ToSet(<<>>) = {}
  BY <1>1 DEF ToSet
<1> QED BY <1>2 DEF Offers

\* Loading the camera: a settled one is kept, and the page's will settle.
LEMMA CameraLoads ==
  ASSUME env \in Environments, NEW s, HasCamera(s), s.p.source = "", s.p.formats = <<>>, s.p.setups = {}
  PROVE  LET q == SetupLoaded(FormatLoaded(SourceLoaded(s)), s.c.camera.setup)
         IN  /\ HasCamera(q) /\ SameBut(q.p, s.p, SourceFields) /\ SameBut(q.c, s.c, {"camera"})
             /\ CameraShowsSetup(q)
             /\ IsRecordOf(s.c, ConfigFields) /\ CameraSettled(s.c.camera, env) =>
                  q.c = s.c /\ q.p.source = s.c.camera.source
<1> DEFINE a == SourceLoaded(s)
           b == FormatLoaded(a)
           q == SetupLoaded(b, s.c.camera.setup)
           source == s.c.camera.source
           setup == s.c.camera.setup
           Stays == IsRecordOf(s.c, ConfigFields) /\ CameraSettled(s.c.camera, env)
           Result == /\ HasCamera(q) /\ SameBut(q.p, s.p, SourceFields) /\ SameBut(q.c, s.c, {"camera"})
                     /\ CameraShowsSetup(q)
                     /\ Stays => q.c = s.c /\ q.p.source = source
<1>1. \A x : ~Offers(<<>>, x)
  BY NothingIsOffered
<1>2. ASSUME source = "" \/ source \notin DOMAIN env.cameras PROVE Result
  <2>1. /\ HasCamera(a) /\ SameBut(a.p, s.p, SourceFields) /\ a.c = s.c
        /\ a.p.source = "" /\ a.p.formats = <<>> /\ a.p.setups = {}
    <3>1. CASE source = ""
      <4>1. a = SourcePicked(s, "")
        BY <3>1 DEF SourceLoaded
      <4> HIDE DEF a
      <4>2. CameraOnly(a, s, SourceFields)
        BY <4>1, SourceIsPicked DEF HasCamera
      <4>3. a.c = s.c /\ a.p.source = "" /\ a.p.formats = <<>> /\ a.p.setups = {}
        BY <4>1, SourceHidden
      <4> QED BY <4>2, <4>3 DEF CameraOnly, HasCamera
    <3>2. CASE source # ""
      <4>1. a = s
        BY <1>2, <3>2 DEF SourceLoaded
      <4> QED BY <4>1 DEF SameBut
    <3> QED BY <3>1, <3>2
  <2> HIDE DEF a
  <2>2. b = a
    BY <1>1, <2>1 DEF FormatLoaded
  <2> HIDE DEF b
  <2>3. q = a
    BY <2>1, <2>2 DEF SetupLoaded
  <2> HIDE DEF q
  <2>4. CameraShowsSetup(q)
    BY <2>1, <2>3 DEF CameraShowsSetup
  <2>5. Stays => source = ""
    BY <1>2 DEF CameraSettled, SetupSettled
  <2> QED BY <2>1, <2>3, <2>4, <2>5 DEF SameBut
<1>3. ASSUME source # "", source \in DOMAIN env.cameras PROVE Result
  <2>1. a = SourcePicked(s, source)
    BY <1>3 DEF SourceLoaded
  <2> DEFINE camera == [source |-> source, format |-> s.c.camera.format, setup |-> setup]
  <2> HIDE DEF a, camera
  <2>2. CameraOnly(a, s, SourceFields) /\ a.p.source = source
    <3> HIDE DEF source
    <3>1. IsLoading(s)
      BY DEF HasCamera
    <3> QED BY <2>1, <3>1, SourceIsPicked
  <2>3. /\ IsRecordOf(a.c, ConfigFields) /\ IsRecordOf(a.c.camera, CameraParts) /\ a.c.camera.source = source
        /\ CameraShowsSetup(a)
        /\ SetupSettled(camera, env) => a.c.camera.format = s.c.camera.format /\ a.c.camera.setup = setup
    BY <1>3, <2>1, SourceWrites DEF camera
  <2>4. HasCamera(a)
    BY <2>2, <2>3 DEF CameraOnly, HasCamera, IsRecordOf
  <2>5. a.c.camera.format \in CameraFormats(source, env) /\ Offers(a.p.formats, a.c.camera.format)
    BY <1>3, <2>2, <2>3 DEF CameraShowsSetup, Offers
  <2>6. b = FormatPicked(a, a.c.camera.format)
    BY <2>5 DEF FormatLoaded
  <2> HIDE DEF b
  <2>7. /\ Writes(b, a) /\ CameraShowsSetup(b) /\ b.c.camera.format = a.c.camera.format
        /\ b.c.camera.setup = a.c.camera.setup
    <3> DEFINE format == a.c.camera.format
    <3> HIDE DEF format, source
    <3>1. a.p.source # "" /\ format \in CameraFormats(a.p.source, env) /\ b = FormatPicked(a, format)
      BY <1>3, <2>2, <2>5, <2>6 DEF format
    <3>2. /\ Writes(b, a) /\ CameraShowsSetup(b) /\ b.c.camera.format = format
          /\ format = a.c.camera.format => b.c.camera.setup = a.c.camera.setup
      BY <2>3, <2>4, <3>1, PickedFormatShows
    <3> QED BY <3>2 DEF format
  <2>8. HasCamera(b) /\ b.p.source = source
    BY <2>2, <2>7, WritesKeeps
  <2>9. q = b \/ (setup \in b.p.setups /\ q = SetupPicked(b, setup))
    BY DEF SetupLoaded
  <2> HIDE DEF q
  <2>10. /\ Writes(q, a) /\ CameraShowsSetup(q) /\ q.c.camera.format = b.c.camera.format
         /\ q.c.camera.setup \in {b.c.camera.setup, setup} /\ q.p.source = source
    <3>1. CASE q = b
      BY <2>7, <2>8, <3>1
    <3>2. CASE setup \in b.p.setups /\ q = SetupPicked(b, setup)
      <4>1. /\ Writes(q, b) /\ CameraShowsSetup(q) /\ q.c.camera.format = b.c.camera.format
            /\ q.c.camera.setup = setup
        BY <2>7, <2>8, <3>2, PickedSetupShows
      <4>2. Writes(q, a) /\ q.p.source = source
        BY <2>4, <2>7, <2>8, <4>1, WritesTrans, WritesKeeps
      <4> QED BY <4>1, <4>2
    <3> QED BY <2>9, <3>1, <3>2
  <2>11. HasCamera(q)
    BY <2>10, WritesKeeps
  <2>12. SameBut(q.c, s.c, {"camera"})
    BY <2>2, <2>10 DEF Writes, CameraOnly, SameBut
  <2>13. SameBut(q.p, s.p, SourceFields)
    BY <2>2, <2>10 DEF Writes, CameraOnly, SameBut, SourceFields, SetupFields
  <2>14. ASSUME Stays PROVE q.c = s.c
    <3>1. SetupSettled(camera, env)
      <4>1. SetupSettled(s.c.camera, env)
        BY <1>3, <2>14 DEF CameraSettled
      <4> QED BY <4>1 DEF SetupSettled, camera
    <3>2. /\ q.c.camera.format = s.c.camera.format /\ q.c.camera.setup = setup /\ q.c.camera.source = source
      BY <2>3, <2>7, <2>10, <3>1 DEF Writes
    <3> QED BY <2>10, <2>12, <2>14, <3>2, SameParts DEF Writes, CameraSettled
  <2> QED BY <2>10, <2>11, <2>12, <2>13, <2>14
<1>4. Result
  BY <1>2, <1>3
<1> QED BY <1>4 DEF q

-----------------------------------------------------------------------------
(* Numbers and rows.                                                       *)

Entered(field, n) == n \in Int /\ (field = "replay_time" => n <= 86400)

LEMMA NumbersRound ==
  ASSUME NEW field \in DOMAIN Most, NEW n \in Int
  PROVE  /\ Entered(field, LoadedNumber(field, n))
         /\ Entered(field, n) => NumberSettled(field, SavedNumber(field, n)) /\ SavedNumber(field, n) \in Int
         /\ Entered(field, IF n > Most[field] THEN Most[field] ELSE n)
<1>1. DOMAIN Most = {"area_size", "resolution", "fps", "bitrate", "replay_time"}
  BY DEF Most
<1>2. CASE field \in {"area_size", "resolution"}
  BY <1>2 DEF Entered, LoadedNumber, SavedNumber, NumberSettled, Sized, Most
<1>3. CASE field \in {"fps", "bitrate"}
  BY <1>3 DEF Entered, LoadedNumber, SavedNumber, NumberSettled, AtLeast, Most
<1>4. CASE field = "replay_time"
  BY <1>4 DEF Entered, LoadedNumber, SavedNumber, NumberSettled, AtLeast, Most
<1> QED BY <1>1, <1>2, <1>3, <1>4

\* What a row of the page is saved as.
SavedInput(row) == [kind |-> IF row.kind \in {"app", "custom"} THEN "app" ELSE "device", id |-> row.id]

\* A host whose devices are all inputs shows a row of an output as one.
InputsNeedOutputs == \A e \in Environments : e.outputs = <<>> => e.inputs = <<>>

LEMMA FirstIsOffered ==
  ASSUME NEW S, NEW items \in Seq(S)
  PROVE  IF items = <<>> THEN First(items) = "" /\ \A x : ~Offers(items, x) ELSE Offers(items, First(items))
<1>1. CASE items = <<>>
  BY <1>1, NothingIsOffered DEF First
<1>2. CASE items # <<>>
  <2>1. 1 \in DOMAIN items
    BY <1>2
  <2> QED BY <1>2, <2>1 DEF First, Offers, ToSet
<1> QED BY <1>1, <1>2

LEMMA OfferedIsIn ==
  ASSUME NEW S, NEW items \in Seq(S), NEW x, Offers(items, x)
  PROVE  x \in S
<1>1. PICK i \in DOMAIN items : x = items[i]
  BY DEF Offers, ToSet
<1> QED BY <1>1

\* A device that a row shows is found again as a device of its kind.
LEMMA DevicesAreFound ==
  ASSUME InputsNeedOutputs, env \in Environments, NEW kind \in {"output", "input"}, NEW id, DeviceSettled(kind, id, env)
  PROVE  DeviceSettled(DeviceKind(id), id, env)
<1>1. /\ "" \notin Outputs /\ env.outputs \in Seq(Outputs) /\ env.inputs \in Seq(ToSet(env.inputs))
      /\ ToSet(env.inputs) \cap Outputs = {}
  BY SystemAssumption
<1>2. ASSUME Offers(env.outputs, id) PROVE id \in Outputs
  <2>1. env.outputs \in Seq(Outputs)
    BY <1>1
  <2> QED BY <1>2, <2>1, OfferedIsIn
<1>3. CASE kind = "output"
  <2>1. CASE Offers(env.outputs, id)
    BY <1>2, <2>1 DEF DeviceKind, DeviceSettled, Devices
  <2>2. CASE ~Offers(env.outputs, id)
    <3>1. env.outputs = <<>> /\ id = ""
      BY <1>1, <1>3, <2>2, FirstIsOffered DEF DeviceSettled, Devices
    <3>2. env.inputs = <<>>
      BY <3>1 DEF InputsNeedOutputs
    <3>3. DeviceKind(id) = "input"
      BY <1>1, <3>1 DEF DeviceKind
    <3> QED BY <3>1, <3>2, <3>3 DEF DeviceSettled, Devices, First
  <2> QED BY <2>1, <2>2
<1>4. CASE kind = "input"
  <2>1. Offers(env.inputs, id) \/ id = ""
    BY <1>1, <1>4, FirstIsOffered DEF DeviceSettled, Devices
  <2>2. id \notin Outputs
    BY <1>1, <2>1 DEF Offers
  <2> QED BY <1>4, <2>2 DEF DeviceKind
<1> QED BY <1>3, <1>4

LEMMA RowsAreSaved ==
  ASSUME InputsNeedOutputs, env \in Environments, NEW row, RowSettled(row)
  PROVE  InputSettled(SavedInput(row), env)
<1> DEFINE input == SavedInput(row)
<1>1. IsRecordOf(input, {"kind", "id"}) /\ input.id = row.id
  BY DEF SavedInput, IsRecordOf
<1>2. CASE row.kind \in {"app", "custom"} /\ env.app_audio
  <2>1. input.kind = "app"
    BY <1>2 DEF SavedInput
  <2> QED BY <1>1, <1>2, <2>1 DEF InputSettled
<1>3. CASE row.kind \in {"output", "input"} /\ DeviceSettled(row.kind, row.id, env)
  <2>1. input.kind = "device"
    BY <1>3 DEF SavedInput
  <2>2. DeviceSettled(DeviceKind(row.id), row.id, env)
    BY <1>3, DevicesAreFound
  <2> HIDE DEF input
  <2>3. DeviceSettled(DeviceKind(input.id), input.id, env)
    BY <1>1, <2>2
  <2> QED BY <1>1, <2>1, <2>3 DEF InputSettled, input
<1> QED BY <1>2, <1>3 DEF RowSettled

LEMMA DeviceRowSettles ==
  ASSUME NEW kind \in {"output", "input"}
  PROVE  RowSettled(DeviceRow(kind))
BY DEF RowSettled, DeviceRow, DeviceSettled, Devices, DeviceItems

LEMMA InputsAreLoaded ==
  ASSUME NEW input, input.kind = "app" => env.app_audio
  PROVE  /\ RowSettled(LoadedRow(input))
         /\ InputSettled(input, env) => SavedInput(LoadedRow(input)) = input
<1> DEFINE row == LoadedRow(input)
<1>1. ASSUME IsRecordOf(input, {"kind", "id"}) PROVE input = [kind |-> input.kind, id |-> input.id]
  BY <1>1 DEF IsRecordOf
<1>2. CASE input.kind = "app"
  <2>1. row.kind \in {"app", "custom"} /\ row.id = input.id
    BY <1>2 DEF LoadedRow
  <2> HIDE DEF row
  <2>2. SavedInput(row) = [kind |-> "app", id |-> input.id]
    BY <2>1 DEF SavedInput
  <2> QED BY <1>1, <1>2, <2>1, <2>2 DEF RowSettled, InputSettled, row
<1>3. CASE input.kind # "app"
  <2> DEFINE kind == DeviceKind(input.id)
             id == IF Offers(DeviceItems(kind), input.id) THEN input.id ELSE First(DeviceItems(kind))
  <2>1. row.kind = kind /\ row.id = id
    BY <1>3 DEF LoadedRow, DeviceRow
  <2>2. kind \in {"output", "input"}
    BY DEF DeviceKind
  <2>3. DeviceItems(kind) = Devices(kind, env)
    BY DEF DeviceItems, Devices
  <2>4. DeviceSettled(kind, input.id, env) => id = input.id
    BY <2>3 DEF DeviceSettled
  <2>5. DeviceSettled(kind, id, env)
    BY <2>3 DEF DeviceSettled
  <2>6. InputSettled(input, env) => input.kind = "device" /\ DeviceSettled(kind, input.id, env)
    BY <1>3 DEF InputSettled
  <2> HIDE DEF row, kind, id
  <2>7. RowSettled(row)
    BY <2>1, <2>2, <2>5 DEF RowSettled
  <2>8. SavedInput(row) = [kind |-> "device", id |-> id]
    BY <2>1, <2>2 DEF SavedInput
  <2>9. InputSettled(input, env) => SavedInput(row) = input
    BY <1>1, <2>4, <2>6, <2>8 DEF InputSettled
  <2> QED BY <2>7, <2>9 DEF row
<1> QED BY <1>2, <1>3

\* The n-th of the first N numbers that are in S.
LEMMA PlaceExists ==
  ASSUME NEW N \in Nat, NEW S \in SUBSET (1..N), NEW n \in 1..Cardinality(S)
  PROVE  \E j \in S : Cardinality({i \in S : i <= j}) = n
<1> DEFINE Upto(k) == {i \in S : i <= k}
           J == {k \in Nat : Cardinality(Upto(k)) >= n}
<1>1. IsFiniteSet(S) /\ Cardinality(S) \in Nat
  <2>1. IsFiniteSet(1..N)
    BY FS_Interval
  <2> QED BY <2>1, FS_Subset, FS_CardinalityType
<1>2. ASSUME NEW k PROVE IsFiniteSet(Upto(k)) /\ Cardinality(Upto(k)) \in Nat
  <2>1. Upto(k) \subseteq S
    OBVIOUS
  <2> HIDE DEF Upto
  <2> QED BY <1>1, <2>1, FS_Subset, FS_CardinalityType
<1>3. \A i \in S : i \in Nat /\ 1 <= i /\ i <= N
  OBVIOUS
<1>4. Upto(N) = S /\ Upto(0) = {}
  <2>1. (\A i \in S : i <= N) /\ \A i \in S : ~(i <= 0)
    BY <1>3
  <2>2. Upto(N) = S
    BY <2>1, Zenon
  <2>3. Upto(0) = {}
    BY <2>1, Zenon
  <2> QED BY <2>2, <2>3
<1>5. N \in J /\ 0 \notin J
  <2>1. Cardinality(Upto(0)) = 0
    BY <1>4, FS_EmptySet
  <2> HIDE DEF Upto
  <2> QED BY <1>1, <1>4, <2>1
<1> DEFINE m == Min(J)
<1>6. m \in J /\ \A k \in J : m <= k
  <2>1. J \in SUBSET Nat /\ J # {}
    BY <1>5
  <2> HIDE DEF J
  <2> QED BY <2>1, MinIsMember
<1> HIDE DEF m
<1>7. m \in Nat /\ m # 0 /\ Cardinality(Upto(m)) >= n
  BY <1>5, <1>6
<1>8. m - 1 \in Nat /\ Cardinality(Upto(m - 1)) < n
  <2>1. m - 1 \in Nat /\ m - 1 \notin J
    <3>1. m - 1 \in Nat /\ m - 1 < m
      BY <1>7
    <3> HIDE DEF J
    <3> QED BY <1>6, <1>7, <3>1
  <2>2. Cardinality(Upto(m - 1)) \in Nat
    BY <1>2
  <2> HIDE DEF Upto
  <2> QED BY <2>1, <2>2
<1>9. m \in S
  <2> SUFFICES ASSUME m \notin S PROVE FALSE
    OBVIOUS
  <2>1. Upto(m) = Upto(m - 1)
    <3>1. \A i \in S : i <= m <=> i <= m - 1
      BY <1>3, <1>7
    <3> QED BY <3>1, Zenon
  <2> HIDE DEF Upto
  <2>2. Cardinality(Upto(m - 1)) \in Nat
    BY <1>2
  <2> QED BY <1>7, <1>8, <2>1, <2>2
<1>10. Cardinality(Upto(m)) = Cardinality(Upto(m - 1)) + 1
  <2>1. Upto(m) = Upto(m - 1) \cup {m} /\ m \notin Upto(m - 1)
    <3>1. (\A i \in S : i <= m <=> i <= m - 1 \/ i = m) /\ ~(m <= m - 1)
      BY <1>3, <1>7
    <3>2. Upto(m) = Upto(m - 1) \cup {m}
      BY <1>9, <3>1, Zenon
    <3> QED BY <3>1, <3>2
  <2> HIDE DEF Upto
  <2> QED BY <1>2, <2>1, FS_AddElement
<1>11. Cardinality(Upto(m)) = n
  <2> HIDE DEF Upto
  <2>1. Cardinality(Upto(m - 1)) \in Nat
    BY <1>2
  <2> QED BY <1>7, <1>8, <1>10, <2>1
<1> QED BY <1>9, <1>11

LEMMA RowsAreLoaded ==
  ASSUME NEW track, IsList(track.inputs)
  PROVE  LET list == LoadedRows(track)
         IN  /\ \A n \in DOMAIN list : RowSettled(list[n])
             /\ (\A j \in DOMAIN track.inputs : InputSettled(track.inputs[j], env)) =>
                  /\ DOMAIN list = DOMAIN track.inputs
                  /\ \A n \in DOMAIN list : SavedInput(list[n]) = track.inputs[n]
<1> DEFINE rows  == {j \in DOMAIN track.inputs : track.inputs[j].kind = "app" => env.app_audio}
           at(n) == CHOOSE j \in rows : Cardinality({i \in rows : i <= j}) = n
           list == LoadedRows(track)
           N == Len(track.inputs)
<1>1. DOMAIN track.inputs = 1..N /\ N \in Nat
  BY ListIsFunction
<1>2. list = [n \in 1 .. Cardinality(rows) |-> LoadedRow(track.inputs[at(n)])]
  BY DEF LoadedRows
<1>3. rows \in SUBSET (1..N)
  BY <1>1
<1>4. \A j \in rows : track.inputs[j].kind = "app" => env.app_audio
  OBVIOUS
<1>5. (\A j \in DOMAIN track.inputs : InputSettled(track.inputs[j], env)) => rows = 1..N
  BY <1>1 DEF InputSettled
<1> HIDE DEF rows, list
<1>6. ASSUME NEW n \in 1..Cardinality(rows) PROVE at(n) \in rows /\ Cardinality({i \in rows : i <= at(n)}) = n
  <2>1. \E j \in rows : Cardinality({i \in rows : i <= j}) = n
    BY <1>1, <1>3, <1>6, PlaceExists
  <2> QED BY <2>1
<1> HIDE DEF at
<1>7. DOMAIN list = 1..Cardinality(rows) /\ \A n \in DOMAIN list : list[n] = LoadedRow(track.inputs[at(n)])
  BY <1>2
<1>8. \A n \in DOMAIN list : RowSettled(list[n])
  BY <1>4, <1>6, <1>7, InputsAreLoaded
<1>9. ASSUME \A j \in DOMAIN track.inputs : InputSettled(track.inputs[j], env)
      PROVE  DOMAIN list = DOMAIN track.inputs /\ \A n \in DOMAIN list : SavedInput(list[n]) = track.inputs[n]
  <2>1. rows = 1..N /\ Cardinality(rows) = N
    <3>1. rows = 1..N
      BY <1>5, <1>9
    <3> HIDE DEF N
    <3>2. Cardinality(1..N) = IF 1 > N THEN 0 ELSE N - 1 + 1
      BY <1>1, FS_Interval
    <3> QED BY <1>1, <3>1, <3>2
  <2>2. ASSUME NEW n \in 1..N PROVE at(n) = n
    <3>1. at(n) \in 1..N /\ Cardinality({i \in 1..N : i <= at(n)}) = n
      BY <1>6, <2>1
    <3>2. {i \in 1..N : i <= at(n)} = 1..at(n)
      BY <1>1, <3>1
    <3>3. Cardinality(1..at(n)) = at(n)
      BY <3>1, FS_Interval
    <3> QED BY <3>1, <3>2, <3>3
  <2>3. ASSUME NEW n \in DOMAIN list PROVE SavedInput(list[n]) = track.inputs[n]
    <3>1. n \in DOMAIN track.inputs /\ list[n] = LoadedRow(track.inputs[n])
      BY <1>1, <1>7, <2>1, <2>2
    <3>2. InputSettled(track.inputs[n], env) /\ (track.inputs[n].kind = "app" => env.app_audio)
      BY <1>9, <3>1 DEF InputSettled
    <3> QED BY <3>1, <3>2, InputsAreLoaded
  <2> QED BY <1>1, <1>7, <2>1, <2>3
<1> QED BY <1>8, <1>9 DEF list

-----------------------------------------------------------------------------
(* What is saved is settled.                                               *)

LEMMA SavedTracksAre ==
  ASSUME NEW p, AreTracks(p.tracks)
  PROVE  LET ts == SavedTracks(p)
         IN  /\ IsList(ts) /\ DOMAIN ts = DOMAIN p.tracks /\ Len(ts) = Len(p.tracks)
             /\ \A i \in DOMAIN ts :
                  /\ IsRecordOf(ts[i], {"invert", "inputs"}) /\ ts[i].invert = p.tracks[i].invert
                  /\ IsList(ts[i].inputs) /\ DOMAIN ts[i].inputs = DOMAIN p.tracks[i].rows
                  /\ \A j \in DOMAIN ts[i].inputs : ts[i].inputs[j] = SavedInput(p.tracks[i].rows[j])
<1> DEFINE In(rows) == [j \in DOMAIN rows |-> SavedInput(rows[j])]
           Track(t) == [invert |-> t.invert, inputs |-> In(t.rows)]
           ts == SavedTracks(p)
<1>1. ts = [i \in DOMAIN p.tracks |-> Track(p.tracks[i])]
  BY DEF SavedTracks, SavedInput
<1> HIDE DEF ts
<1>2. DOMAIN p.tracks = 1..Len(p.tracks) /\ Len(p.tracks) \in Nat
  BY ListIsFunction DEF AreTracks
<1>3. IsList(ts) /\ DOMAIN ts = DOMAIN p.tracks /\ Len(ts) = Len(p.tracks)
  <2> HIDE DEF Track
  <2>1. DOMAIN ts = DOMAIN p.tracks /\ ts = [i \in 1..Len(p.tracks) |-> ts[i]]
    BY <1>1, <1>2
  <2> QED BY <1>2, <2>1, FunctionIsList
<1>4. ASSUME NEW i \in DOMAIN ts
      PROVE  /\ IsRecordOf(ts[i], {"invert", "inputs"}) /\ ts[i].invert = p.tracks[i].invert
             /\ IsList(ts[i].inputs) /\ DOMAIN ts[i].inputs = DOMAIN p.tracks[i].rows
             /\ \A j \in DOMAIN ts[i].inputs : ts[i].inputs[j] = SavedInput(p.tracks[i].rows[j])
  <2> DEFINE rows == p.tracks[i].rows
  <2>1. ts[i] = Track(p.tracks[i])
    BY <1>1, <1>3
  <2>2. IsRecordOf(ts[i], {"invert", "inputs"}) /\ ts[i].invert = p.tracks[i].invert /\ ts[i].inputs = In(rows)
    <3> HIDE DEF In
    <3> QED BY <2>1 DEF IsRecordOf
  <2>3. IsList(rows)
    BY <1>3 DEF AreTracks, IsTrack
  <2> HIDE DEF rows
  <2>4. DOMAIN rows = 1..Len(rows) /\ Len(rows) \in Nat
    BY <2>3, ListIsFunction
  <2>5. IsList(In(rows))
    BY <2>4, FunctionIsList
  <2>6. DOMAIN In(rows) = DOMAIN rows /\ \A j \in DOMAIN rows : In(rows)[j] = SavedInput(rows[j])
    OBVIOUS
  <2> HIDE DEF In
  <2> QED BY <2>2, <2>5, <2>6 DEF rows
<1> QED BY <1>3, <1>4 DEF ts

LEMMA TracksSettle ==
  ASSUME InputsNeedOutputs, env \in Environments, NEW p, AreTracks(p.tracks), RowsSettled(p)
  PROVE  TracksSettled(SavedTracks(p), env)
<1> DEFINE ts == SavedTracks(p)
<1>1. /\ IsList(ts) /\ DOMAIN ts = DOMAIN p.tracks /\ Len(ts) = Len(p.tracks)
      /\ \A i \in DOMAIN ts :
           /\ IsRecordOf(ts[i], {"invert", "inputs"}) /\ ts[i].invert = p.tracks[i].invert
           /\ IsList(ts[i].inputs) /\ DOMAIN ts[i].inputs = DOMAIN p.tracks[i].rows
           /\ \A j \in DOMAIN ts[i].inputs : ts[i].inputs[j] = SavedInput(p.tracks[i].rows[j])
  BY SavedTracksAre
<1> HIDE DEF ts
<1>2. ASSUME NEW i \in DOMAIN ts, NEW j \in DOMAIN ts[i].inputs PROVE InputSettled(ts[i].inputs[j], env)
  <2>1. RowSettled(p.tracks[i].rows[j]) /\ ts[i].inputs[j] = SavedInput(p.tracks[i].rows[j])
    BY <1>1 DEF RowsSettled
  <2> QED BY <2>1, RowsAreSaved
<1>3. \A i \in DOMAIN ts : TrackSettled(ts[i], env)
  BY <1>1, <1>2 DEF TrackSettled
<1> QED BY <1>1, <1>3 DEF TracksSettled, RowsSettled, ts

\* The configuration that a page saves, part by part.
IsSaved(d, p, c) ==
    /\ IsRecordOf(d, ConfigFields)
    /\ d.sel = p.sel /\ d.flags = p.flags /\ d.num = [f \in DOMAIN p.num |-> SavedNumber(f, p.num[f])]
    /\ IF type = "screenshot" THEN d.tracks = c.tracks /\ d.camera = c.camera
       ELSE d.tracks = SavedTracks(p) /\ d.camera = [c.camera EXCEPT !.source = p.source]

LEMMA SavedParts ==
  ASSUME NEW p, NEW c, DOMAIN c = ConfigFields
  PROVE  IsSaved(Saved(p, c), p, c)
<1> DEFINE num == [f \in DOMAIN p.num |-> SavedNumber(f, p.num[f])]
           s == SavedScreenshot(p, c)
           ts == SavedTracks(p)
           camera == [c.camera EXCEPT !.source = p.source]
           v == [s EXCEPT !.tracks = ts, !.camera.source = p.source]
<1>1. s = [c EXCEPT !.sel = p.sel, !.flags = p.flags, !.num = num]
  BY DEF SavedScreenshot
<1> HIDE DEF num, s, ts
<1>2. /\ DOMAIN s = ConfigFields /\ IsRecordOf(s, ConfigFields) /\ s.sel = p.sel /\ s.flags = p.flags /\ s.num = num
      /\ s.tracks = c.tracks /\ s.camera = c.camera
  BY <1>1 DEF ConfigFields, IsRecordOf
<1>3. v = [s EXCEPT !.tracks = ts, !.camera = camera]
  BY <1>2 DEF ConfigFields
<1> HIDE DEF camera, v
<1>4. /\ IsRecordOf(v, ConfigFields) /\ v.sel = p.sel /\ v.flags = p.flags /\ v.num = num
      /\ v.tracks = ts /\ v.camera = camera
  BY <1>2, <1>3 DEF ConfigFields, IsRecordOf
<1>5. CASE type = "screenshot"
  <2>1. Saved(p, c) = s
    BY <1>5 DEF Saved, s
  <2> QED BY <1>2, <1>5, <2>1 DEF IsSaved, num
<1>6. CASE type # "screenshot"
  <2>1. Saved(p, c) = v
    BY <1>6 DEF Saved, SavedVideo, s, ts, v
  <2> QED BY <1>4, <1>6, <2>1 DEF IsSaved, num, ts, camera
<1> QED BY <1>5, <1>6

LEMMA PageSettles ==
  ASSUME InputsNeedOutputs, env \in Environments, type \in PageTypes,
         NEW p, Good(p), NEW c, IsConfig(c), IsTyped(c), WillSettle(p, c)
  PROVE  Settled(Saved(p, c), env) /\ IsTyped(Saved(p, c))
<1> DEFINE d == Saved(p, c)
<1>1. IsSaved(d, p, c)
  BY SavedParts DEF IsConfig
<1> HIDE DEF d
<1>2. ASSUME NEW f \in DOMAIN p.num PROVE NumberSettled(f, SavedNumber(f, p.num[f])) /\ SavedNumber(f, p.num[f]) \in Int
  <2>1. f \in DOMAIN Most /\ p.num[f] \in Int /\ Entered(f, p.num[f])
    BY DEF WillSettle, EntriesSettled, Entered
  <2> QED BY <2>1, NumbersRound
<1>3. d.num = [f \in DOMAIN p.num |-> SavedNumber(f, p.num[f])] /\ DOMAIN p.num \subseteq DOMAIN Most
  BY <1>1 DEF IsSaved, WillSettle, EntriesSettled
<1>4. NumbersSettled(d.num) /\ DOMAIN d.num \subseteq DOMAIN Most /\ \A f \in DOMAIN d.num : d.num[f] \in Int
  BY <1>2, <1>3 DEF NumbersSettled, IsRecordOf
<1>5. IsRecordOf(d, ConfigFields) /\ ItemsSettled(d.sel, env)
  BY <1>1 DEF IsSaved, WillSettle
<1>6. DOMAIN d.camera = CameraParts
  BY <1>1 DEF IsSaved, IsTyped
<1>7. ASSUME type # "screenshot" PROVE TracksSettled(d.tracks, env) /\ CameraSettled(d.camera, env)
  <2>1. TracksSettled(d.tracks, env)
    BY <1>1, <1>7, TracksSettle DEF IsSaved, WillSettle, Good, IsSettingsPage
  <2>2. d.camera = [c.camera EXCEPT !.source = p.source] /\ DOMAIN c.camera = CameraParts
    BY <1>1, <1>7 DEF IsSaved, IsTyped
  <2>3. /\ IsRecordOf(d.camera, CameraParts) /\ d.camera.source = p.source /\ d.camera.format = c.camera.format
        /\ d.camera.setup = c.camera.setup
    BY <2>2 DEF IsRecordOf, CameraParts
  <2>4. CameraShowsSetup([p |-> p, c |-> c])
    BY <1>7 DEF WillSettle
  <2>5. ASSUME p.source # "" PROVE SetupSettled(d.camera, env)
    <3>1. /\ p.source \in DOMAIN env.cameras /\ c.camera.format \in CameraFormats(p.source, env)
          /\ p.setups = SetupsOf(p.source, c.camera.format)
          /\ p.setups = {} \/ c.camera.setup \in p.setups
      BY <2>4, <2>5 DEF CameraShowsSetup
    <3>2. c.camera.format \in CameraKinds
      BY <3>1, FormatsAreOffered
    <3>3. p.setups = CameraSetups(p.source, c.camera.format, env)
      BY <3>1, <3>2, SetupsHaveRanks
    <3> QED BY <2>3, <3>1, <3>3 DEF SetupSettled
  <2> QED BY <2>1, <2>3, <2>5 DEF CameraSettled
<1> QED BY <1>4, <1>5, <1>6, <1>7 DEF Settled, IsTyped, d

-----------------------------------------------------------------------------
(* What is loaded will settle, and what is settled is kept.                *)

LEMMA ListsAreEqual ==
  ASSUME NEW f, NEW g, IsList(f), IsList(g), DOMAIN f = DOMAIN g, \A i \in DOMAIN f : f[i] = g[i]
  PROVE  f = g
<1>1. f = [k \in DOMAIN f |-> f[k]] /\ g = [k \in DOMAIN g |-> g[k]]
  BY ListIsFunction
<1> QED BY <1>1

LEMMA WhipIsOffered == ~env.whip => ~Offers(ServiceItems(env), "whip")
<1> SUFFICES ASSUME ~env.whip PROVE ~Offers(ServiceItems(env), "whip")
  OBVIOUS
<1> DEFINE Rest == {"twitch", "youtube", "rumble", "kick", "custom"}
           a == <<"twitch", "youtube", "rumble", "kick">>
           b == Some(env.whip, <<"whip">>)
           c == <<"custom">>
<1>1. a \in Seq(Rest) /\ b \in Seq(Rest) /\ c \in Seq(Rest)
  BY DEF Some
<1>2. ServiceItems(env) = (a \o b) \o c
  BY DEF ServiceItems
<1>3. "whip" \notin Rest
  OBVIOUS
<1> HIDE DEF a, b, c, Rest
<1>4. ServiceItems(env) \in Seq(Rest)
  BY <1>1, <1>2
<1> QED BY <1>3, <1>4, OfferedIsIn

\* A settled configuration has no service that has to be replaced.
LEMMA ServiceIsKept ==
  ASSUME NEW c, type = "stream", ItemsSettled(c.sel, env)
  PROVE  OfferedService(c) = c
<1>1. "service" \in Boxes
  BY DEF Boxes, StreamBoxes
<1>2. ItemSettled(env, "service", c.sel.service)
  BY <1>1 DEF ItemsSettled
<1>3. FirstShown(env, "service") = "twitch" /\ BoxItems(env, "service") = ServiceItems(env)
  BY ServicesAreKnown DEF FirstShown
<1>4. c.sel.service = "whip" => env.whip
  BY <1>2, <1>3, WhipIsOffered DEF ItemSettled
<1> QED BY <1>4 DEF OfferedService

LEMMA LoadedRowsSettle ==
  ASSUME NEW p, AreTracks(p.tracks), NEW tracks, ShowsTracks(p, tracks), \A i \in DOMAIN tracks : IsList(tracks[i].inputs)
  PROVE  RowsSettled(p)
<1>1. ASSUME NEW t, NEW i \in DOMAIN tracks, ShowsTrack(t, tracks[i]), NEW j \in DOMAIN t.rows
      PROVE  RowSettled(t.rows[j])
  <2>1. t.rows = LoadedRows(tracks[i]) /\ IsList(tracks[i].inputs)
    BY <1>1 DEF ShowsTrack
  <2> QED BY <1>1, <2>1, RowsAreLoaded
<1>2. CASE type # "stream"
  BY <1>1, <1>2 DEF ShowsTracks, RowsSettled
<1>3. CASE type = "stream"
  <2>1. DOMAIN p.tracks = {1} /\ (p.tracks[1].rows = <<>> \/ 1 \in DOMAIN tracks)
    BY <1>3 DEF ShowsTracks
  <2>2. Len(p.tracks) = 1
    <3> DEFINE n == Len(p.tracks)
    <3>1. {1} = 1..n /\ n \in Nat
      BY <2>1, ListIsFunction DEF AreTracks
    <3> HIDE DEF n
    <3>2. n \in 1..n
      <4>1. 1 \in 1..n
        BY <3>1
      <4> QED BY <3>1, <4>1
    <3>3. n = 1
      BY <3>1, <3>2, Zenon
    <3> QED BY <3>3 DEF n
  <2>3. ASSUME NEW j \in DOMAIN p.tracks[1].rows PROVE RowSettled(p.tracks[1].rows[j])
    <3>1. DOMAIN <<>> = {}
      OBVIOUS
    <3>2. 1 \in DOMAIN tracks /\ ShowsTrack(p.tracks[1], tracks[1])
      BY <1>3, <2>1, <3>1 DEF ShowsTracks
    <3> QED BY <1>1, <3>2
  <2> QED BY <2>1, <2>2, <2>3 DEF RowsSettled
<1> QED BY <1>2, <1>3

LEMMA TracksAreKept ==
  ASSUME NEW p, AreTracks(p.tracks), NEW tracks, ShowsTracks(p, tracks), TracksSettled(tracks, env)
  PROVE  SavedTracks(p) = tracks
<1> DEFINE ts == SavedTracks(p)
<1>1. /\ IsList(ts) /\ DOMAIN ts = DOMAIN p.tracks /\ Len(ts) = Len(p.tracks)
      /\ \A i \in DOMAIN ts :
           /\ IsRecordOf(ts[i], {"invert", "inputs"}) /\ ts[i].invert = p.tracks[i].invert
           /\ IsList(ts[i].inputs) /\ DOMAIN ts[i].inputs = DOMAIN p.tracks[i].rows
           /\ \A j \in DOMAIN ts[i].inputs : ts[i].inputs[j] = SavedInput(p.tracks[i].rows[j])
  BY SavedTracksAre
<1> HIDE DEF ts
<1>2. IsList(tracks) /\ \A i \in DOMAIN tracks : TrackSettled(tracks[i], env)
  BY DEF TracksSettled
<1>3. DOMAIN p.tracks = DOMAIN tracks /\ \A i \in DOMAIN tracks : ShowsTrack(p.tracks[i], tracks[i])
  <2>1. CASE type # "stream"
    BY <2>1 DEF ShowsTracks
  <2>2. CASE type = "stream"
    <3>1. DOMAIN tracks = 1..Len(tracks) /\ Len(tracks) = 1
      BY <1>2, <2>2, ListIsFunction DEF TracksSettled
    <3>2. DOMAIN tracks = {1}
      BY <3>1
    <3> QED BY <2>2, <3>2 DEF ShowsTracks
  <2> QED BY <2>1, <2>2
<1>4. ASSUME NEW i \in DOMAIN tracks PROVE ts[i] = tracks[i]
  <2> DEFINE t == ts[i]
             u == tracks[i]
             rows == p.tracks[i].rows
  <2>1. IsRecordOf(u, {"invert", "inputs"}) /\ IsList(u.inputs) /\ \A j \in DOMAIN u.inputs : InputSettled(u.inputs[j], env)
    BY <1>2 DEF TrackSettled
  <2>2. rows = LoadedRows(u) /\ p.tracks[i].invert = u.invert
    BY <1>3 DEF ShowsTrack
  <2>3. /\ IsRecordOf(t, {"invert", "inputs"}) /\ t.invert = u.invert
        /\ IsList(t.inputs) /\ DOMAIN t.inputs = DOMAIN rows
        /\ \A j \in DOMAIN t.inputs : t.inputs[j] = SavedInput(rows[j])
    BY <1>1, <1>3, <2>2
  <2> HIDE DEF t, u, rows
  <2>4. DOMAIN rows = DOMAIN u.inputs /\ \A n \in DOMAIN rows : SavedInput(rows[n]) = u.inputs[n]
    BY <2>1, <2>2, RowsAreLoaded
  <2>5. t.inputs = u.inputs
    BY <2>1, <2>3, <2>4, ListsAreEqual
  <2>6. t = u
    <3>1. \A f \in {"invert", "inputs"} : t[f] = u[f]
      BY <2>3, <2>5
    <3> QED BY <2>1, <2>3, <3>1 DEF IsRecordOf
  <2> QED BY <2>6 DEF t, u
<1>5. ts = tracks
  BY <1>1, <1>2, <1>3, <1>4, ListsAreEqual
<1> QED BY <1>5 DEF ts

\* The part of loading that every page has.
LEMMA ItemsAndNumbersLoad ==
  ASSUME NEW c, IsConfig(c), IsTyped(c), NEW s, ScreenshotLoads(s, c)
  PROVE  /\ ItemsSettled(s.p.sel, env) /\ EntriesSettled(s.p) /\ IsTyped(s.c) /\ s.c.camera = c.camera
         /\ IsRecordOf(c, ConfigFields) /\ ItemsSettled(c.sel, env) /\ NumbersSettled(c.num) =>
              s.c = c /\ s.p.sel = c.sel /\ c.num = [f \in DOMAIN s.p.num |-> SavedNumber(f, s.p.num[f])]
<1> DEFINE sel == s.p.sel
           num == s.p.num
<1>1. /\ sel = [widget \in Boxes |-> IF Kept(c, widget) THEN c.sel[widget] ELSE FirstShown(env, widget)]
      /\ num = [f \in DOMAIN c.num |-> LoadedNumber(f, c.num[f])]
      /\ s.c = [c EXCEPT !.num = num]
  BY DEF ScreenshotLoads
<1>2. DOMAIN c = ConfigFields /\ DOMAIN c.num \subseteq DOMAIN Most /\ \A f \in DOMAIN c.num : c.num[f] \in Int
  BY DEF IsConfig, IsTyped
<1> HIDE DEF sel, num
<1>3. ItemsSettled(sel, env)
  <2>1. ASSUME NEW widget \in Boxes PROVE ItemSettled(env, widget, sel[widget])
    BY <1>1 DEF ItemSettled, Kept
  <2>2. IsRecordOf(sel, Boxes)
    <3>1. DOMAIN sel = Boxes
      BY <1>1
    <3>2. sel = [widget \in DOMAIN sel |-> sel[widget]]
      BY <1>1
    <3> QED BY <3>1, <3>2 DEF IsRecordOf
  <2> QED BY <2>1, <2>2 DEF ItemsSettled
<1>4. DOMAIN num = DOMAIN c.num
  BY <1>1
<1>5. ASSUME NEW f \in DOMAIN num PROVE f \in DOMAIN Most /\ Entered(f, num[f])
  <2>1. f \in DOMAIN Most /\ c.num[f] \in Int /\ num[f] = LoadedNumber(f, c.num[f])
    BY <1>1, <1>2
  <2> QED BY <2>1, NumbersRound
<1>6. DOMAIN num \subseteq DOMAIN Most /\ \A f \in DOMAIN num : num[f] \in Int /\ (f = "replay_time" => num[f] <= 86400)
  BY <1>5 DEF Entered
<1>7. s.c.num = num /\ s.c.camera = c.camera
  BY <1>1, <1>2 DEF ConfigFields
<1>8. IsTyped(s.c)
  BY <1>6, <1>7 DEF IsTyped
<1>9. ASSUME IsRecordOf(c, ConfigFields), ItemsSettled(c.sel, env), NumbersSettled(c.num)
      PROVE  s.c = c /\ sel = c.sel /\ c.num = [f \in DOMAIN num |-> SavedNumber(f, num[f])]
  <2>1. sel = c.sel
    <3>1. \A widget \in Boxes : sel[widget] = c.sel[widget]
      BY <1>1, <1>9 DEF ItemsSettled, ItemSettled, Kept
    <3>2. sel = [widget \in Boxes |-> sel[widget]] /\ c.sel = [widget \in Boxes |-> c.sel[widget]]
      BY <1>3, <1>9 DEF ItemsSettled, IsRecordOf
    <3> QED BY <3>1, <3>2
  <2>2. \A f \in DOMAIN c.num : LoadedNumber(f, c.num[f]) = c.num[f] /\ SavedNumber(f, c.num[f]) = c.num[f]
    BY <1>9 DEF NumbersSettled, NumberSettled
  <2>3. c.num = [f \in DOMAIN c.num |-> c.num[f]]
    BY <1>9 DEF NumbersSettled, IsRecordOf
  <2>4. num = c.num
    BY <1>1, <2>2, <2>3
  <2>5. c.num = [f \in DOMAIN num |-> SavedNumber(f, num[f])]
    BY <2>2, <2>3, <2>4
  <2>6. s.c = c
    <3>1. s.c = [c EXCEPT !.num = c.num]
      BY <1>1, <2>4
    <3>2. DOMAIN s.c = ConfigFields /\ \A f \in ConfigFields : s.c[f] = c[f]
      BY <1>2, <3>1
    <3>3. s.c = [f \in ConfigFields |-> s.c[f]] /\ c = [f \in ConfigFields |-> c[f]]
      BY <1>2, <1>9, <3>1 DEF IsRecordOf
    <3> QED BY <3>2, <3>3
  <2> QED BY <2>1, <2>5, <2>6
<1> QED BY <1>3, <1>6, <1>7, <1>8, <1>9 DEF EntriesSettled, sel, num
\* What a page has after it is loaded.
IsLoadedInto(s, c) ==
    /\ WillSettle(s.p, s.c) /\ IsTyped(s.c)
    /\ Settled(c, env) => s.c = c /\ Saved(s.p, s.c) = c

LEMMA ScreenshotSettles ==
  ASSUME type = "screenshot", NEW c, IsConfig(c), IsTyped(c)
  PROVE  IsLoadedInto(Loaded(c), c)
<1> DEFINE s == LoadedScreenshot(c)
<1>1. ScreenshotLoads(s, c) /\ Loaded(c) = s
  BY ScreenshotShows DEF Loaded, PageTypes
<1> HIDE DEF s
<1>2. /\ ItemsSettled(s.p.sel, env) /\ EntriesSettled(s.p) /\ IsTyped(s.c) /\ s.c.camera = c.camera
      /\ IsRecordOf(c, ConfigFields) /\ ItemsSettled(c.sel, env) /\ NumbersSettled(c.num) =>
           s.c = c /\ s.p.sel = c.sel /\ c.num = [f \in DOMAIN s.p.num |-> SavedNumber(f, s.p.num[f])]
  BY <1>1, ItemsAndNumbersLoad
<1>3. ASSUME Settled(c, env) PROVE s.c = c /\ Saved(s.p, s.c) = c
  <2> DEFINE d == Saved(s.p, c)
  <2>1. IsRecordOf(c, ConfigFields) /\ ItemsSettled(c.sel, env) /\ NumbersSettled(c.num)
    BY <1>3 DEF Settled
  <2>2. IsSaved(d, s.p, c)
    BY SavedParts DEF IsConfig
  <2> HIDE DEF d
  <2>3. \A f \in ConfigFields : d[f] = c[f]
    <3>1. d.sel = c.sel /\ d.flags = c.flags /\ d.num = c.num /\ d.tracks = c.tracks /\ d.camera = c.camera
      BY <1>1, <1>2, <2>1, <2>2 DEF IsSaved, ScreenshotLoads
    <3> QED BY <3>1 DEF ConfigFields
  <2>4. d = c
    BY <2>1, <2>2, <2>3 DEF IsSaved, IsRecordOf
  <2> QED BY <1>2, <2>1, <2>4 DEF d
<1> QED BY <1>1, <1>2, <1>3 DEF IsLoadedInto, WillSettle

LEMMA VideoSettles ==
  ASSUME env \in Environments, type \in PageTypes \ {"screenshot"}, NEW c, IsConfig(c), IsTyped(c)
  PROVE  IsLoadedInto(Loaded(c), c)
<1> DEFINE d == OfferedService(c)
           s == LoadedScreenshot(d)
           q == SetupLoaded(FormatLoaded(SourceLoaded(s)), d.camera.setup)
<1>1. Loaded(c) = q
  BY DEF Loaded, LoadedVideo
<1>2. IsConfig(d) /\ IsTyped(d)
  <2>1. SameBut(d, c, {"sel"})
    BY DEF OfferedService, SameBut, IsConfig, ConfigFields
  <2> HIDE DEF d
  <2>2. SameBut(d, c, {"sel", "num", "camera"})
    BY <2>1 DEF SameBut
  <2> QED BY <2>1, <2>2, ConfigKept DEF SameBut, IsTyped, IsConfig, ConfigFields
<1>3. Settled(c, env) => d = c
  BY ServiceIsKept DEF Settled, OfferedService
<1> HIDE DEF d
<1>4. ScreenshotLoads(s, d) /\ Good(s.p) /\ IsLoading(s)
  BY <1>2, ScreenshotShows, ScreenshotIsLoaded
<1>5. Good(q.p)
  BY <1>1, PageIsLoaded
<1> HIDE DEF s
<1>6. /\ ItemsSettled(s.p.sel, env) /\ EntriesSettled(s.p) /\ IsTyped(s.c) /\ s.c.camera = d.camera
      /\ IsRecordOf(d, ConfigFields) /\ ItemsSettled(d.sel, env) /\ NumbersSettled(d.num) =>
           s.c = d /\ s.p.sel = d.sel /\ d.num = [f \in DOMAIN s.p.num |-> SavedNumber(f, s.p.num[f])]
  BY <1>2, <1>4, ItemsAndNumbersLoad
<1>7. HasCamera(s) /\ s.p.source = "" /\ s.p.formats = <<>> /\ s.p.setups = {}
  BY <1>4, <1>6 DEF HasCamera, ScreenshotLoads, IsTyped
<1>8. /\ HasCamera(q) /\ SameBut(q.p, s.p, SourceFields) /\ SameBut(q.c, s.c, {"camera"})
      /\ CameraShowsSetup(q)
      /\ IsRecordOf(s.c, ConfigFields) /\ CameraSettled(s.c.camera, env) =>
           q.c = s.c /\ q.p.source = s.c.camera.source
  BY <1>6, <1>7, CameraLoads
<1> HIDE DEF q
<1>9. q.p.sel = s.p.sel /\ q.p.num = s.p.num /\ q.p.flags = s.p.flags /\ q.p.tracks = s.p.tracks
  BY <1>4, <1>8 DEF SameBut, SourceFields, CameraFields, IsLoading, SettingsFields
<1>10. AreTracks(q.p.tracks) /\ ShowsTracks(q.p, d.tracks)
  BY <1>4, <1>5, <1>9 DEF Good, IsSettingsPage, ScreenshotLoads, ShowsTracks
<1>11. RowsSettled(q.p)
  BY <1>2, <1>10, LoadedRowsSettle DEF IsConfig
<1>12. WillSettle(q.p, q.c)
  <2>1. CameraShowsSetup([p |-> q.p, c |-> q.c])
    BY <1>8 DEF CameraShowsSetup
  <2> QED BY <1>6, <1>9, <1>11, <2>1 DEF WillSettle, EntriesSettled
<1>13. IsTyped(q.c)
  BY <1>6, <1>8 DEF IsTyped, HasCamera, SameBut, IsLoading, ConfigFields
<1>14. ASSUME Settled(c, env) PROVE q.c = c /\ Saved(q.p, q.c) = c
  <2> DEFINE e == Saved(q.p, c)
  <2>1. /\ d = c /\ IsRecordOf(c, ConfigFields) /\ ItemsSettled(c.sel, env) /\ NumbersSettled(c.num)
        /\ TracksSettled(c.tracks, env) /\ CameraSettled(c.camera, env)
    BY <1>3, <1>14 DEF Settled
  <2>2. IsSaved(e, q.p, c)
    BY SavedParts DEF IsConfig
  <2> HIDE DEF e
  <2>3. /\ s.c = c /\ s.p.sel = c.sel /\ c.num = [f \in DOMAIN s.p.num |-> SavedNumber(f, s.p.num[f])]
    BY <1>6, <2>1
  <2>4. q.c = c /\ q.p.source = c.camera.source
    BY <1>8, <2>1, <2>3
  <2>5. e.sel = c.sel /\ e.flags = c.flags /\ e.num = c.num
    <3>1. e.sel = q.p.sel /\ e.flags = q.p.flags /\ e.num = [f \in DOMAIN q.p.num |-> SavedNumber(f, q.p.num[f])]
      BY <2>2 DEF IsSaved
    <3>2. s.p.flags = d.flags
      BY <1>4 DEF ScreenshotLoads
    <3> QED BY <1>9, <2>1, <2>3, <3>1, <3>2
  <2>6. e.tracks = c.tracks
    <3>1. SavedTracks(q.p) = c.tracks
      BY <1>10, <2>1, TracksAreKept
    <3> QED BY <2>2, <3>1 DEF IsSaved
  <2>7. e.camera = c.camera
    <3>1. e.camera = [c.camera EXCEPT !.source = c.camera.source] /\ IsRecordOf(c.camera, CameraParts)
      BY <2>1, <2>2, <2>4 DEF IsSaved, CameraSettled
    <3> QED BY <3>1 DEF IsRecordOf, CameraParts
  <2>8. \A f \in ConfigFields : e[f] = c[f]
    BY <2>5, <2>6, <2>7 DEF ConfigFields
  <2>9. e = c
    BY <2>1, <2>2, <2>8 DEF IsSaved, IsRecordOf
  <2> QED BY <2>4, <2>9 DEF e
<1> QED BY <1>1, <1>12, <1>13, <1>14 DEF IsLoadedInto

LEMMA LoadSettles ==
  ASSUME env \in Environments, type \in PageTypes, NEW c, IsConfig(c), IsTyped(c)
  PROVE  IsLoadedInto(Loaded(c), c)
BY ScreenshotSettles, VideoSettles
-----------------------------------------------------------------------------
(* An edit keeps a page that will settle.                                  *)

LEMMA SameLength ==
  ASSUME NEW f, NEW g, IsList(f), IsList(g), DOMAIN f = DOMAIN g
  PROVE  Len(f) = Len(g)
<1> DEFINE m == Len(f)
           n == Len(g)
<1>1. m \in Nat /\ n \in Nat /\ 1..m = 1..n
  BY ListIsFunction
<1> HIDE DEF m, n
<1>2. (m = 0 \/ m \in 1..m) /\ (n = 0 \/ n \in 1..n)
  BY <1>1
<1>3. (m = 0 \/ m \in 1..n) /\ (n = 0 \/ n \in 1..m)
  BY <1>1, <1>2, Zenon
<1>4. m = n
  BY <1>1, <1>3
<1> QED BY <1>4 DEF m, n

LEMMA ContentsSettle ==
  ASSUME NEW p, NEW q, NEW c, IsSettingsPage(p), IsSettingsPage(q), SameContents(q, p), WillSettle(p, c)
  PROVE  WillSettle(q, c)
<1>1. SameChoices(q, p) /\ SameRows(q.tracks, p.tracks)
  BY ContentsChoices
<1>2. Len(q.tracks) = Len(p.tracks)
  BY <1>1, SameLength DEF SameRows, IsSettingsPage, AreTracks
<1>3. ASSUME type # "screenshot" PROVE RowsSettled(q)
  BY <1>1, <1>2, <1>3 DEF WillSettle, RowsSettled, SameRows
<1>4. ASSUME type # "screenshot" PROVE CameraShowsSetup([p |-> q, c |-> c])
  BY <1>1, <1>4 DEF WillSettle, CameraShowsSetup, SameChoices
<1>5. ItemsSettled(q.sel, env) /\ EntriesSettled(q)
  BY <1>1 DEF WillSettle, EntriesSettled, SameChoices
<1> QED BY <1>3, <1>4, <1>5 DEF WillSettle

LEMMA ChoicesSettle ==
  ASSUME NEW p, NEW q, NEW c, WillSettle(p, c), ItemsSettled(q.sel, env), EntriesSettled(q), q.tracks = p.tracks,
         q.source = p.source, q.formats = p.formats, q.setups = p.setups
  PROVE  WillSettle(q, c)
<1>1. ASSUME type # "screenshot" PROVE RowsSettled(q)
  BY <1>1 DEF WillSettle, RowsSettled
<1>2. ASSUME type # "screenshot" PROVE CameraShowsSetup([p |-> q, c |-> c])
  BY <1>2 DEF WillSettle, CameraShowsSetup
<1> QED BY <1>1, <1>2 DEF WillSettle

LEMMA PickSettles ==
  ASSUME SettingsInv, NEW widget \in Boxes, NEW id \in ToSet(BoxItems(env, widget)), Pick(widget, id),
         WillSettle(page, config)
  PROVE  WillSettle(page', config') /\ config' = config
<1> DEFINE p == [page EXCEPT !.sel[widget] = id]
           q == CASE widget = "area"    -> AreaPicked(p, id)
                  [] widget = "quality" /\ type # "screenshot" -> QualityPicked(p, id)
                  [] widget = "service" -> ServicePicked(p, id)
                  [] widget = "view"    -> ViewPicked(p, id)
                  [] OTHER -> p
<1>1. page # NoPage /\ EditedPage(q)
  BY DEF Pick
<1>2. IsSettingsPage(page)
  BY <1>1 DEF SettingsInv, Good
<1>3. page' = q /\ config' = config
  BY <1>1 DEF EditedPage, Edited, Current
<1>4. SameBut(p, page, {"sel"}) /\ p.sel = [page.sel EXCEPT ![widget] = id]
  BY <1>2 DEF SameBut, IsSettingsPage, SettingsFields
<1> HIDE DEF p
<1>5. DOMAIN p.sel = Boxes /\ p.sel[widget] = id /\ \A b \in Boxes : b # widget => p.sel[b] = page.sel[b]
  BY <1>2, <1>4 DEF IsSettingsPage
<1>6. /\ p.num = page.num /\ p.flags = page.flags /\ p.tracks = page.tracks /\ p.source = page.source
      /\ p.formats = page.formats /\ p.setups = page.setups /\ DOMAIN p = SettingsFields
  BY <1>2, <1>4 DEF SameBut, IsSettingsPage, SettingsFields
<1>7. IsSettingsPage(p)
  BY <1>2, <1>5, <1>6 DEF IsSettingsPage
<1>8. ItemsSettled(p.sel, env)
  <2>1. IsRecordOf(p.sel, Boxes)
    BY <1>2, <1>4 DEF IsSettingsPage, IsRecordOf
  <2>2. ItemSettled(env, widget, id)
    BY DEF ItemSettled, Offers
  <2> QED BY <1>5, <2>1, <2>2 DEF WillSettle, ItemsSettled
<1>9. WillSettle(p, config)
  <2>1. EntriesSettled(p)
    BY <1>6 DEF WillSettle, EntriesSettled
  <2> QED BY <1>6, <1>8, <2>1, ChoicesSettle
<1>10. SameContents(q, p) /\ IsSettingsPage(q)
  <2>1. CASE widget = "area"
    <3>1. q = AreaPicked(p, id) /\ p.sel.area = id
      BY <1>5, <2>1
    <3> HIDE DEF q
    <3> QED BY <1>7, <3>1, AreaIsPicked, TouchesContents
  <2>2. CASE widget = "quality" /\ type # "screenshot"
    <3>1. q = QualityPicked(p, id) /\ p.sel.quality = id
      BY <1>5, <2>2
    <3> HIDE DEF q
    <3> QED BY <1>7, <3>1, QualityIsPicked, TouchesContents
  <2>3. CASE widget = "service"
    <3>1. q = ServicePicked(p, id) /\ p.sel.service = id /\ id \in Services
      BY <1>5, <2>3, ServicesAreKnown
    <3> HIDE DEF q
    <3> QED BY <1>7, <3>1, ServiceIsPicked, TouchesContents
  <2>4. CASE widget = "view"
    <3>1. q = ViewPicked(p, id) /\ p.sel.view = id
      BY <1>5, <2>4
    <3> HIDE DEF q
    <3> QED BY <1>7, <3>1, ViewKeepsContents
  <2>5. CASE widget \notin {"area", "service", "view"} /\ ~(widget = "quality" /\ type # "screenshot")
    <3>1. q = p
      BY <2>5
    <3> HIDE DEF q
    <3> QED BY <1>6, <1>7, <3>1 DEF SameContents, SameBut, SameRows
  <2> HIDE DEF q
  <2> QED BY <2>1, <2>2, <2>3, <2>4, <2>5
<1> HIDE DEF q
<1>11. WillSettle(q, config)
  BY <1>7, <1>9, <1>10, ContentsSettle
<1> QED BY <1>3, <1>11

LEMMA ToggleSettles ==
  ASSUME SettingsInv, NEW flag, Toggle(flag), WillSettle(page, config)
  PROVE  WillSettle(page', config') /\ config' = config
<1> DEFINE p == [page EXCEPT !.flags[flag] = ~@]
           q == IF flag = "change_resolution" THEN ResolutionChecked(p, p.flags[flag]) ELSE p
<1>1. page # NoPage /\ EditedPage(q)
  BY DEF Toggle
<1>2. IsSettingsPage(page)
  BY <1>1 DEF SettingsInv, Good
<1>3. page' = q /\ config' = config
  BY <1>1 DEF EditedPage, Edited, Current
<1>4. /\ p.sel = page.sel /\ p.num = page.num /\ p.tracks = page.tracks /\ p.source = page.source
      /\ p.formats = page.formats /\ p.setups = page.setups /\ DOMAIN p = SettingsFields
      /\ DOMAIN p.flags = DOMAIN page.flags
  BY <1>2 DEF IsSettingsPage, SettingsFields
<1> HIDE DEF p
<1>5. IsSettingsPage(p)
  BY <1>2, <1>4 DEF IsSettingsPage
<1>6. WillSettle(p, config)
  <2>1. EntriesSettled(p) /\ ItemsSettled(p.sel, env)
    BY <1>4 DEF WillSettle, EntriesSettled
  <2> QED BY <1>4, <2>1, ChoicesSettle
<1>7. CASE flag = "change_resolution"
  <2>1. q = ResolutionChecked(p, p.flags.change_resolution)
    BY <1>7
  <2> HIDE DEF q
  <2>2. SameContents(q, p) /\ IsSettingsPage(q)
    BY <1>5, <2>1, ResolutionIsChecked, TouchesContents
  <2> QED BY <1>3, <1>5, <1>6, <2>2, ContentsSettle
<1>8. CASE flag # "change_resolution"
  BY <1>3, <1>6, <1>8
<1> QED BY <1>7, <1>8

LEMMA TypedSettles ==
  ASSUME SettingsInv, NEW field, NEW n \in Numbers, TypeNumber(field, n), WillSettle(page, config)
  PROVE  WillSettle(page', config') /\ config' = config
<1> DEFINE m == IF n > Most[field] THEN Most[field] ELSE n
           num == [page.num EXCEPT ![field] = m]
           q == [page EXCEPT !.num = num]
<1>1. page # NoPage /\ EditedPage(q)
  BY DEF TypeNumber
<1>2. IsSettingsPage(page)
  BY <1>1 DEF SettingsInv, Good
<1>3. page' = q /\ config' = config
  BY <1>1 DEF EditedPage, Edited, Current
<1>4. DOMAIN num = DOMAIN page.num /\ DOMAIN page.num \subseteq DOMAIN Most
  BY DEF WillSettle, EntriesSettled
<1>5. n \in Int
  BY SystemAssumption
<1>6. ASSUME NEW f \in DOMAIN num PROVE num[f] \in Int /\ (f = "replay_time" => num[f] <= 86400)
  <2>1. CASE f = field
    <3>1. field \in DOMAIN Most /\ num[f] = m
      BY <1>4, <2>1
    <3>2. Entered(field, m)
      BY <1>5, <3>1, NumbersRound
    <3> HIDE DEF m, num
    <3> QED BY <2>1, <3>1, <3>2 DEF Entered
  <2>2. CASE f # field
    <3>1. num[f] = page.num[f] /\ f \in DOMAIN page.num
      BY <1>4, <2>2
    <3> HIDE DEF num
    <3> QED BY <3>1 DEF WillSettle, EntriesSettled
  <2> QED BY <2>1, <2>2
<1> HIDE DEF num
<1>7. /\ q.sel = page.sel /\ q.num = num /\ q.tracks = page.tracks /\ q.source = page.source
      /\ q.formats = page.formats /\ q.setups = page.setups
  BY <1>2 DEF IsSettingsPage, SettingsFields
<1> HIDE DEF q
<1>8. EntriesSettled(q)
  BY <1>4, <1>6, <1>7 DEF EntriesSettled
<1>9. ItemsSettled(q.sel, env)
  BY <1>7 DEF WillSettle
<1> QED BY <1>3, <1>7, <1>8, <1>9, ChoicesSettle
LEMMA TracksEditSettles ==
  ASSUME NEW p, IsSettingsPage(p), NEW q, NEW c, WillSettle(p, c), SameBut(q, p, {"tracks"}),
         type # "screenshot" => RowsSettled(q)
  PROVE  WillSettle(q, c)
<1>1. /\ q.sel = p.sel /\ q.num = p.num /\ q.source = p.source /\ q.formats = p.formats /\ q.setups = p.setups
  BY DEF SameBut, IsSettingsPage, SettingsFields
<1>2. ASSUME type # "screenshot" PROVE CameraShowsSetup([p |-> q, c |-> c])
  BY <1>1, <1>2 DEF WillSettle, CameraShowsSetup
<1>3. ItemsSettled(q.sel, env) /\ EntriesSettled(q)
  BY <1>1 DEF WillSettle, EntriesSettled
<1> QED BY <1>2, <1>3 DEF WillSettle

\* The rows of a track are replaced by rows that settle.
LEMMA RowsSettle ==
  ASSUME NEW i \in DOMAIN page.tracks, Good(page), WillSettle(page, config), NEW rows, IsList(rows),
         \A j \in DOMAIN rows : DOMAIN rows[j] = {"kind", "id"},
         type # "screenshot" => \A j \in DOMAIN rows : RowSettled(rows[j])
  PROVE  WillSettle(WithRows(i, rows), config) /\ WillSettle(WarningsUpdated(WithRows(i, rows)), config)
<1> DEFINE t == [page.tracks[i] EXCEPT !.rows = rows]
           q == WithRows(i, rows)
<1>1. IsSettingsPage(page) /\ IsTrack(page.tracks[i])
  BY DEF Good, IsSettingsPage, AreTracks
<1>2. IsTrack(t) /\ t.rows = rows /\ t.app_options = page.tracks[i].app_options
  BY <1>1 DEF IsTrack
<1>3. q = [page EXCEPT !.tracks[i] = t]
  BY DEF WithRows
<1> HIDE DEF t, q
<1>4. SameBut(q, page, {"tracks"}) /\ AreTracks(q.tracks)
  BY <1>2, <1>3, TrackIsReplaced
<1>5. IsSettingsPage(q)
  BY <1>1, <1>4, TracksKeep
<1>6. q.tracks = [page.tracks EXCEPT ![i] = t]
  BY <1>1, <1>3 DEF IsSettingsPage, SettingsFields
<1>7. DOMAIN q.tracks = DOMAIN page.tracks /\ q.tracks[i] = t
      /\ \A k \in DOMAIN page.tracks : k # i => q.tracks[k] = page.tracks[k]
  BY <1>6
<1>8. Len(q.tracks) = Len(page.tracks)
  BY <1>1, <1>4, <1>7, SameLength DEF IsSettingsPage, AreTracks
<1>9. ASSUME type # "screenshot" PROVE RowsSettled(q)
  <2>1. RowsSettled(page) /\ \A j \in DOMAIN rows : RowSettled(rows[j])
    BY <1>9 DEF WillSettle
  <2>2. ASSUME NEW k \in DOMAIN q.tracks, NEW j \in DOMAIN q.tracks[k].rows
        PROVE  RowSettled(q.tracks[k].rows[j])
    <3>1. CASE k = i
      BY <1>2, <1>7, <2>1, <2>2, <3>1
    <3>2. CASE k # i
      BY <1>7, <2>1, <2>2, <3>2 DEF RowsSettled
    <3> QED BY <3>1, <3>2
  <2> QED BY <1>8, <2>1, <2>2 DEF RowsSettled
<1>10. WillSettle(q, config)
  BY <1>1, <1>4, <1>9, TracksEditSettles
<1>11. WillSettle(WarningsUpdated(q), config)
  BY <1>5, <1>10, WarningsKeepContents, ContentsSettle
<1> QED BY <1>10, <1>11 DEF q

LEMMA AppRowSettles ==
  ASSUME Good(page), type # "screenshot", NEW i \in DOMAIN page.tracks, page.tracks[i].app_options
  PROVE  RowSettled(AppRow)
<1>1. env.app_audio
  BY DEF Good, ViewShown
<1>2. AppRow.kind \in {"app", "custom"}
  BY DEF AppRow
<1> QED BY <1>1, <1>2 DEF RowSettled

LEMMA TracksEditsSettle ==
  ASSUME SettingsInv, EditTracks, WillSettle(page, config)
  PROVE  WillSettle(page', config') /\ config' = config
<1>1. ASSUME NEW p, EditedPage(p) PROVE page' = p /\ config' = config
  BY <1>1 DEF EditedPage, Edited, Current
<1>2. page # NoPage
  BY DEF EditTracks, AddTrack
<1>3. Good(page) /\ IsSettingsPage(page) /\ AreTracks(page.tracks)
  BY <1>2 DEF SettingsInv, Good, IsSettingsPage
<1>4. type # "screenshot" => RowsSettled(page)
  BY DEF WillSettle
<1>5. CASE AddTrack
  <2> DEFINE t == NewTrack(page)
             ts == Append(page.tracks, t)
             q == [page EXCEPT !.tracks = ts]
  <2>1. EditedPage(q) /\ type # "stream"
    BY <1>5 DEF AddTrack
  <2>2. t.rows = <<>> /\ DOMAIN <<>> = {}
    BY NewTrackIsTrack
  <2> HIDE DEF t
  <2>3. /\ DOMAIN ts = 1..Len(page.tracks) + 1 /\ ts[Len(page.tracks) + 1] = t
        /\ DOMAIN page.tracks = 1..Len(page.tracks) /\ Len(page.tracks) \in Nat
        /\ \A k \in DOMAIN page.tracks : ts[k] = page.tracks[k]
    BY <1>3, AppendIsList, ListIsFunction DEF AreTracks
  <2> HIDE DEF ts
  <2>4. \A k \in DOMAIN ts : k \in DOMAIN page.tracks \/ ts[k] = t
    BY <2>3
  <2>5. SameBut(q, page, {"tracks"}) /\ q.tracks = ts
    BY <1>3 DEF SameBut, IsSettingsPage, SettingsFields
  <2> HIDE DEF q
  <2>6. ASSUME type # "screenshot" PROVE RowsSettled(q)
    BY <1>4, <2>1, <2>2, <2>3, <2>4, <2>5, <2>6 DEF RowsSettled
  <2> QED BY <1>1, <1>3, <2>1, <2>5, <2>6, TracksEditSettles
<1>6. ASSUME NEW i \in DOMAIN page.tracks, RemoveTrack(i)
      PROVE  WillSettle(page', config') /\ config' = config
  <2> DEFINE ts == RemoveAt(page.tracks, i)
             q == [page EXCEPT !.tracks = ts]
  <2>1. EditedPage(q) /\ type # "stream"
    BY <1>6 DEF RemoveTrack
  <2>2. \A k \in DOMAIN ts : \E j \in DOMAIN page.tracks : ts[k] = page.tracks[j]
    BY <1>3, RemovedIsList DEF AreTracks
  <2> HIDE DEF ts
  <2>3. SameBut(q, page, {"tracks"}) /\ q.tracks = ts
    BY <1>3 DEF SameBut, IsSettingsPage, SettingsFields
  <2> HIDE DEF q
  <2>4. ASSUME type # "screenshot" PROVE RowsSettled(q)
    <3>1. ASSUME NEW k \in DOMAIN ts, NEW j \in DOMAIN ts[k].rows PROVE RowSettled(ts[k].rows[j])
      <4>1. PICK l \in DOMAIN page.tracks : ts[k] = page.tracks[l]
        BY <2>2
      <4> QED BY <1>4, <2>4, <3>1, <4>1 DEF RowsSettled
    <3> QED BY <2>1, <2>3, <3>1 DEF RowsSettled
  <2> QED BY <1>1, <1>3, <2>1, <2>3, <2>4, TracksEditSettles
<1>7. ASSUME NEW i \in DOMAIN page.tracks,
             \/ AddOutput(i) \/ AddInput(i) \/ AddApp(i)
             \/ \E j \in DOMAIN page.tracks[i].rows : RemoveRow(i, j) \/ PickCustom(i, j)
                  \/ \E id \in ToSet(env.outputs) \cup ToSet(env.inputs) : PickDevice(i, j, id)
      PROVE  WillSettle(page', config') /\ config' = config
  <2> DEFINE old == page.tracks[i].rows
             OK(r) == /\ IsList(r) /\ \A j \in DOMAIN r : DOMAIN r[j] = {"kind", "id"}
                      /\ type # "screenshot" => \A j \in DOMAIN r : RowSettled(r[j])
  <2>1. IsList(old) /\ \A j \in DOMAIN old : DOMAIN old[j] = {"kind", "id"}
    BY <1>3 DEF AreTracks, IsTrack
  <2>2. type # "screenshot" => \A j \in DOMAIN old : RowSettled(old[j])
    BY <1>4 DEF RowsSettled
  <2>3. DOMAIN old = 1..Len(old) /\ Len(old) \in Nat
    BY <2>1, ListIsFunction
  <2>4. ASSUME NEW rows, OK(rows), EditedPage(WithRows(i, rows)) \/ EditedPage(WarningsUpdated(WithRows(i, rows)))
        PROVE  WillSettle(page', config') /\ config' = config
    BY <1>1, <1>3, <2>4, RowsSettle
  <2>5. ASSUME NEW row, DOMAIN row = {"kind", "id"}, type # "screenshot" => RowSettled(row)
        PROVE  OK(Append(old, row))
    <3> DEFINE r == Append(old, row)
    <3>1. /\ IsList(r) /\ DOMAIN r = 1..Len(old) + 1 /\ r[Len(old) + 1] = row
          /\ \A k \in DOMAIN old : r[k] = old[k]
      BY <2>1, AppendIsList
    <3> HIDE DEF r, old
    <3>2. \A j \in DOMAIN r : j \in DOMAIN old \/ r[j] = row
      BY <2>3, <3>1
    <3> QED BY <2>1, <2>2, <2>5, <3>1, <3>2 DEF r
  <2>6. ASSUME NEW j \in DOMAIN old, NEW row, DOMAIN row = {"kind", "id"}, type # "screenshot" => RowSettled(row)
        PROVE  OK([old EXCEPT ![j] = row])
    <3> DEFINE r == [old EXCEPT ![j] = row]
    <3>1. DOMAIN r = DOMAIN old /\ r[j] = row /\ \A k \in DOMAIN old : k # j => r[k] = old[k]
      OBVIOUS
    <3>2. IsList(r)
      <4>1. r = [k \in 1..Len(old) |-> r[k]]
        BY <2>3
      <4> HIDE DEF r, old
      <4> QED BY <2>3, <4>1, FunctionIsList
    <3> HIDE DEF r, old
    <3>3. \A k \in DOMAIN r : DOMAIN r[k] = {"kind", "id"}
      BY <2>1, <2>6, <3>1
    <3>4. type # "screenshot" => \A k \in DOMAIN r : RowSettled(r[k])
      BY <2>2, <2>6, <3>1
    <3> QED BY <3>2, <3>3, <3>4 DEF r
  <2>7. CASE AddOutput(i)
    <3>1. EditedPage(WarningsUpdated(WithRows(i, Append(old, DeviceRow("output")))))
      BY <2>7 DEF AddOutput
    <3>2. OK(Append(old, DeviceRow("output")))
      BY <2>5, RowsHaveKinds, DeviceRowSettles
    <3> HIDE DEF old, OK
    <3> QED BY <2>4, <3>1, <3>2
  <2>8. CASE AddInput(i)
    <3>1. EditedPage(WithRows(i, Append(old, DeviceRow("input"))))
      BY <2>8 DEF AddInput
    <3>2. OK(Append(old, DeviceRow("input")))
      BY <2>5, RowsHaveKinds, DeviceRowSettles
    <3> HIDE DEF old, OK
    <3> QED BY <2>4, <3>1, <3>2
  <2>9. CASE AddApp(i)
    <3>1. EditedPage(WarningsUpdated(WithRows(i, Append(old, AppRow)))) /\ page.tracks[i].app_options
      BY <2>9 DEF AddApp
    <3>2. type # "screenshot" => RowSettled(AppRow)
      BY <1>3, <3>1, AppRowSettles
    <3>3. OK(Append(old, AppRow))
      BY <2>5, <3>2, RowsHaveKinds
    <3> HIDE DEF old, OK
    <3> QED BY <2>4, <3>1, <3>3
  <2>10. ASSUME NEW j \in DOMAIN old, RemoveRow(i, j)
         PROVE  WillSettle(page', config') /\ config' = config
    <3> DEFINE r == RemoveAt(old, j)
    <3>1. EditedPage(WarningsUpdated(WithRows(i, r)))
      BY <2>10 DEF RemoveRow
    <3>2. OK(r)
      <4>1. IsList(r) /\ \A k \in DOMAIN r : \E l \in DOMAIN old : r[k] = old[l]
        BY <2>1, RemovedIsList
      <4> HIDE DEF r, old
      <4> QED BY <2>1, <2>2, <4>1
    <3> HIDE DEF r, OK
    <3> QED BY <2>4, <3>1, <3>2
  <2>11. ASSUME NEW j \in DOMAIN old, PickCustom(i, j)
         PROVE  WillSettle(page', config') /\ config' = config
    <3> DEFINE row == [kind |-> "custom", id |-> ""]
    <3>1. EditedPage(WithRows(i, [old EXCEPT ![j] = row])) /\ old[j].kind = "app"
      BY <2>11 DEF PickCustom
    <3>2. DOMAIN row = {"kind", "id"} /\ row.kind = "custom"
      OBVIOUS
    <3> HIDE DEF row
    <3>3. type # "screenshot" => RowSettled(row)
      BY <2>2, <2>11, <3>1, <3>2 DEF RowSettled
    <3>4. OK([old EXCEPT ![j] = row])
      BY <2>6, <2>11, <3>2, <3>3
    <3> HIDE DEF OK, old
    <3> QED BY <2>4, <3>1, <3>4
  <2>12. ASSUME NEW j \in DOMAIN old, NEW id, PickDevice(i, j, id)
         PROVE  WillSettle(page', config') /\ config' = config
    <3> DEFINE row == [old[j] EXCEPT !.id = id]
    <3>1. /\ EditedPage(WithRows(i, [old EXCEPT ![j] = row]))
          /\ old[j].kind \in {"output", "input"} /\ Offers(DeviceItems(old[j].kind), id)
      BY <2>12 DEF PickDevice
    <3>2. DOMAIN row = {"kind", "id"} /\ row.kind = old[j].kind /\ row.id = id
      BY <2>1
    <3> HIDE DEF row
    <3>3. RowSettled(row)
      BY <3>1, <3>2 DEF RowSettled, DeviceSettled, Devices, DeviceItems
    <3>4. OK([old EXCEPT ![j] = row])
      BY <2>6, <2>12, <3>2, <3>3
    <3> HIDE DEF OK, old
    <3> QED BY <2>4, <3>1, <3>4
  <2> HIDE DEF old
  <2> QED BY <1>7, <2>7, <2>8, <2>9, <2>10, <2>11, <2>12 DEF old
<1>8. ASSUME NEW i \in DOMAIN page.tracks, Invert(i)
      PROVE  WillSettle(page', config') /\ config' = config
  <2> DEFINE t == [page.tracks[i] EXCEPT !.invert = ~@]
             q == [page EXCEPT !.tracks[i].invert = ~@]
  <2>1. EditedPage(WarningsUpdated(q))
    BY <1>8 DEF Invert
  <2>2. IsTrack(page.tracks[i])
    BY <1>3 DEF AreTracks
  <2>3. IsTrack(t) /\ t.app_options = page.tracks[i].app_options /\ t.rows = page.tracks[i].rows
    BY <2>2 DEF IsTrack
  <2>4. q = [page EXCEPT !.tracks[i] = t]
    OBVIOUS
  <2> HIDE DEF t, q
  <2>5. SameBut(q, page, {"tracks"}) /\ AreTracks(q.tracks)
    BY <1>3, <2>3, <2>4, TrackIsReplaced
  <2>6. IsSettingsPage(q)
    BY <1>3, <2>5, TracksKeep
  <2>7. q.tracks = [page.tracks EXCEPT ![i] = t]
    BY <1>3, <2>4 DEF IsSettingsPage, SettingsFields
  <2>8. DOMAIN q.tracks = DOMAIN page.tracks /\ \A k \in DOMAIN page.tracks : q.tracks[k].rows = page.tracks[k].rows
    BY <2>3, <2>7
  <2>9. Len(q.tracks) = Len(page.tracks)
    BY <1>3, <2>5, <2>8, SameLength DEF AreTracks
  <2>10. type # "screenshot" => RowsSettled(q)
    BY <1>4, <2>8, <2>9 DEF RowsSettled
  <2>11. WillSettle(q, config)
    BY <1>3, <2>5, <2>10, TracksEditSettles
  <2>12. WillSettle(WarningsUpdated(q), config)
    BY <2>6, <2>11, WarningsKeepContents, ContentsSettle
  <2> QED BY <1>1, <2>1, <2>12
<1> QED BY <1>2, <1>5, <1>6, <1>7, <1>8 DEF EditTracks

LEMMA CameraEditSettles ==
  ASSUME Good(page), IsConfig(config), IsTyped(config), WillSettle(page, config), type # "screenshot",
         NEW q, SameBut(q.p, page, SourceFields), SameBut(q.c, config, {"camera"}), CameraShowsSetup(q),
         DOMAIN q.c.camera = CameraParts
  PROVE  WillSettle(q.p, q.c) /\ IsTyped(q.c)
<1>1. q.p.sel = page.sel /\ q.p.num = page.num /\ q.p.tracks = page.tracks
  BY DEF SameBut, SourceFields, CameraFields, Good, IsSettingsPage, SettingsFields
<1>2. IsTyped(q.c)
  BY DEF SameBut, IsConfig, ConfigFields, IsTyped
<1>3. CameraShowsSetup([p |-> q.p, c |-> q.c])
  BY DEF CameraShowsSetup
<1>4. ItemsSettled(q.p.sel, env) /\ EntriesSettled(q.p)
  BY <1>1 DEF WillSettle, EntriesSettled
<1>5. RowsSettled(q.p)
  BY <1>1 DEF WillSettle, RowsSettled
<1> QED BY <1>2, <1>3, <1>4, <1>5 DEF WillSettle

LEMMA CameraEditsSettle ==
  ASSUME env \in Environments, SettingsInv, IsTyped(config), EditCamera, WillSettle(page, config)
  PROVE  WillSettle(page', config') /\ IsTyped(config')
<1>1. page # NoPage /\ type # "screenshot"
  BY DEF EditCamera
<1>2. Good(page) /\ IsConfig(config)
  BY <1>1 DEF SettingsInv
<1>3. Current.p = page /\ Current.c = config /\ HasCamera(Current)
  BY <1>2 DEF Current, HasCamera, IsLoading, Good, IsSettingsPage, IsConfig, IsTyped
<1>4. CameraShowsSetup(Current)
  BY <1>1, <1>3 DEF WillSettle, CameraShowsSetup
<1>5. ASSUME NEW q, Edited(q), SameBut(q.p, page, SourceFields), SameBut(q.c, config, {"camera"}), CameraShowsSetup(q),
             DOMAIN q.c.camera = CameraParts
      PROVE  WillSettle(page', config') /\ IsTyped(config')
  <2>1. page' = q.p /\ config' = q.c
    BY <1>5 DEF Edited
  <2> QED BY <1>1, <1>2, <1>5, <2>1, CameraEditSettles
<1>6. ASSUME NEW source \in DOMAIN env.cameras \cup {""}, PickSource(source)
      PROVE  WillSettle(page', config') /\ IsTyped(config')
  <2> DEFINE q == SourcePicked(Current, source)
  <2>1. Edited(q)
    BY <1>6 DEF PickSource
  <2>2. SameBut(q.p, page, SourceFields) /\ SameBut(q.c, config, {"camera"})
    BY <1>3, SourceIsPicked DEF HasCamera, CameraOnly
  <2>3. CameraShowsSetup(q) /\ DOMAIN q.c.camera = CameraParts
    <3>1. CASE source = ""
      <4>1. q.c = config /\ q.p.source = "" /\ q.p.formats = <<>>
        BY <1>3, <3>1, SourceHidden
      <4> HIDE DEF q
      <4> QED BY <4>1 DEF CameraShowsSetup, IsTyped
    <3>2. CASE source # ""
      <4>1. CameraShowsSetup(q) /\ IsRecordOf(q.c.camera, CameraParts)
        BY <1>3, <1>6, <3>2, SourceWrites
      <4> HIDE DEF q
      <4> QED BY <4>1 DEF IsRecordOf
    <3> QED BY <3>1, <3>2
  <2> HIDE DEF q
  <2> QED BY <1>5, <2>1, <2>2, <2>3
<1>7. ASSUME NEW q, Writes(q, Current) PROVE SameBut(q.p, page, SourceFields) /\ SameBut(q.c, config, {"camera"})
      /\ DOMAIN q.c.camera = CameraParts
  BY <1>3, <1>7 DEF Writes, CameraOnly, SameBut, SourceFields, SetupFields, IsRecordOf
<1>8. ASSUME NEW format, PickFormat(format)
      PROVE  WillSettle(page', config') /\ IsTyped(config')
  <2> DEFINE q == FormatPicked(Current, format)
  <2>1. Edited(q) /\ Offers(page.formats, format)
    BY <1>8 DEF PickFormat
  <2>2. page.source # "" /\ format \in CameraFormats(page.source, env)
    BY <1>3, <1>4, <2>1, NothingIsOffered DEF CameraShowsSetup, Offers
  <2>3. Writes(q, Current) /\ CameraShowsSetup(q)
    BY <1>3, <1>4, <2>2, PickedFormatShows
  <2> HIDE DEF q
  <2> QED BY <1>5, <1>7, <2>1, <2>3
<1>9. ASSUME NEW setup \in page.setups, PickSetup(setup)
      PROVE  WillSettle(page', config') /\ IsTyped(config')
  <2> DEFINE q == SetupPicked(Current, setup)
  <2>1. Edited(q)
    BY <1>9 DEF PickSetup
  <2>2. Writes(q, Current) /\ CameraShowsSetup(q)
    BY <1>3, <1>4, PickedSetupShows
  <2> HIDE DEF q
  <2> QED BY <1>5, <1>7, <2>1, <2>2
<1> QED BY <1>6, <1>8, <1>9 DEF EditCamera
-----------------------------------------------------------------------------
(* A visit.                                                                *)

\* What the type of the page decides stays while the type does.
LEMMA ItemsPrimed ==
  ASSUME type' = type, NEW e, NEW widget, NEW id
  PROVE  Boxes' = Boxes /\ ItemSettled(e, widget, id)' = ItemSettled(e, widget, id)
<1>1. Boxes' = Boxes
  BY DEF Boxes
<1>2. AreaItems(e)' = AreaItems(e)
  BY DEF AreaItems
<1>3. BoxItems(e, widget)' = BoxItems(e, widget)
  BY <1>2 DEF BoxItems
<1>4. DefaultArea(e)' = DefaultArea(e)
  BY <1>2 DEF DefaultArea
<1>5. FirstShown(e, widget)' = FirstShown(e, widget)
  BY <1>3, <1>4 DEF FirstShown, DefaultQuality
<1> QED BY <1>1, <1>3, <1>5 DEF ItemSettled

LEMMA SettledPrimed ==
  ASSUME type' = type, NEW c, NEW e
  PROVE  /\ Settled(c, e)' <=> Settled(c, e)
         /\ \A sel : ItemsSettled(sel, e)' <=> ItemsSettled(sel, e)
<1>1. \A sel : ItemsSettled(sel, e)' <=> ItemsSettled(sel, e)
  BY ItemsPrimed DEF ItemsSettled
<1>2. \A tracks : TracksSettled(tracks, e)' <=> TracksSettled(tracks, e)
  BY DEF TracksSettled
<1> QED BY <1>1, <1>2 DEF Settled

LEMMA PagePrimed ==
  ASSUME UNCHANGED <<type, env>>, NEW p, NEW c
  PROVE  (WillSettle(p, c)' <=> WillSettle(p, c)) /\ Saved(p, c)' = Saved(p, c)
<1>1. RowsSettled(p)' <=> RowsSettled(p)
  BY DEF RowsSettled, RowSettled
<1>2. \A s : CameraShowsSetup(s)' <=> CameraShowsSetup(s)
  <2>1. \A camera, format : SetupsOf(camera, format)' = SetupsOf(camera, format)
    BY DEF SetupsOf
  <2> QED BY <2>1 DEF CameraShowsSetup
<1>3. ItemsSettled(p.sel, env)' <=> ItemsSettled(p.sel, env)
  BY SettledPrimed
<1>4. WillSettle(p, c)' <=> WillSettle(p, c)
  BY <1>1, <1>2, <1>3 DEF WillSettle
<1>5. Saved(p, c)' = Saved(p, c)
  BY DEF Saved
<1> QED BY <1>4, <1>5

\* A good page is open.
LEMMA GoodIsOpen == \A p : Good(p) => p # NoPage
BY DEF Good, IsSettingsPage, SettingsFields, NoPage

Edits ==
    \/ EditTracks \/ EditCamera
    \/ \E widget \in Boxes : \E id \in ToSet(BoxItems(env, widget)) : Pick(widget, id)
    \/ \E flag \in DOMAIN config.flags : Toggle(flag)
    \/ \E field \in DOMAIN config.num, n \in Numbers : TypeNumber(field, n)

LEMMA EditsSettle ==
  ASSUME SettingsInv, VisitInv, Edits
  PROVE  /\ page # NoPage /\ page' # NoPage /\ edited' = TRUE /\ UNCHANGED <<type, env, savedIn>>
         /\ WillSettle(page', config') /\ IsTyped(config')
<1>1. page # NoPage
  BY DEF Edits, EditTracks, AddTrack, EditCamera, Pick, Toggle, TypeNumber
<1>2. ASSUME NEW s, Edited(s) PROVE edited' = TRUE /\ UNCHANGED <<type, env, savedIn>>
  BY <1>2 DEF Edited
<1>3. ASSUME NEW p, EditedPage(p) PROVE edited' = TRUE /\ UNCHANGED <<type, env, savedIn>>
  BY <1>2, <1>3 DEF EditedPage
<1>4. WillSettle(page, config) /\ IsTyped(config) /\ env \in Environments
  BY <1>1 DEF VisitInv
<1>5. ASSUME Good(page') PROVE page' # NoPage
  BY <1>5, GoodIsOpen
<1> DEFINE Result == /\ page' # NoPage /\ edited' = TRUE /\ UNCHANGED <<type, env, savedIn>>
                     /\ WillSettle(page', config') /\ IsTyped(config')
<1>6. CASE EditTracks
  <2>1. edited' = TRUE /\ UNCHANGED <<type, env, savedIn>>
    BY <1>3, <1>6 DEF EditTracks, AddTrack, RemoveTrack, AddOutput, AddInput, AddApp, Invert, RemoveRow, PickCustom,
                      PickDevice
  <2> QED BY <1>4, <1>5, <1>6, <2>1, TracksAreEdited, TracksEditsSettle
<1>7. CASE EditCamera
  <2>1. edited' = TRUE /\ UNCHANGED <<type, env, savedIn>>
    BY <1>2, <1>7 DEF EditCamera, PickSource, PickFormat, PickSetup
  <2>2. WillSettle(page', config') /\ IsTyped(config')
    BY <1>4, <1>7, CameraEditsSettle
  <2>3. page' # NoPage
    BY <1>5, <1>7, CameraIsEdited
  <2> QED BY <1>1, <2>1, <2>2, <2>3
<1>8. ASSUME NEW widget \in Boxes, NEW id \in ToSet(BoxItems(env, widget)), Pick(widget, id) PROVE Result
  <2>1. edited' = TRUE /\ UNCHANGED <<type, env, savedIn>>
    BY <1>3, <1>8 DEF Pick
  <2> QED BY <1>4, <1>5, <1>8, <2>1, ItemIsPicked, PickSettles
<1>9. ASSUME NEW flag, Toggle(flag) PROVE Result
  <2>1. edited' = TRUE /\ UNCHANGED <<type, env, savedIn>>
    BY <1>3, <1>9 DEF Toggle
  <2> QED BY <1>4, <1>5, <1>9, <2>1, FlagIsToggled, ToggleSettles
<1>10. ASSUME NEW field, NEW n \in Numbers, TypeNumber(field, n) PROVE Result
  <2>1. edited' = TRUE /\ UNCHANGED <<type, env, savedIn>>
    BY <1>3, <1>10 DEF TypeNumber
  <2> QED BY <1>4, <1>5, <1>10, <2>1, NumberIsTyped, TypedSettles
<1> QED BY <1>1, <1>6, <1>7, <1>8, <1>9, <1>10 DEF Edits

LEMMA VisitStart == SettingsInit => VisitInv
<1> SUFFICES ASSUME SettingsInit PROVE VisitInv
  OBVIOUS
<1>1. type \in Types /\ config \in Configs(type) /\ env \in Environments /\ page = NoPage /\ savedIn = NoEnvironment
  BY DEF SettingsInit
<1>2. IsTyped(config)
  BY <1>1, SettingsAssumption DEF IsTyped, CameraParts
<1> QED BY <1>1, <1>2 DEF VisitInv

\* Opening a page that was saved while the system offered the same.
LEMMA OpenSettles ==
  ASSUME SettingsInv, VisitInv, Open
  PROVE  /\ page' # NoPage /\ WillSettle(page', config') /\ IsTyped(config')
         /\ savedIn = env => config' = config /\ Saved(page', config') = config'
<1>1. page = NoPage /\ page' = Loaded(config).p /\ config' = Loaded(config).c
  BY DEF Open
<1>2. type \in PageTypes /\ IsConfig(config) /\ IsTyped(config) /\ env \in Environments
  BY DEF SettingsInv, VisitInv
<1>3. IsLoadedInto(Loaded(config), config)
  BY <1>2, LoadSettles
<1>4. page' # NoPage
  BY <1>1, <1>2, PageIsLoaded, GoodIsOpen
<1>5. savedIn = env => Settled(config, env)
  BY <1>1, <1>2, SystemAssumption DEF VisitInv
<1> QED BY <1>1, <1>3, <1>4, <1>5 DEF IsLoadedInto

LEMMA VisitStep ==
  ASSUME InputsNeedOutputs, SettingsInv, VisitInv, [SettingsNext]_settingsVars
  PROVE  VisitInv'
<1>1. IsTyped(config) /\ savedIn \in Environments \cup {NoEnvironment} /\ env \in Environments
  BY DEF VisitInv
<1>2. CASE SystemChanges
  <2>1. /\ page = NoPage /\ page' = NoPage /\ type' = type /\ config' = config /\ savedIn' = savedIn
        /\ env' \in Environments
    BY <1>2 DEF SystemChanges
  <2>2. savedIn # NoEnvironment => Settled(config, savedIn)
    BY <2>1 DEF VisitInv
  <2>3. savedIn' # NoEnvironment => Settled(config, savedIn)'
    BY <2>1, <2>2, SettledPrimed
  <2> QED BY <1>1, <2>1, <2>3 DEF VisitInv, IsTyped
<1>3. CASE Open
  <2>1. edited' = FALSE /\ UNCHANGED <<type, env, savedIn>>
    BY <1>3 DEF Open
  <2>2. /\ page' # NoPage /\ WillSettle(page', config') /\ IsTyped(config')
        /\ savedIn = env => config' = config /\ Saved(page', config') = config'
    BY <1>3, OpenSettles
  <2>3. WillSettle(page, config)' /\ Saved(page, config)' = Saved(page', config')
    BY <2>1, <2>2, PagePrimed
  <2> QED BY <1>1, <2>1, <2>2, <2>3 DEF VisitInv, IsTyped
<1>4. CASE Close
  <2>1. /\ page # NoPage /\ page' = NoPage /\ config' = Saved(page, config) /\ savedIn' = env
        /\ UNCHANGED <<type, env>>
    BY <1>4 DEF Close
  <2>2. Good(page) /\ IsConfig(config) /\ WillSettle(page, config) /\ type \in PageTypes
    BY <2>1 DEF VisitInv, SettingsInv
  <2>3. Settled(config', savedIn') /\ IsTyped(config')
    BY <1>1, <2>1, <2>2, PageSettles
  <2>4. Settled(config, savedIn)'
    BY <2>1, <2>3, SettledPrimed
  <2> QED BY <1>1, <2>1, <2>3, <2>4 DEF VisitInv, IsTyped
<1>5. CASE Edits
  <2>1. /\ page' # NoPage /\ edited' = TRUE /\ UNCHANGED <<type, env, savedIn>>
        /\ WillSettle(page', config') /\ IsTyped(config')
    BY <1>5, EditsSettle
  <2>2. WillSettle(page, config)'
    BY <2>1, PagePrimed
  <2> QED BY <1>1, <2>1, <2>2 DEF VisitInv, IsTyped
<1>6. CASE UNCHANGED settingsVars
  <2>1. UNCHANGED <<type, env, config, page, edited, savedIn>>
    BY <1>6 DEF settingsVars
  <2>2. Settled(config, savedIn)' <=> Settled(config, savedIn)
    BY <2>1, SettledPrimed
  <2>3. (WillSettle(page, config)' <=> WillSettle(page, config)) /\ Saved(page, config)' = Saved(page, config)
    BY <2>1, PagePrimed
  <2> QED BY <1>1, <2>1, <2>2, <2>3 DEF VisitInv, IsTyped
<1> QED BY <1>2, <1>3, <1>4, <1>5, <1>6 DEF SettingsNext, Edits

\* On a system where inputs come with an output, whatever else it offers, for
\* every configuration and whatever was edited in earlier visits: a visit
\* without an edit writes the configuration back as the last visit saved it, on
\* all four pages (src/src/gui/SettingsPage.cpp, load_common to save_stream,
\* and src/src/gui/ScreenshotSettingsPage.cpp, load and save).
THEOREM UneditedVisits ==
  ASSUME InputsNeedOutputs
  PROVE  SettingsSpec => UneditedVisitKeepsConfig
<1> DEFINE A == /\ page # NoPage => (page' = NoPage /\ ~edited /\ savedIn = env => config' = config)
                /\ page = NoPage /\ savedIn = env => config' = config
           I == SettingsInv /\ VisitInv
<1>1. SettingsInit => I
  BY SettingsStart, VisitStart
<1>2. I /\ [SettingsNext]_settingsVars => I'
  BY SettingsStep, VisitStep
<1>3. I /\ [SettingsNext]_settingsVars => [A]_settingsVars
  <2> SUFFICES ASSUME SettingsInv, VisitInv, SettingsNext PROVE A
    OBVIOUS
  <2>1. CASE SystemChanges
    BY <2>1 DEF SystemChanges
  <2>2. CASE Open
    BY <2>2, OpenSettles DEF Open
  <2>3. CASE Close
    BY <2>3 DEF Close, VisitInv
  <2>4. CASE Edits
    BY <2>4, EditsSettle
  <2> QED BY <2>1, <2>2, <2>3, <2>4 DEF SettingsNext, Edits
<1> QED BY <1>1, <1>2, <1>3, PTL DEF SettingsSpec, UneditedVisitKeepsConfig

-----------------------------------------------------------------------------
(* HotkeySettings, for every set of actions, keys and modifiers and        *)
(* however many commands wait in the pipe: what the helper has bound once  *)
(* it has read its pipe is what is configured.                             *)

\* What the pipe carries.
Binding == [action : Actions, hotkey : Hotkey]
Command == Binding \cup {UnbindAll}

\* No command unbinds after the i-th of cs.
LastingFrom(cs, i) == \A j \in 1 .. Len(cs) : j >= i => cs[j] # UnbindAll

\* The helper's table, once it has read the commands cs.
Outcome(table, cs) ==
    {e \in Binding : \/ e \in table /\ LastingFrom(cs, 1)
                     \/ \E i \in 1 .. Len(cs) : cs[i] = e /\ LastingFrom(cs, i)}

\* The entries of the actions in ids.
Bound(h, ids) == {BindCommand(h, a) : a \in ids}

\* Two facts about commands.
LEMMA CommandFacts ==
  /\ UnbindAll \notin Binding
  /\ \A h \in [Actions -> Hotkey] : Entries(h) \subseteq Binding /\ Entries(h) = Bound(h, BindableActions(h))
<1>1. UnbindAll \notin Binding
  BY HotkeyAssumption DEF UnbindAll, Binding
<1>2. ASSUME NEW h \in [Actions -> Hotkey], NEW a \in BindableActions(h) PROVE BindCommand(h, a) \in Binding
  BY DEF BindableActions, BindCommand, Binding
<1> QED BY <1>1, <1>2 DEF Entries, Bound

\* A hotkey stays one when its key or its modifiers change.
LEMMA ChangedIsHotkey ==
  ASSUME NEW c \in Hotkey
  PROVE  /\ \A k \in Keys : [c EXCEPT !.key = k] \in Hotkey
         /\ \A ms \in SUBSET Modifiers : [c EXCEPT !.modifiers = ms] \in Hotkey
BY DEF Hotkey

LEMMA NoHotkeyIsHotkey == NoHotkey \in Hotkey
BY DEF NoHotkey, Hotkey

\* The commands that bind hotkeys: each entry, and nothing else.
LEMMA BindCommandsAreEntries ==
  ASSUME NEW h \in [Actions -> Hotkey]
  PROVE  /\ BindCommands(h) \in Seq(Binding)
         /\ \A e : e \in Entries(h) <=> \E i \in 1 .. Len(BindCommands(h)) : BindCommands(h)[i] = e
<1> DEFINE A == BindableActions(h)
           E == Entries(h)
           f == [a \in A |-> BindCommand(h, a)]
<1>1. IsFiniteSet(A)
  BY HotkeyAssumption, FS_Subset DEF BindableActions
<1>2. f \in Surjection(A, E)
  BY DEF Surjection, Entries
<1>3. IsFiniteSet(E)
  BY <1>1, <1>2, FS_Surjection
<1>4. Cardinality(E) \in Nat /\ ExistsBijection(1 .. Cardinality(E), E)
  BY <1>3, FS_CardinalityType
<1>5. \E g \in [1 .. Cardinality(E) -> E] : IsInjective(g)
  BY <1>4 DEF ExistsBijection, Bijection, Injection, IsInjective
<1> DEFINE s == SetToSeq(E)
<1>6. s \in [1 .. Cardinality(E) -> E] /\ IsInjective(s)
  BY <1>5 DEF SetToSeq
<1>7. s \in Surjection(1 .. Cardinality(E), E)
  <2>1. s \in Injection(1 .. Cardinality(E), E)
    BY <1>6 DEF Injection
  <2>2. Cardinality(1 .. Cardinality(E)) = Cardinality(E)
    BY <1>4, FS_Interval
  <2> QED BY <1>3, <2>1, <2>2, FS_Injection
<1>8. s \in Seq(E) /\ Len(s) = Cardinality(E)
  BY <1>4, <1>6
<1>9. E \subseteq Binding
  BY CommandFacts
<1>10. BindCommands(h) = s
  BY DEF BindCommands, Entries
<1>11. s \in Seq(Binding)
  BY <1>8, <1>9, SeqMonotonic
<1>12. \A e : e \in E <=> \E i \in 1 .. Len(s) : s[i] = e
  BY <1>7, <1>8, <1>6 DEF Surjection
<1> QED BY <1>10, <1>11, <1>12

\* Nothing is read from an empty pipe.
LEMMA OutcomeOfNothing ==
  ASSUME NEW t \in SUBSET Binding
  PROVE  Outcome(t, <<>>) = t
BY DEF Outcome, LastingFrom

\* Whatever comes before it, unbinding empties the table.
LEMMA OutcomeOfUnbind ==
  ASSUME NEW t \in SUBSET Binding, NEW cs \in Seq(Command)
  PROVE  /\ Append(cs, UnbindAll) \in Seq(Command)
         /\ Outcome(t, Append(cs, UnbindAll)) = {}
<1> DEFINE ds == Append(cs, UnbindAll)
<1>1. Len(ds) = Len(cs) + 1 /\ Len(cs) \in Nat /\ ds[Len(ds)] = UnbindAll /\ ds \in Seq(Command)
  BY DEF Command
<1>2. \A i \in 1 .. Len(ds) : ~LastingFrom(ds, i)
  BY <1>1 DEF LastingFrom
<1>3. 1 \in 1 .. Len(ds)
  BY <1>1
<1> QED BY <1>1, <1>2, <1>3 DEF Outcome

\* Commands that bind add their entries to what the earlier ones leave.
LEMMA OutcomeOfBindings ==
  ASSUME NEW t \in SUBSET Binding, NEW cs \in Seq(Command), NEW ds \in Seq(Binding)
  PROVE  /\ cs \o ds \in Seq(Command)
         /\ Outcome(t, cs \o ds) = Outcome(t, cs) \cup {ds[i] : i \in 1 .. Len(ds)}
<1> DEFINE es == cs \o ds
           m == Len(cs)
           n == Len(ds)
<1>1. ds \in Seq(Command)
  BY SeqMonotonic DEF Command
<1>2. /\ es \in Seq(Command) /\ m \in Nat /\ n \in Nat /\ Len(es) = m + n
      /\ \A i \in 1 .. m + n : es[i] = IF i <= m THEN cs[i] ELSE ds[i - m]
  BY <1>1, ConcatProperties, LenProperties
<1>3. \A i \in 1 .. n : ds[i] \in Binding /\ ds[i] # UnbindAll
  BY CommandFacts, ElementOfSeq
<1>4. \A i \in 1 .. m : es[i] = cs[i]
  BY <1>2
<1>5. \A i \in m + 1 .. m + n : i - m \in 1 .. n /\ es[i] = ds[i - m]
  BY <1>2
<1>6. \A i \in 1 .. m + n : LastingFrom(es, i) <=> LastingFrom(cs, i)
  <2> TAKE i \in 1 .. m + n
  <2>1. ASSUME LastingFrom(es, i) PROVE LastingFrom(cs, i)
    BY <1>2, <1>4, <2>1 DEF LastingFrom
  <2>2. ASSUME LastingFrom(cs, i) PROVE LastingFrom(es, i)
    <3>1. ASSUME NEW j \in 1 .. Len(es), j >= i PROVE es[j] # UnbindAll
      <4>1. CASE j <= m
        BY <1>2, <1>4, <2>2, <3>1, <4>1 DEF LastingFrom
      <4>2. CASE j > m
        BY <1>2, <1>3, <1>5, <4>2
      <4> QED BY <1>2, <4>1, <4>2
    <3> QED BY <3>1 DEF LastingFrom
  <2> QED BY <2>1, <2>2
<1>7. LastingFrom(es, 1) <=> LastingFrom(cs, 1)
  <2>1. CASE m + n = 0
    BY <1>2, <2>1 DEF LastingFrom
  <2>2. CASE m + n # 0
    BY <1>2, <1>6, <2>2
  <2> QED BY <2>1, <2>2
<1>8. \A i \in m + 1 .. m + n : LastingFrom(es, i)
  <2>1. \A i \in m + 1 .. m + n : LastingFrom(cs, i)
    BY <1>2 DEF LastingFrom
  <2> QED BY <1>2, <1>6, <2>1
<1>9. ASSUME NEW e \in Binding PROVE
        (\E i \in 1 .. Len(es) : es[i] = e /\ LastingFrom(es, i))
        <=> \/ \E i \in 1 .. m : cs[i] = e /\ LastingFrom(cs, i)
            \/ \E i \in 1 .. n : ds[i] = e
  <2>1. ASSUME NEW i \in 1 .. Len(es), es[i] = e, LastingFrom(es, i)
        PROVE  \/ \E k \in 1 .. m : cs[k] = e /\ LastingFrom(cs, k)
               \/ \E k \in 1 .. n : ds[k] = e
    <3>1. CASE i <= m
      <4>1. i \in 1 .. m /\ cs[i] = e /\ LastingFrom(cs, i)
        BY <1>2, <1>4, <1>6, <2>1, <3>1
      <4> QED BY <4>1
    <3>2. CASE i > m
      <4>1. i - m \in 1 .. n /\ ds[i - m] = e
        BY <1>2, <1>5, <2>1, <3>2
      <4> QED BY <4>1
    <3> QED BY <1>2, <3>1, <3>2
  <2>2. ASSUME NEW i \in 1 .. m, cs[i] = e, LastingFrom(cs, i)
        PROVE  \E k \in 1 .. Len(es) : es[k] = e /\ LastingFrom(es, k)
    <3>1. i \in 1 .. Len(es) /\ i \in 1 .. m + n
      BY <1>2
    <3>2. es[i] = e /\ LastingFrom(es, i)
      BY <1>4, <1>6, <2>2, <3>1
    <3> QED BY <3>1, <3>2
  <2>3. ASSUME NEW i \in 1 .. n, ds[i] = e
        PROVE  \E k \in 1 .. Len(es) : es[k] = e /\ LastingFrom(es, k)
    <3>1. i + m \in 1 .. Len(es) /\ i + m \in m + 1 .. m + n /\ (i + m) - m = i
      BY <1>2
    <3>2. es[i + m] = e /\ LastingFrom(es, i + m)
      BY <1>5, <1>8, <2>3, <3>1
    <3> QED BY <3>1, <3>2
  <2> QED BY <2>1, <2>2, <2>3
<1>10. \A e \in Binding : e \in Outcome(t, es) <=> e \in Outcome(t, cs) \/ \E i \in 1 .. n : ds[i] = e
  BY <1>7, <1>9 DEF Outcome
<1>11. \A e : e \in {ds[i] : i \in 1 .. n} <=> \E i \in 1 .. n : ds[i] = e
  OBVIOUS
<1>12. Outcome(t, es) \subseteq Binding /\ Outcome(t, cs) \subseteq Binding
  BY DEF Outcome
<1>13. \A e : e \in Outcome(t, es) <=> e \in Outcome(t, cs) \cup {ds[i] : i \in 1 .. n}
  BY <1>3, <1>10, <1>11, <1>12
<1> QED BY <1>2, <1>13

\* Reading a command leaves the outcome as it is.
LEMMA OutcomeOfReading ==
  ASSUME NEW t \in SUBSET Binding, NEW cs \in Seq(Command), cs # <<>>,
         NEW u, u = IF Head(cs) = UnbindAll THEN {} ELSE t \cup {Head(cs)}
  PROVE  /\ u \in SUBSET Binding /\ Tail(cs) \in Seq(Command)
         /\ Outcome(u, Tail(cs)) = Outcome(t, cs)
<1> DEFINE ds == Tail(cs)
           n == Len(ds)
<1>1. /\ Head(cs) \in Command /\ Head(cs) = cs[1] /\ ds \in Seq(Command) /\ n \in Nat
      /\ Len(cs) = n + 1 /\ \A i \in 1 .. n : ds[i] = cs[i + 1]
  BY HeadTailProperties, LenProperties
<1>2. u \in SUBSET Binding
  BY <1>1 DEF Command
<1>3. \A i \in 1 .. n : LastingFrom(ds, i) <=> LastingFrom(cs, i + 1)
  <2> TAKE i \in 1 .. n
  <2>1. ASSUME LastingFrom(cs, i + 1) PROVE LastingFrom(ds, i)
    BY <1>1, <2>1 DEF LastingFrom
  <2>2. ASSUME LastingFrom(ds, i) PROVE LastingFrom(cs, i + 1)
    <3>1. ASSUME NEW j \in 1 .. Len(cs), j >= i + 1 PROVE cs[j] # UnbindAll
      <4>1. j - 1 \in 1 .. n /\ j - 1 >= i /\ (j - 1) + 1 = j
        BY <1>1, <3>1
      <4>2. ds[j - 1] = cs[j]
        BY <1>1, <4>1
      <4> QED BY <2>2, <4>1, <4>2 DEF LastingFrom
    <3> QED BY <3>1 DEF LastingFrom
  <2> QED BY <2>1, <2>2
<1>4. LastingFrom(cs, 1) <=> Head(cs) # UnbindAll /\ LastingFrom(ds, 1)
  <2>1. ASSUME LastingFrom(cs, 1) PROVE Head(cs) # UnbindAll /\ LastingFrom(ds, 1)
    BY <1>1, <2>1 DEF LastingFrom
  <2>2. ASSUME Head(cs) # UnbindAll, LastingFrom(ds, 1) PROVE LastingFrom(cs, 1)
    <3>1. ASSUME NEW j \in 1 .. Len(cs) PROVE cs[j] # UnbindAll
      <4>1. CASE j = 1
        BY <1>1, <2>2, <4>1
      <4>2. CASE j # 1
        <5>1. j - 1 \in 1 .. n /\ j - 1 >= 1 /\ (j - 1) + 1 = j
          BY <1>1, <3>1, <4>2
        <5>2. ds[j - 1] = cs[j]
          BY <1>1, <5>1
        <5> QED BY <2>2, <5>1, <5>2 DEF LastingFrom
      <4> QED BY <4>1, <4>2
    <3> QED BY <3>1 DEF LastingFrom
  <2> QED BY <2>1, <2>2
<1>5. ASSUME NEW e \in Binding PROVE
        (\E i \in 1 .. Len(cs) : cs[i] = e /\ LastingFrom(cs, i))
        <=> \/ Head(cs) = e /\ LastingFrom(cs, 1)
            \/ \E i \in 1 .. n : ds[i] = e /\ LastingFrom(ds, i)
  <2>1. ASSUME NEW i \in 1 .. Len(cs), cs[i] = e, LastingFrom(cs, i)
        PROVE  \/ Head(cs) = e /\ LastingFrom(cs, 1)
               \/ \E k \in 1 .. n : ds[k] = e /\ LastingFrom(ds, k)
    <3>1. CASE i = 1
      BY <1>1, <2>1, <3>1
    <3>2. CASE i # 1
      <4>1. i - 1 \in 1 .. n /\ (i - 1) + 1 = i
        BY <1>1, <2>1, <3>2
      <4>2. ds[i - 1] = e /\ LastingFrom(ds, i - 1)
        BY <1>1, <1>3, <2>1, <4>1
      <4> QED BY <4>1, <4>2
    <3> QED BY <3>1, <3>2
  <2>2. ASSUME Head(cs) = e, LastingFrom(cs, 1)
        PROVE  \E k \in 1 .. Len(cs) : cs[k] = e /\ LastingFrom(cs, k)
    <3>1. 1 \in 1 .. Len(cs)
      BY <1>1
    <3> QED BY <1>1, <2>2, <3>1
  <2>3. ASSUME NEW i \in 1 .. n, ds[i] = e, LastingFrom(ds, i)
        PROVE  \E k \in 1 .. Len(cs) : cs[k] = e /\ LastingFrom(cs, k)
    <3>1. i + 1 \in 1 .. Len(cs)
      BY <1>1
    <3>2. cs[i + 1] = e /\ LastingFrom(cs, i + 1)
      BY <1>1, <1>3, <2>3
    <3> QED BY <3>1, <3>2
  <2> QED BY <2>1, <2>2, <2>3
<1>6. \A e \in Binding : e \in Outcome(u, ds) <=> e \in Outcome(t, cs)
  <2> TAKE e \in Binding
  <2>1. e # UnbindAll
    BY CommandFacts
  <2>2. e \in Outcome(t, cs) <=> \/ (e \in t \/ Head(cs) = e) /\ LastingFrom(cs, 1)
                                 \/ \E i \in 1 .. n : ds[i] = e /\ LastingFrom(ds, i)
    BY <1>5 DEF Outcome
  <2>3. e \in Outcome(u, ds) <=> \/ e \in u /\ LastingFrom(ds, 1)
                                 \/ \E i \in 1 .. n : ds[i] = e /\ LastingFrom(ds, i)
    BY DEF Outcome
  <2>4. e \in u <=> Head(cs) # UnbindAll /\ (e \in t \/ Head(cs) = e)
    OBVIOUS
  <2> HIDE DEF n, ds
  <2> QED BY <1>4, <2>2, <2>3, <2>4
<1> QED BY <1>1, <1>2, <1>6 DEF Outcome

-----------------------------------------------------------------------------
\* The pipe and the table of a helper that was started, for the hotkeys h and
\* the bound actions ids; a helper that was not started has neither.
PipeHolds(h, ids, cs, table, started) ==
    /\ cs \in Seq(Command) /\ table \in SUBSET Binding /\ ids \subseteq BindableActions(h)
    /\ started => Outcome(table, cs) = Bound(h, ids)
    /\ ~started => cs = <<>> /\ ids = {}

\* The inductive invariant.  That the outcome is what boundIds says is what
\* makes it safe to send no command to unbind when boundIds is empty.
HotkeyInv ==
    /\ hotkeys \in [Actions -> Hotkey] /\ texts \in [Actions -> Hotkey]
    /\ configuring \in Actions \cup {NoAction} /\ candidate \in Hotkey
    /\ pageShown => \A a \in Actions \ {configuring} : texts[a] = hotkeys[a]
    /\ pageShown \/ configuring = NoAction
    /\ running \in BOOLEAN
    /\ PipeHolds(hotkeys, boundIds, commands, helper, running)
    /\ running /\ configuring = NoAction => boundIds = BindableActions(hotkeys)

\* The commands that unbind everything leave nothing bound.
LEMMA UnboundEmpties ==
  ASSUME HotkeyInv, running
  PROVE  Unbound \in Seq(Command) /\ Outcome(helper, Unbound) = {}
<1>1. CASE boundIds = {}
  BY <1>1 DEF Unbound, HotkeyInv, PipeHolds, Bound
<1>2. CASE boundIds # {}
  <2>1. Unbound = Append(commands, UnbindAll)
    BY <1>2 DEF Unbound
  <2> QED BY <2>1, OutcomeOfUnbind DEF HotkeyInv, PipeHolds
<1> QED BY <1>1, <1>2

\* Binding again, whatever is bound before it: the helper will have what is
\* configured.
LEMMA RebindBinds ==
  ASSUME HotkeyInv, NEW h \in [Actions -> Hotkey], Rebind(h), UNCHANGED <<helper, running>>
  PROVE  PipeHolds(h, boundIds', commands', helper', running') /\ (running' => boundIds' = BindableActions(h))
<1>1. CASE running
  <2>1. commands' = Unbound \o BindCommands(h) /\ boundIds' = BindableActions(h)
    BY <1>1 DEF Rebind
  <2>2. Unbound \in Seq(Command) /\ Outcome(helper, Unbound) = {} /\ helper \in SUBSET Binding
    BY <1>1, UnboundEmpties DEF HotkeyInv, PipeHolds
  <2>3. BindCommands(h) \in Seq(Binding)
    BY BindCommandsAreEntries
  <2>4. {BindCommands(h)[i] : i \in 1 .. Len(BindCommands(h))} = Bound(h, BindableActions(h))
    BY BindCommandsAreEntries, CommandFacts
  <2> DEFINE ds == BindCommands(h)
  <2>5. Unbound \o ds \in Seq(Command) /\ Outcome(helper, Unbound \o ds) = {} \cup {ds[i] : i \in 1 .. Len(ds)}
    <3> HIDE DEF ds
    <3> QED BY <2>2, <2>3, OutcomeOfBindings DEF ds
  <2>6. commands' \in Seq(Command) /\ Outcome(helper, commands') = Bound(h, BindableActions(h))
    BY <2>1, <2>4, <2>5
  <2> QED BY <1>1, <2>1, <2>2, <2>6 DEF PipeHolds
<1>2. CASE ~running
  BY <1>2 DEF Rebind, HotkeyInv, PipeHolds
<1> QED BY <1>1, <1>2 DEF HotkeyInv

\* A helper that has just been started is told everything.
LEMMA StartBinds ==
  ASSUME NEW h \in [Actions -> Hotkey], NEW started \in BOOLEAN, NEW ids, NEW cs,
         cs = IF started THEN BindCommands(h) ELSE <<>>,
         ids = IF started THEN BindableActions(h) ELSE {}
  PROVE  PipeHolds(h, ids, cs, {}, started)
<1>1. CASE started
  <2>1. BindCommands(h) \in Seq(Binding) /\ <<>> \in Seq(Command)
    BY BindCommandsAreEntries, EmptySeq
  <2>2. {BindCommands(h)[i] : i \in 1 .. Len(BindCommands(h))} = Bound(h, BindableActions(h))
    BY BindCommandsAreEntries, CommandFacts
  <2>3. Outcome({}, <<>>) = {}
    BY OutcomeOfNothing
  <2>4. <<>> \o BindCommands(h) = BindCommands(h)
    BY <2>1, ConcatEmptySeq
  <2> DEFINE ds == BindCommands(h)
  <2>5. <<>> \o ds \in Seq(Command) /\ Outcome({}, <<>> \o ds) = {} \cup {ds[i] : i \in 1 .. Len(ds)}
    <3> SUFFICES ASSUME NEW t \in SUBSET Binding, NEW before \in Seq(Command), Outcome(t, before) = {}
                 PROVE  /\ before \o ds \in Seq(Command)
                        /\ Outcome(t, before \o ds) = {} \cup {ds[i] : i \in 1 .. Len(ds)}
      BY <2>1, <2>3
    <3>1. ds \in Seq(Binding)
      BY <2>1
    <3> HIDE DEF ds
    <3>2. /\ before \o ds \in Seq(Command)
          /\ Outcome(t, before \o ds) = Outcome(t, before) \cup {ds[i] : i \in 1 .. Len(ds)}
      BY <3>1, OutcomeOfBindings, Zenon
    <3> QED BY <3>2
  <2>6. ds \in Seq(Command) /\ Outcome({}, ds) = Bound(h, BindableActions(h))
    BY <2>2, <2>4, <2>5
  <2> QED BY <1>1, <2>6 DEF PipeHolds
<1>2. CASE ~started
  BY <1>2, EmptySeq DEF PipeHolds
<1> QED BY <1>1, <1>2

LEMMA HotkeyInit_Inv == HotkeyInit => HotkeyInv
<1> SUFFICES ASSUME HotkeyInit PROVE HotkeyInv
  OBVIOUS
<1>1. hotkeys \in [Actions -> Hotkey]
  BY HotkeyAssumption DEF HotkeyInit
<1>2. PipeHolds(hotkeys, boundIds, commands, helper, running)
  BY <1>1, StartBinds DEF HotkeyInit
<1> QED BY <1>1, <1>2, NoHotkeyIsHotkey, HotkeyAssumption DEF HotkeyInit, HotkeyInv

\* What the end of a choice leaves: used by the actions that bind again.
LEMMA RestoredTextsShow ==
  ASSUME HotkeyInv
  PROVE  /\ RestoredTexts \in [Actions -> Hotkey]
         /\ pageShown => RestoredTexts = hotkeys
         /\ pageShown => \A a \in Actions \ {configuring} : RestoredTexts[a] = hotkeys[a]
<1>1. CASE configuring = NoAction
  BY <1>1, HotkeyAssumption DEF HotkeyInv, RestoredTexts
<1>2. CASE configuring \in Actions
  <2>1. RestoredTexts = [texts EXCEPT ![configuring] = hotkeys[configuring]]
    BY <1>2, HotkeyAssumption DEF RestoredTexts
  <2>2. RestoredTexts \in [Actions -> Hotkey]
    BY <1>2, <2>1 DEF HotkeyInv
  <2>3. pageShown => \A a \in Actions : RestoredTexts[a] = hotkeys[a]
    BY <1>2, <2>1 DEF HotkeyInv
  <2> QED BY <2>2, <2>3 DEF HotkeyInv
<1> QED BY <1>1, <1>2 DEF HotkeyInv

LEMMA CancelKeeps ==
  ASSUME HotkeyInv, ConfigureCancel, UNCHANGED <<hotkeys, running, helper>>, pageShown' => pageShown
  PROVE  HotkeyInv'
<1>1. Rebind(hotkeys) /\ texts' = RestoredTexts /\ configuring' = NoAction /\ candidate' = NoHotkey
  BY DEF ConfigureCancel
<1>2. hotkeys' = hotkeys /\ hotkeys \in [Actions -> Hotkey] /\ UNCHANGED <<helper, running>>
  BY DEF HotkeyInv
<1>3. PipeHolds(hotkeys, boundIds', commands', helper', running') /\ (running' => boundIds' = BindableActions(hotkeys))
  BY <1>1, <1>2, RebindBinds
<1>4. (PipeHolds(hotkeys, boundIds, commands, helper, running))'
  BY <1>2, <1>3 DEF PipeHolds
<1>5. (running /\ configuring = NoAction => boundIds = BindableActions(hotkeys))'
  BY <1>2, <1>3 DEF BindableActions
<1>6. (pageShown => \A a \in Actions \ {configuring} : texts[a] = hotkeys[a])'
  BY <1>1, <1>2, RestoredTextsShow
<1> QED BY <1>1, <1>2, <1>4, <1>5, <1>6, RestoredTextsShow, NoHotkeyIsHotkey DEF HotkeyInv

LEMMA StopAndSaveKeeps ==
  ASSUME HotkeyInv, configuring # NoAction, NEW hotkey \in Hotkey, StopAndSave(hotkey),
         UNCHANGED <<pageShown, running, helper>>
  PROVE  HotkeyInv'
<1>1. CASE UsedByAnother(hotkey)
  <2>1. /\ texts' = RestoredTexts /\ candidate' = NoHotkey
        /\ UNCHANGED <<hotkeys, configuring, commands, boundIds>>
    BY <1>1 DEF StopAndSave
  <2>2. (PipeHolds(hotkeys, boundIds, commands, helper, running))'
    BY <2>1 DEF HotkeyInv, PipeHolds, BindableActions
  <2> QED BY <2>1, <2>2, RestoredTextsShow, NoHotkeyIsHotkey DEF HotkeyInv
<1>2. CASE ~UsedByAnother(hotkey)
  <2> DEFINE h == [hotkeys EXCEPT ![configuring] = hotkey]
  <2>1. /\ hotkeys' = h /\ texts' = [texts EXCEPT ![configuring] = hotkey]
        /\ configuring' = NoAction /\ candidate' = NoHotkey /\ Rebind(hotkeys')
    BY <1>2 DEF StopAndSave
  <2>2. configuring \in Actions /\ h \in [Actions -> Hotkey] /\ texts' \in [Actions -> Hotkey]
    BY <2>1 DEF HotkeyInv
  <2>3. Rebind(h)
    BY <2>1 DEF Rebind
  <2>4. PipeHolds(h, boundIds', commands', helper', running') /\ (running' => boundIds' = BindableActions(h))
    <3> HIDE DEF h
    <3> QED BY <2>2, <2>3, RebindBinds
  <2>5. (PipeHolds(hotkeys, boundIds, commands, helper, running))'
    BY <2>1, <2>4 DEF PipeHolds
  <2>6. (running => boundIds = BindableActions(hotkeys))'
    BY <2>1, <2>4 DEF BindableActions
  <2>7. (pageShown => \A a \in Actions \ {configuring} : texts[a] = hotkeys[a])'
    BY <2>1, <2>2 DEF HotkeyInv
  <2> QED BY <2>1, <2>2, <2>5, <2>6, <2>7, NoHotkeyIsHotkey DEF HotkeyInv
<1> QED BY <1>1, <1>2

\* Every step keeps the invariant.
LEMMA HotkeyNext_Inv == HotkeyInv /\ [HotkeyNext]_hotkeyVars => HotkeyInv'
<1> SUFFICES ASSUME HotkeyInv, [HotkeyNext]_hotkeyVars PROVE HotkeyInv'
  OBVIOUS
<1>1. CASE OpenHotkeys
  <2>1. (PipeHolds(hotkeys, boundIds, commands, helper, running))'
    BY <1>1 DEF OpenHotkeys, HotkeyInv, PipeHolds, BindableActions
  <2>2. configuring = NoAction \/ configuring \in Actions
    BY DEF HotkeyInv
  <2> QED BY <1>1, <2>1, NoHotkeyIsHotkey DEF OpenHotkeys, HotkeyInv
<1>2. CASE CloseHotkeys
  BY <1>2, CancelKeeps DEF CloseHotkeys
<1>3. ASSUME NEW action \in Actions, ConfigureStart(action) PROVE HotkeyInv'
  <2>1. /\ configuring' = action /\ candidate' = NoHotkey /\ texts' = [texts EXCEPT ![action] = NoHotkey]
        /\ commands' = Unbound /\ boundIds' = (IF running THEN {} ELSE boundIds)
        /\ UNCHANGED <<hotkeys, pageShown, running, helper>> /\ configuring = NoAction
    BY <1>3 DEF ConfigureStart, Unbind
  <2>2. (PipeHolds(hotkeys, boundIds, commands, helper, running))'
    <3>1. CASE running
      BY <2>1, <3>1, UnboundEmpties DEF HotkeyInv, PipeHolds, Bound
    <3>2. CASE ~running
      BY <2>1, <3>2 DEF HotkeyInv, PipeHolds, Unbound
    <3> QED BY <3>1, <3>2
  <2>3. (pageShown => \A a \in Actions \ {configuring} : texts[a] = hotkeys[a])'
    BY <2>1, HotkeyAssumption DEF HotkeyInv
  <2>4. pageShown
    BY <1>3 DEF ConfigureStart
  <2> QED BY <2>1, <2>2, <2>3, <2>4, NoHotkeyIsHotkey, HotkeyAssumption DEF HotkeyInv
<1>4. ASSUME NEW m \in Modifiers, PressModifier(m) \/ ReleaseModifier(m) PROVE HotkeyInv'
  <2>1. PICK ms \in SUBSET Modifiers : HoldModifiers(ms)
    BY <1>4 DEF PressModifier, ReleaseModifier, HotkeyInv, Hotkey
  <2>2. /\ candidate' = [candidate EXCEPT !.modifiers = ms] /\ texts' = [texts EXCEPT ![configuring] = candidate']
        /\ configuring # NoAction
        /\ UNCHANGED <<hotkeys, pageShown, configuring, running, boundIds, commands, helper>>
    BY <2>1 DEF HoldModifiers
  <2>3. candidate' \in Hotkey
    BY <2>2, ChangedIsHotkey DEF HotkeyInv
  <2>4. (PipeHolds(hotkeys, boundIds, commands, helper, running))'
    BY <2>2 DEF HotkeyInv, PipeHolds, BindableActions
  <2> QED BY <2>2, <2>3, <2>4 DEF HotkeyInv
<1>5. ASSUME NEW key \in Keys, PressKey(key) PROVE HotkeyInv'
  <2>1. [candidate EXCEPT !.key = key] \in Hotkey
    BY ChangedIsHotkey DEF HotkeyInv
  <2> QED BY <1>5, <2>1, StopAndSaveKeeps DEF PressKey
<1>6. CASE PressBackspace
  BY <1>6, NoHotkeyIsHotkey, StopAndSaveKeeps DEF PressBackspace
<1>7. CASE ReleaseEscape
  BY <1>7, CancelKeeps DEF ReleaseEscape
<1>8. ASSUME NEW h \in [Actions -> Hotkey], SetHotkeys(h) PROVE HotkeyInv'
  <2>1. /\ hotkeys' = h /\ texts' = h /\ Rebind(h) /\ configuring = NoAction
        /\ UNCHANGED <<pageShown, configuring, candidate, running, helper>>
    BY <1>8 DEF SetHotkeys
  <2>2. PipeHolds(h, boundIds', commands', helper', running') /\ (running' => boundIds' = BindableActions(h))
    BY <2>1, RebindBinds
  <2>3. (PipeHolds(hotkeys, boundIds, commands, helper, running))'
    BY <2>1, <2>2 DEF PipeHolds
  <2>4. (running => boundIds = BindableActions(hotkeys))'
    BY <2>1, <2>2 DEF BindableActions
  <2> QED BY <2>1, <2>3, <2>4 DEF HotkeyInv
<1>9. ASSUME NEW started \in BOOLEAN, Recreate(started) PROVE HotkeyInv'
  <2>1. /\ running' = started /\ helper' = {}
        /\ commands' = (IF started THEN BindCommands(hotkeys) ELSE <<>>)
        /\ boundIds' = (IF started THEN BindableActions(hotkeys) ELSE {})
        /\ UNCHANGED <<hotkeys, texts, pageShown, configuring, candidate>>
    BY <1>9 DEF Recreate
  <2>2. PipeHolds(hotkeys, boundIds', commands', {}, started)
    BY <2>1, StartBinds DEF HotkeyInv
  <2>3. (PipeHolds(hotkeys, boundIds, commands, helper, running))'
    BY <2>1, <2>2 DEF PipeHolds
  <2>4. (running => boundIds = BindableActions(hotkeys))'
    BY <2>1 DEF BindableActions
  <2> QED BY <2>1, <2>3, <2>4 DEF HotkeyInv
<1>10. CASE MappingChanged
  <2>1. Rebind(hotkeys) /\ UNCHANGED <<hotkeys, texts, pageShown, configuring, candidate, running, helper>>
    BY <1>10 DEF MappingChanged
  <2>2. PipeHolds(hotkeys, boundIds', commands', helper', running') /\ (running' => boundIds' = BindableActions(hotkeys))
    BY <2>1, RebindBinds DEF HotkeyInv
  <2>3. (PipeHolds(hotkeys, boundIds, commands, helper, running))'
    BY <2>1, <2>2 DEF PipeHolds
  <2>4. (running => boundIds = BindableActions(hotkeys))'
    BY <2>1, <2>2 DEF BindableActions
  <2> QED BY <2>1, <2>3, <2>4 DEF HotkeyInv
<1>11. CASE HelperReads
  <2>1. /\ commands # <<>> /\ commands' = Tail(commands)
        /\ helper' = (IF Head(commands) = UnbindAll THEN {} ELSE helper \cup {Head(commands)})
        /\ UNCHANGED <<hotkeys, texts, pageShown, configuring, candidate, running, boundIds>>
    BY <1>11 DEF HelperReads
  <2>2. commands \in Seq(Command) /\ helper \in SUBSET Binding
    BY DEF HotkeyInv, PipeHolds
  <2>3. /\ helper' \in SUBSET Binding /\ commands' \in Seq(Command)
        /\ Outcome(helper', commands') = Outcome(helper, commands)
    <3> DEFINE u == IF Head(commands) = UnbindAll THEN {} ELSE helper \cup {Head(commands)}
    <3>1. helper' = u /\ commands' = Tail(commands) /\ commands # <<>>
      BY <2>1
    <3> HIDE DEF u
    <3>2. /\ u \in SUBSET Binding /\ Tail(commands) \in Seq(Command)
          /\ Outcome(u, Tail(commands)) = Outcome(helper, commands)
      BY <2>2, <3>1, OutcomeOfReading, Zenon DEF u
    <3> QED BY <3>1, <3>2
  <2>4. (PipeHolds(hotkeys, boundIds, commands, helper, running))'
    BY <2>1, <2>3 DEF HotkeyInv, PipeHolds
  <2>5. (running /\ configuring = NoAction => boundIds = BindableActions(hotkeys))'
    BY <2>1 DEF HotkeyInv
  <2> QED BY <2>1, <2>4, <2>5 DEF HotkeyInv
<1>12. CASE UNCHANGED hotkeyVars
  <2>1. (PipeHolds(hotkeys, boundIds, commands, helper, running))'
    BY <1>12 DEF hotkeyVars, HotkeyInv, PipeHolds
  <2> QED BY <1>12, <2>1 DEF hotkeyVars, HotkeyInv
<1>13. DefaultHotkeys \in [Actions -> Hotkey] /\ [a \in Actions |-> NoHotkey] \in [Actions -> Hotkey]
  BY HotkeyAssumption, NoHotkeyIsHotkey
<1> QED BY <1>1, <1>2, <1>3, <1>4, <1>5, <1>6, <1>7, <1>8, <1>9, <1>10, <1>11, <1>12, <1>13 DEF HotkeyNext

\* The invariant gives the agreement.
LEMMA HotkeyInv_Agree == HotkeyInv => HotkeysAgree
<1> SUFFICES ASSUME HotkeyInv PROVE HotkeysAgree
  OBVIOUS
<1>1. ASSUME running, commands = <<>>
      PROVE  helper = Bound(hotkeys, boundIds) /\ helper \subseteq Entries(hotkeys)
  <2>1. Outcome(helper, <<>>) = helper
    BY OutcomeOfNothing DEF HotkeyInv, PipeHolds
  <2>2. helper = Bound(hotkeys, boundIds) /\ boundIds \subseteq BindableActions(hotkeys)
    BY <1>1, <2>1 DEF HotkeyInv, PipeHolds
  <2> QED BY <2>2 DEF Bound, Entries
<1>2. Entries(hotkeys) = Bound(hotkeys, BindableActions(hotkeys))
  BY CommandFacts DEF HotkeyInv
<1> QED BY <1>1, <1>2 DEF HotkeyInv, HotkeysAgree

\* For any hotkeys, choices and helpers: the buttons show what is configured,
\* and a helper that has read its pipe has bound it, however a choice ends, is
\* refused or is overtaken by a new helper or a new keyboard layout
\* (src/src/gui/GlobalSettingsPage.cpp and
\* src/src/GlobalHotkeys/GlobalHotkeysLinux.cpp).
THEOREM HotkeysAlwaysAgree == HotkeySpec => []HotkeysAgree
<1>1. HotkeySpec => []HotkeyInv
  BY HotkeyInit_Inv, HotkeyNext_Inv, PTL DEF HotkeySpec
<1> QED BY <1>1, HotkeyInv_Agree, PTL

-----------------------------------------------------------------------------
(* WebcamBox, for every size of the screen, the camera and the corner,     *)
(* every pointer and every division of the saved values.                   *)

\* What is true of a division by a positive number.
LEMMA Division ==
  ASSUME NEW a \in Int, NEW d \in Nat \ {0}
  PROVE  a \div d \in Int /\ d * (a \div d) <= a /\ a < d * (a \div d) + d
OBVIOUS

\* A division is the only number between the two bounds.
LEMMA DivisionAtMost ==
  ASSUME NEW a \in Int, NEW d \in Nat \ {0}, NEW q \in Int, a < d * (q + 1)
  PROVE  a \div d <= q
<1> DEFINE r == a \div d
<1>1. r \in Int /\ d * r <= a
  BY Division
<1> HIDE DEF r
<1> SUFFICES ASSUME r >= q + 1 PROVE FALSE
  BY <1>1 DEF r
<1>2. d * r >= d * (q + 1)
  BY <1>1
<1> QED BY <1>1, <1>2

LEMMA DivisionAtLeast ==
  ASSUME NEW a \in Int, NEW d \in Nat \ {0}, NEW q \in Int, d * q <= a
  PROVE  q <= a \div d
<1> DEFINE r == a \div d
<1>1. r \in Int /\ a < d * r + d
  BY Division
<1> HIDE DEF r
<1> SUFFICES ASSUME r <= q - 1 PROVE FALSE
  BY <1>1 DEF r
<1>2. d * r <= d * (q - 1)
  BY <1>1
<1> QED BY <1>1, <1>2

\* A box that is longer than the whole begins before it and does not reach
\* past its end.
NotBeyond(pos, size, whole) == size <= whole \/ pos + size <= whole

\* Loading per cent keeps that.
LEMMA FromPercentsNotBeyond ==
  ASSUME NEW pos \in Int, NEW size \in Nat, NotBeyond(pos, size, Percents)
  PROVE  /\ FromPercents(pos) \in Int /\ FromPercents(size) \in Nat
         /\ NotBeyond(FromPercents(pos), FromPercents(size), Screen)
<1> DEFINE p == (pos * Screen) \div Percents
           z == (size * Screen) \div Percents
<1>1. Screen \in Nat \ {0} /\ Percents \in Nat \ {0} /\ pos * Screen \in Int /\ size * Screen \in Nat
  BY WebcamBoxAssumption
<1>2. p \in Int /\ z \in Int /\ Percents * p <= pos * Screen /\ Percents * z <= size * Screen
  BY <1>1, Division
<1>3. z >= 0
  BY <1>1, DivisionAtLeast
<1> HIDE DEF p, z
<1>4. CASE size <= Percents
  <2>1. size * Screen <= Percents * Screen
    BY <1>1, <1>4
  <2>2. size * Screen < Percents * (Screen + 1)
    BY <1>1, <2>1
  <2>3. z <= Screen
    BY <1>1, <2>2, DivisionAtMost DEF z
  <2> QED BY <1>2, <1>3, <2>3 DEF NotBeyond, FromPercents, p, z
<1>5. CASE pos + size <= Percents
  <2>1. pos * Screen + size * Screen = (pos + size) * Screen
    BY <1>1
  <2>2. (pos + size) * Screen <= Percents * Screen
    BY <1>1, <1>5
  <2>3. Percents * (p + z) = Percents * p + Percents * z
    BY <1>1, <1>2
  <2>4. Percents * (p + z) <= Percents * Screen
    BY <1>1, <1>2, <2>1, <2>2, <2>3
  <2>5. p + z <= Screen
    <3> SUFFICES ASSUME p + z >= Screen + 1 PROVE FALSE
      BY <1>1, <1>2
    <3>1. Percents * (p + z) >= Percents * (Screen + 1)
      BY <1>1, <1>2
    <3>2. Percents * (Screen + 1) = Percents * Screen + Percents
      BY <1>1
    <3> QED BY <1>1, <1>2, <2>4, <3>1, <3>2
  <2> QED BY <1>2, <1>3, <2>5 DEF NotBeyond, FromPercents, p, z
<1> QED BY <1>4, <1>5 DEF NotBeyond

\* Saving in per cent keeps it too: rounding treats what is missing before
\* the whole as it treats what is too long.
LEMMA ToPercentsNotBeyond ==
  ASSUME NEW pos \in Int, NEW size \in Nat, NotBeyond(pos, size, Screen)
  PROVE  /\ ToPercents(pos) \in Int /\ ToPercents(size) \in Nat
         /\ NotBeyond(ToPercents(pos), ToPercents(size), Percents)
<1> DEFINE z == (2 * size * Percents + Screen) \div (2 * Screen)
           p == (2 * pos * Percents + Screen) \div (2 * Screen)
           m == (2 * (-pos) * Percents + Screen) \div (2 * Screen)
<1>1. /\ Screen \in Nat \ {0} /\ Percents \in Nat \ {0} /\ 2 * Screen \in Nat \ {0}
      /\ size * Percents \in Nat /\ pos * Percents \in Int
  BY WebcamBoxAssumption
<1>2. /\ 2 * size * Percents = 2 * (size * Percents) /\ 2 * pos * Percents = 2 * (pos * Percents)
      /\ 2 * (-pos) * Percents = -2 * (pos * Percents)
  BY <1>1
<1>3. /\ 2 * size * Percents + Screen \in Nat /\ 2 * pos * Percents + Screen \in Int
      /\ 2 * (-pos) * Percents + Screen \in Int
  BY <1>1, <1>2
<1>4. z \in Int /\ p \in Int /\ m \in Int /\ 2 * (-pos) * Percents + Screen < (2 * Screen) * m + 2 * Screen
  <2>1. ASSUME NEW a \in Int
        PROVE  a \div (2 * Screen) \in Int /\ a < (2 * Screen) * (a \div (2 * Screen)) + 2 * Screen
    BY <1>1, Division
  <2> QED BY <1>3, <2>1
<1>5. z >= 0
  BY <1>1, <1>3, DivisionAtLeast
<1>6. ToPercents(size) = z /\ ToPercents(pos) = (IF pos < 0 THEN -m ELSE p)
  BY DEF ToPercents
<1> HIDE DEF z, p, m
<1>7. CASE size <= Screen
  <2>1. size * Percents <= Screen * Percents
    BY <1>1, <1>7
  <2>2. (2 * Screen) * (Percents + 1) = 2 * (Screen * Percents) + 2 * Screen
    BY <1>1
  <2>3. 2 * size * Percents + Screen < (2 * Screen) * (Percents + 1)
    BY <1>1, <1>2, <2>1, <2>2
  <2>4. z <= Percents
    BY <1>1, <1>3, <2>3, DivisionAtMost DEF z
  <2> QED BY <1>4, <1>5, <1>6, <2>4 DEF NotBeyond
<1>8. CASE size > Screen /\ pos + size <= Screen
  <2>1. pos < 0
    BY <1>1, <1>8
  <2>2. (size + pos) * Percents <= Screen * Percents
    BY <1>1, <1>8
  <2>3. size * Percents + pos * Percents <= Screen * Percents
    BY <1>1, <2>2
  <2>4. (2 * Screen) * (m + Percents + 1) = (2 * Screen) * m + 2 * (Screen * Percents) + 2 * Screen
    BY <1>1, <1>4
  <2>5. (2 * Screen) * m \in Int /\ Screen * Percents \in Int
    BY <1>1, <1>4
  <2>6. 2 * size * Percents + Screen < (2 * Screen) * (m + Percents + 1)
    BY <1>1, <1>2, <1>4, <2>3, <2>4, <2>5
  <2>7. z <= m + Percents
    <3> DEFINE a == 2 * size * Percents + Screen
               d == 2 * Screen
               q == m + Percents
    <3>1. a \in Int /\ d \in Nat \ {0} /\ q \in Int /\ z = a \div d
      BY <1>1, <1>3, <1>4 DEF z
    <3>2. a < d * (q + 1)
      BY <2>6
    <3> HIDE DEF a, d, q
    <3>3. z <= q
      BY <3>1, <3>2, DivisionAtMost
    <3> QED BY <3>3 DEF q
  <2> QED BY <1>1, <1>4, <1>5, <1>6, <2>1, <2>7 DEF NotBeyond
<1> QED BY <1>1, <1>7, <1>8 DEF NotBeyond

-----------------------------------------------------------------------------
\* The inductive invariant: types, and that neither the box nor what is saved
\* of it is beyond its whole.
BoxTypes ==
    /\ box \in [pos : Int, size : Nat] /\ drawn \in [pos : Int, size : Nat]
    /\ drag \in {"none", "moving", "resizing"}
    /\ grab \in [start : Int, size : Int, offset : Int]
    /\ pointer \in Int /\ savedBox \in [pos : Int, size : Nat]

BoxInv ==
    /\ BoxTypes
    /\ NotBeyond(box.pos, box.size, Screen)
    /\ NotBeyond(savedBox.pos, savedBox.size, Percents)

LEMMA BoxInit_Inv == BoxInit => BoxInv
BY WebcamBoxAssumption DEF BoxInit, BoxInv, BoxTypes, NotBeyond, Box

\* Clamping, whatever the drag made of the box.
LEMMA ClampedNotBeyond ==
  ASSUME NEW b \in [pos : Int, size : Int]
  PROVE  LET c == SizeClamped(PositionClamped(b))
         IN  c \in [pos : Int, size : Nat] /\ NotBeyond(c.pos, c.size, Screen)
<1> DEFINE q == PositionClamped(b)
<1>1. Screen \in Nat \ {0} /\ Camera \in Nat \ {0} /\ MinSize \in Nat /\ MinSize <= Screen
  BY WebcamBoxAssumption DEF MinSize, Smaller
<1>2. q \in [pos : Int, size : Int] /\ (q.pos = 0 \/ q.pos + q.size <= Screen)
  BY <1>1 DEF PositionClamped, Box
<1> HIDE DEF q
<1>3. CASE q.size < MinSize
  BY <1>1, <1>2, <1>3 DEF SizeClamped, Box, NotBeyond, q
<1>4. CASE q.size >= MinSize /\ q.pos + q.size > Screen
  <2>1. q.pos = 0
    BY <1>1, <1>2, <1>4
  <2>2. SizeClamped(q) = Box(0, Smaller(Camera, Screen))
    BY <1>1, <1>2, <1>4, <2>1 DEF SizeClamped
  <2> QED BY <1>1, <2>2 DEF Box, Smaller, NotBeyond, q
<1>5. CASE q.size >= MinSize /\ q.pos + q.size <= Screen
  <2>1. SizeClamped(q) = q
    BY <1>1, <1>2, <1>5 DEF SizeClamped
  <2> QED BY <1>1, <1>2, <1>5, <2>1 DEF NotBeyond, q
<1> QED BY <1>1, <1>2, <1>3, <1>4, <1>5

LEMMA DraggedType == BoxInv => Dragged \in [pos : Int, size : Int]
BY WebcamBoxAssumption DEF BoxInv, BoxTypes, Dragged, Box, Smaller

LEMMA BoxNext_Inv == BoxInv /\ [BoxNext]_boxVars => BoxInv'
<1> SUFFICES ASSUME BoxInv, [BoxNext]_boxVars PROVE BoxInv'
  OBVIOUS
<1> USE WebcamBoxAssumption
<1>1. CASE LoadBox
  <2> DEFINE p == FromPercents(savedBox.pos)
             z == FromPercents(savedBox.size)
  <2>1. p \in Int /\ z \in Nat /\ NotBeyond(p, z, Screen)
    BY FromPercentsNotBeyond DEF BoxInv, BoxTypes
  <2> HIDE DEF p, z
  <2>2. /\ box' = Box(p, Smaller(Camera, z)) /\ drawn' = Box(0, 0) /\ drag' = "none"
        /\ UNCHANGED <<grab, pointer, savedBox>>
    BY <1>1 DEF LoadBox, p, z
  <2> QED BY <2>1, <2>2 DEF BoxInv, BoxTypes, NotBeyond, Box, Smaller
<1>2. CASE SaveBox
  <2> DEFINE p == ToPercents(box.pos)
             w == Smaller(Camera, box.size)
             z == ToPercents(w)
  <2>1. w \in Nat /\ NotBeyond(box.pos, w, Screen) /\ box.pos \in Int
    BY DEF BoxInv, BoxTypes, NotBeyond, Smaller
  <2>2. savedBox' = [pos |-> p, size |-> z] /\ UNCHANGED <<box, drawn, drag, grab, pointer>>
    BY <1>2 DEF SaveBox
  <2> HIDE DEF w
  <2>3. p \in Int /\ z \in Nat /\ NotBeyond(p, z, Percents)
    BY <2>1, ToPercentsNotBeyond
  <2> HIDE DEF p, z
  <2> QED BY <2>2, <2>3 DEF BoxInv, BoxTypes
<1>3. CASE DrawBox
  <2> DEFINE c == SizeClamped(PositionClamped(Dragged))
  <2>1. c \in [pos : Int, size : Nat] /\ NotBeyond(c.pos, c.size, Screen)
    BY DraggedType, ClampedNotBeyond
  <2>2. box' = c /\ drawn' = c /\ UNCHANGED <<drag, grab, pointer, savedBox>>
    BY <1>3 DEF DrawBox
  <2> HIDE DEF c
  <2> QED BY <2>1, <2>2 DEF BoxInv, BoxTypes
<1>4. CASE MovePointer
  BY <1>4 DEF MovePointer, BoxInv, BoxTypes
<1>5. CASE LeftPress
  BY <1>5 DEF LeftPress, BoxInv, BoxTypes
<1>6. CASE RightPress
  BY <1>6 DEF RightPress, BoxInv, BoxTypes
<1>7. CASE Release
  BY <1>7 DEF Release, BoxInv, BoxTypes
<1>8. CASE UNCHANGED boxVars
  BY <1>8 DEF boxVars, BoxInv, BoxTypes
<1> QED BY <1>1, <1>2, <1>3, <1>4, <1>5, <1>6, <1>7, <1>8 DEF BoxNext

\* A frame without a drag.
LEMMA ReleasedFrame ==
  BoxInv /\ [BoxNext]_boxVars => (DrawBox /\ drag = "none" /\ box.size >= MinSize => Inside(box'))
<1> SUFFICES ASSUME BoxInv, DrawBox, drag = "none", box.size >= MinSize PROVE Inside(box')
  OBVIOUS
<1> DEFINE w == Smaller(Camera, box.size)
<1>1. Screen \in Nat \ {0} /\ Camera \in Nat \ {0} /\ MinSize \in Nat /\ MinSize <= Camera
  BY WebcamBoxAssumption DEF MinSize, Smaller
<1>2. /\ box.pos \in Int /\ w \in Nat /\ w >= MinSize /\ w <= Camera
      /\ (box.pos < 0 \/ w <= Screen)
  BY <1>1 DEF BoxInv, BoxTypes, NotBeyond, Smaller
<1>3. box' = SizeClamped(PositionClamped(Box(box.pos, w)))
  BY DEF DrawBox, Dragged
<1> HIDE DEF w
<1>4. CASE box.pos < 0
  <2>1. PositionClamped(Box(box.pos, w)) = Box(0, w)
    BY <1>2, <1>4 DEF PositionClamped, Box
  <2> QED BY <1>1, <1>2, <1>3, <2>1 DEF SizeClamped, Inside, Box, Smaller
<1>5. CASE box.pos >= 0 /\ box.pos + w > Screen
  <2>1. PositionClamped(Box(box.pos, w)) = Box(Screen - w, w)
    BY <1>1, <1>2, <1>5 DEF PositionClamped, Box
  <2> QED BY <1>1, <1>2, <1>3, <1>5, <2>1 DEF SizeClamped, Inside, Box
<1>6. CASE box.pos >= 0 /\ box.pos + w <= Screen
  <2>1. PositionClamped(Box(box.pos, w)) = Box(box.pos, w)
    BY <1>1, <1>2, <1>6 DEF PositionClamped, Box
  <2> QED BY <1>1, <1>2, <1>3, <1>6, <2>1 DEF SizeClamped, Inside, Box
<1> QED BY <1>1, <1>2, <1>4, <1>5, <1>6

\* For every screen, camera and pointer: the first frame after a drag brings a
\* box of a legal size back into the screen, also one that was saved while it
\* was dragged out of it and loaded again (draw_handler of
\* create_webcam_location_widget in src/src/gui/SettingsPage.cpp).
THEOREM ReleasedBoxComesInside == BoxSpec => ReleasedBoxIsInside
<1>1. BoxSpec => []BoxInv
  BY BoxInit_Inv, BoxNext_Inv, PTL DEF BoxSpec
<1> QED BY <1>1, ReleasedFrame, PTL DEF BoxSpec, ReleasedBoxIsInside

-----------------------------------------------------------------------------
(* ConfigFile, for every file another version has left and every           *)
(* configuration the pages set.                                            *)

\* A configuration that need not be upgraded.
IsCurrent(c) == c = [o \in Options |-> c[o]] /\ c.version = Version /\ c.startup # "turn_on_at_fullscreen"

\* The file is what the last save made of it.
FileInv ==
    /\ configFile.format \in {"absent", "empty", "lines", "json", "broken"}
    /\ \/ written = NoConfig
       \/ written = Lost /\ (configFile = Empty \/ configFile.format = "broken")
       \/ IsCurrent(written) /\ configFile = File("json", written, Options, {})

\* A configuration is neither of the two that stand for none.
LEMMA ConfigsDiffer ==
  /\ NoConfig # Lost
  /\ \A c : c = [o \in Options |-> c[o]] => c # NoConfig /\ c # Lost
<1>1. DOMAIN NoConfig = {"none"} /\ DOMAIN Lost = {"lost"}
  BY DEF NoConfig, Lost
<1>2. ASSUME NEW c, c = [o \in Options |-> c[o]] PROVE "version" \in DOMAIN c
  BY <1>2 DEF Options
<1>3. "none" \notin DOMAIN Lost /\ "version" \notin DOMAIN Lost /\ "version" \notin DOMAIN NoConfig
  BY <1>1
<1> QED BY <1>1, <1>2, <1>3

\* What is read is a configuration.
LEMMA ReadGives ==
  ASSUME FileInv, NEW monitors, NEW read, read = ReadConfig(configFile, monitors)
  PROVE  read = NoConfig \/ read = [o \in Options |-> read[o]]
<1>1. CASE configFile.format \in {"absent", "broken"}
  BY <1>1 DEF ReadConfig
<1>2. CASE configFile.format \in {"lines", "empty"}
  <2>1. read = LegacyRead(configFile, monitors)
    BY <1>2 DEF ReadConfig
  <2> QED BY <2>1 DEF LegacyRead
<1>3. CASE configFile.format = "json"
  <2>1. read = JsonRead(configFile, monitors)
    BY <1>3 DEF ReadConfig
  <2> QED BY <2>1 DEF JsonRead
<1> QED BY <1>1, <1>2, <1>3 DEF FileInv

LEMMA UpgradedIsCurrent ==
  ASSUME NEW c, c = [o \in Options |-> c[o]]
  PROVE  LET u == Upgraded(c)
         IN  u = [o \in Options |-> u[o]] /\ u.startup # "turn_on_at_fullscreen"
BY DEF Upgraded, Options

\* A save keeps or replaces the file, or loses it.
LEMMA SaveKeepsFile ==
  ASSUME FileInv, NEW c, c = [o \in Options |-> c[o]], c.startup # "turn_on_at_fullscreen",
         NEW after, Save(c, after)
  PROVE  FileInv'
<1> DEFINE m == [c EXCEPT !.version = Version]
           whole == File("json", m, Options, {})
<1>1. /\ configFile' \in SaveResults(m)
      /\ written' = IF configFile' = whole THEN m ELSE IF configFile' = configFile THEN written ELSE Lost
  BY DEF Save
<1>2. IsCurrent(m)
  BY DEF IsCurrent, Options
<1> HIDE DEF m
<1>3. whole.format = "json" /\ Empty.format = "empty"
  BY DEF File, Empty
<1>4. CASE configFile' = whole
  BY <1>1, <1>2, <1>3, <1>4 DEF FileInv, IsCurrent
<1>5. CASE configFile' # whole /\ configFile' = configFile
  BY <1>1, <1>5 DEF FileInv, IsCurrent
<1>6. CASE configFile' # whole /\ configFile' # configFile
  <2>1. configFile' = Empty \/ \E has : configFile' = File("broken", m, has, {})
    BY <1>1, <1>6 DEF SaveResults
  <2>2. \A has : File("broken", m, has, {}).format = "broken"
    BY DEF File
  <2>3. configFile' = Empty \/ configFile'.format = "broken"
    BY <2>1, <2>2
  <2>4. written' = Lost
    BY <1>1, <1>6
  <2>5. configFile'.format \in {"empty", "broken"}
    BY <1>3, <2>3
  <2> HIDE DEF whole
  <2> QED BY <2>3, <2>4, <2>5 DEF FileInv
<1> QED BY <1>4, <1>5, <1>6

LEMMA ReadKeepsFile ==
  ASSUME FileInv, NEW c, NEW monitors, NEW after, ReadInto(c, monitors, after)
  PROVE  FileInv'
<1> DEFINE read == ReadConfig(configFile, monitors)
<1>1. read = NoConfig \/ read = [o \in Options |-> read[o]]
  BY ReadGives
<1>2. \/ UNCHANGED <<configFile, written>>
      \/ read # NoConfig /\ Save(Upgraded(read), after)
  BY DEF ReadInto
<1> HIDE DEF read
<1>3. CASE UNCHANGED <<configFile, written>>
  BY <1>3 DEF FileInv, IsCurrent
<1>4. CASE read # NoConfig /\ Save(Upgraded(read), after)
  <2>1. Upgraded(read) = [o \in Options |-> Upgraded(read)[o]] /\ Upgraded(read).startup # "turn_on_at_fullscreen"
    BY <1>1, <1>4, UpgradedIsCurrent
  <2> DEFINE u == Upgraded(read)
  <2>2. u = [o \in Options |-> u[o]] /\ u.startup # "turn_on_at_fullscreen" /\ Save(u, after)
    BY <1>4, <2>1
  <2> HIDE DEF u
  <2> QED BY <2>2, SaveKeepsFile
<1> QED BY <1>2, <1>3, <1>4

LEMMA FileInit == ConfigInit => FileInv
BY ConfigAssumption DEF ConfigInit, FileInv

LEMMA FileNext == FileInv /\ [ConfigNext]_configVars => FileInv'
<1> SUFFICES ASSUME FileInv, [ConfigNext]_configVars PROVE FileInv'
  OBVIOUS
<1>1. CASE ReadLanguage \/ ReadAtStart \/ ReloadConfig
  BY <1>1, ReadKeepsFile DEF ReadLanguage, ReadAtStart, ReloadConfig
<1>2. CASE ChangeAndSave
  <2>1. PICK c \in NewValues : Save([c EXCEPT !.version = memory.version], "running")
    BY <1>2 DEF ChangeAndSave
  <2> DEFINE d == [c EXCEPT !.version = memory.version]
  <2>2. c = [o \in Options |-> c[o]] /\ c.startup # "turn_on_at_fullscreen"
    BY ConfigAssumption
  <2>3. d = [o \in Options |-> d[o]] /\ d.startup # "turn_on_at_fullscreen"
    BY <2>2 DEF Options
  <2>4. Save(d, "running")
    BY <2>1
  <2> HIDE DEF d
  <2> QED BY <2>3, <2>4, SaveKeepsFile
<1>3. CASE End \/ UNCHANGED configVars
  BY <1>3 DEF End, configVars, FileInv, IsCurrent
<1> QED BY <1>1, <1>2, <1>3 DEF ConfigNext

\* The two files that an interrupted save leaves, and the one of a whole save.
LEMMA ReadOfEmpty ==
  LET d == Default(HasMonitors)
      read == LegacyRead(Empty, HasMonitors)
  IN  read = [d EXCEPT !.tracks = <<>>] /\ read # NoConfig /\ ~NeedsUpgrade(read)
<1> DEFINE d == Default(HasMonitors)
           read == LegacyRead(Empty, HasMonitors)
           e == [d EXCEPT !.tracks = <<>>]
<1>1. Empty.has = {} /\ Empty.bad = {}
  BY DEF Empty, File
<1>2. d = [o \in Options |-> d[o]] /\ d.version = Version /\ d.startup = "dont_turn_on_automatically"
  BY DEF Default, Options
<1>3. read = [o \in Options |-> IF o = "tracks" THEN <<>> ELSE d[o]]
  BY <1>1 DEF LegacyRead
<1> HIDE DEF d
<1>4. e = [o \in Options |-> IF o = "tracks" THEN <<>> ELSE d[o]]
  BY <1>2 DEF Options
<1>5. read = [o \in Options |-> read[o]] /\ read.version = Version /\ read.startup = "dont_turn_on_automatically"
  BY <1>2, <1>3 DEF Options
<1> HIDE DEF read, e
<1>6. read # NoConfig
  BY <1>5, ConfigsDiffer
<1>7. ~NeedsUpgrade(read)
  BY <1>5 DEF NeedsUpgrade, Version
<1> QED BY <1>3, <1>4, <1>6, <1>7 DEF read, e, d

LEMMA StartIsWhole ==
  ASSUME FileInv, ReadAtStart
  PROVE  /\ written = Lost =>
              memory' \in {Default(HasMonitors), [Default(HasMonitors) EXCEPT !.tracks = <<>>]}
         /\ written # NoConfig /\ written # Lost => memory' = written
<1> DEFINE read == ReadConfig(configFile, HasMonitors)
<1>1. /\ read = NoConfig => memory' = Default(HasMonitors)
      /\ read # NoConfig /\ ~NeedsUpgrade(read) => memory' = read
  BY DEF ReadAtStart, ReadInto
<1>2. ASSUME written = Lost
      PROVE  memory' \in {Default(HasMonitors), [Default(HasMonitors) EXCEPT !.tracks = <<>>]}
  <2>1. configFile = Empty \/ configFile.format = "broken"
    BY <1>2, ConfigsDiffer DEF FileInv, IsCurrent
  <2>2. CASE configFile.format = "broken"
    BY <1>1, <2>2 DEF ReadConfig
  <2>3. CASE configFile = Empty
    <3>1. configFile.format = "empty"
      BY <2>3 DEF Empty, File
    <3>2. read = LegacyRead(Empty, HasMonitors)
      BY <2>3, <3>1 DEF ReadConfig
    <3> QED BY <1>1, <3>2, ReadOfEmpty
  <2> QED BY <2>1, <2>2, <2>3
<1>3. ASSUME written # NoConfig, written # Lost PROVE memory' = written
  <2>1. IsCurrent(written) /\ configFile = File("json", written, Options, {})
    BY <1>3 DEF FileInv
  <2>2. configFile.format = "json" /\ configFile.has = Options /\ configFile.bad = {} /\ configFile.values = written
    BY <2>1 DEF File
  <2>3. read = JsonRead(configFile, HasMonitors)
    BY <2>2 DEF ReadConfig
  <2>4. read = [o \in Options |-> written[o]]
    BY <2>2, <2>3 DEF JsonRead
  <2> HIDE DEF read
  <2>5. read = written
    BY <2>1, <2>4, Zenon DEF IsCurrent
  <2>6. ~NeedsUpgrade(read)
    BY <2>1, <2>5 DEF NeedsUpgrade, Version, IsCurrent
  <2> QED BY <1>1, <1>3, <2>5, <2>6
<1> QED BY <1>2, <1>3

\* Whatever file another version has left, however often and wherever saves are
\* interrupted, a start has the configuration of the last save as a whole, or
\* the defaults (src/src/Config.cpp, read_config, save_config and
\* upgrade_deprecated_config_options).
THEOREM RestartIsAlwaysWhole == ConfigSpec => RestartIsWhole
<1>1. ConfigSpec => []FileInv
  BY FileInit, FileNext, PTL DEF ConfigSpec
<1> DEFINE Whole == CASE written = NoConfig -> TRUE
                      [] written = Lost ->
                            memory' \in {Default(HasMonitors), [Default(HasMonitors) EXCEPT !.tracks = <<>>]}
                      [] OTHER -> memory' = written
<1>2. FileInv => [ReadAtStart => Whole]_configVars
  BY StartIsWhole, ConfigsDiffer
<1> QED BY <1>1, <1>2, PTL DEF RestartIsWhole

-----------------------------------------------------------------------------
(* Export, for every host and every video, every number that is typed, and *)
(* any number of exports at a time.                                        *)

\* What is known of the page: whatever is chosen, it remembers the last bitrate
\* that was typed, and else shows the scaled one; the frame rate counts as the
\* source's only while it is.
PageFields == {"container", "resolution", "quality", "video", "audio", "reencodeVideo", "reencodeAudio",
               "advanced", "framerate", "modified", "bitrate", "manual", "lastManual"}
Containers == {"mp4", "matroska", "webm", "mov"} \cup {v.container : v \in ExportVideos}
IsPage(p) ==
    /\ DOMAIN p = PageFields /\ p.container \in Containers
    /\ p.bitrate \in Nat /\ p.framerate \in Nat /\ p.resolution \in Nat \X Nat /\ p.reencodeVideo \in BOOLEAN
Agrees(p) ==
    /\ p.manual => p.bitrate = p.lastManual
    /\ p.quality = "custom" /\ ~p.manual /\ p.framerate # 0 => p.bitrate = ScaledBitrate(p.resolution, p.framerate)
    /\ video.fps # 0 /\ ~p.modified => p.framerate = video.fps
PageInv ==
    /\ video \in ExportVideos
    /\ exportPage # NoExport => IsPage(exportPage) /\ Agrees(exportPage)

\* The numbers of the scaling.
LEMMA AtLeastOneBounds ==
  ASSUME NEW n \in Nat
  PROVE  AtLeastOne(n) \in Nat /\ AtLeastOne(n) >= 1 /\ (n >= 1 => AtLeastOne(n) = n)
<1>1. \E m \in {1, n} : \A k \in {1, n} : m >= k
  <2>1. CASE n >= 1
    BY <2>1
  <2>2. CASE n < 1
    BY <2>2
  <2> QED BY <2>1, <2>2
<1>2. Max({1, n}) \in {1, n} /\ \A k \in {1, n} : Max({1, n}) >= k
  BY <1>1 DEF Max
<1> QED BY <1>2 DEF AtLeastOne

LEMMA MinOfTwo ==
  ASSUME NEW m \in Nat, NEW n \in Nat
  PROVE  Min({m, n}) \in Nat /\ (m = n => Min({m, n}) = n)
<1>1. Min({m, n}) \in {m, n}
  BY MinIsMember
<1> QED BY <1>1

LEMMA RoundedIsNat ==
  ASSUME NEW n \in Nat, NEW d \in Nat, d # 0
  PROVE  Rounded(n, d) \in Nat
<1>1. 2 * n + d \in Nat /\ 2 * d \in Nat /\ 2 * d > 0
  OBVIOUS
<1> QED BY <1>1 DEF Rounded

LEMMA RoundedOfMultiple ==
  ASSUME NEW b \in Nat, NEW d \in Nat, d # 0
  PROVE  Rounded(b * d, d) = b
<1> DEFINE e == 2 * d
<1>1. e \in Nat /\ e > 0 /\ d < e
  OBVIOUS
<1>2. 2 * (b * d) + d = b * e + d
  OBVIOUS
<1> HIDE DEF e
<1>3. (b * e + d) \div e = b
  BY <1>1
<1> QED BY <1>2, <1>3 DEF Rounded, e

\* Rounding keeps the order.
LEMMA RoundedKeepsOrder ==
  ASSUME NEW m \in Nat, NEW n \in Nat, NEW d \in Nat, d # 0, m <= n
  PROVE  Rounded(m, d) <= Rounded(n, d)
<1> DEFINE e == 2 * d
           x == 2 * m + d
           y == 2 * n + d
<1>1. e \in Nat /\ e > 0 /\ x \in Nat /\ y \in Nat /\ x <= y
  OBVIOUS
<1> HIDE DEF e, x, y
<1>2. x \div e <= y \div e
  BY <1>1
<1> QED BY <1>2 DEF Rounded, e, x, y

LEMMA ProductKeepsOrder ==
  ASSUME NEW a \in Nat, NEW b \in Nat, NEW c \in Nat, NEW d \in Nat, a <= c, b <= d
  PROVE  a * b \in Nat /\ a * b <= c * d
<1>1. a * b <= c * b
  OBVIOUS
<1>2. c * b <= c * d
  OBVIOUS
<1> QED BY <1>1, <1>2

LEMMA EvenSideBounds ==
  ASSUME NEW n \in Nat
  PROVE  /\ EvenSide(n) \in Nat /\ EvenSide(n) >= 2 /\ EvenSide(n) % 2 = 0
         /\ n >= 2 /\ n % 2 = 0 => EvenSide(n) = n
         /\ EvenSide(n) = IF n >= 2 THEN n - (n % 2) ELSE 2
<1> DEFINE k == n - (n % 2)
<1>1. k \in Nat /\ k % 2 = 0 /\ (n >= 2 => k >= 2) /\ (n < 2 => k < 2)
  OBVIOUS
<1> HIDE DEF k
<1>2. \E m \in {2, k} : \A l \in {2, k} : m >= l
  <2>1. CASE k >= 2
    BY <1>1, <2>1
  <2>2. CASE k < 2
    BY <1>1, <2>2
  <2> QED BY <1>1, <2>1, <2>2
<1>3. Max({2, k}) \in {2, k} /\ \A l \in {2, k} : Max({2, k}) >= l
  BY <1>2 DEF Max
<1>4. EvenSide(n) = Max({2, k})
  BY DEF EvenSide, k
<1>5. EvenSide(n) = IF n >= 2 THEN k ELSE 2
  BY <1>1, <1>3, <1>4
<1> QED BY <1>1, <1>5 DEF k

LEMMA EvenSideKeepsOrder ==
  ASSUME NEW m \in Nat, NEW n \in Nat, m <= n
  PROVE  EvenSide(m) <= EvenSide(n)
<1>1. m - (m % 2) <= n - (n % 2) /\ (n >= 2 => n - (n % 2) >= 2)
  OBVIOUS
<1> QED BY <1>1, EvenSideBounds

\* The parts of a size.
LEMMA SizeParts ==
  ASSUME NEW s \in Nat \X Nat
  PROVE  s[1] \in Nat /\ s[2] \in Nat /\ s = <<s[1], s[2]>>
OBVIOUS

\* A size into which a known one was fitted has even sides; fitted once more
\* into a size with even sides, it does not become larger than that.
LEMMA FittedIsEven ==
  ASSUME NEW s \in Nat \X Nat, Known(s), NEW r \in Nat \X Nat
  PROVE  /\ Fitted(s, r) \in Nat \X Nat
         /\ \A i \in {1, 2} : Fitted(s, r)[i] >= 2 /\ Fitted(s, r)[i] % 2 = 0
<1>1. s[1] \in Nat /\ s[2] \in Nat /\ s[1] # 0 /\ s[2] # 0 /\ r[1] \in Nat /\ r[2] \in Nat
  BY SizeParts DEF Known
<1>2. ASSUME NEW n \in Nat
      PROVE  Rounded(n * r[1], s[1]) \in Nat /\ Rounded(n * r[2], s[2]) \in Nat
  <2>1. n * r[1] \in Nat /\ n * r[2] \in Nat
    BY <1>1
  <2> QED BY <1>1, <2>1, RoundedIsNat
<1> DEFINE wide == r[1] * s[2] <= r[2] * s[1]
           Side(n) == EvenSide(IF wide THEN Rounded(n * r[1], s[1]) ELSE Rounded(n * r[2], s[2]))
<1>3. Fitted(s, r) = <<Side(s[1]), Side(s[2])>>
  BY DEF Fitted
<1>4. ASSUME NEW n \in Nat PROVE Side(n) \in Nat /\ Side(n) >= 2 /\ Side(n) % 2 = 0
  BY <1>2, EvenSideBounds
<1> HIDE DEF Side
<1> QED BY <1>1, <1>3, <1>4

LEMMA FittedAgain ==
  ASSUME NEW s \in Nat \X Nat, Known(s), NEW r \in Nat \X Nat,
         \A i \in {1, 2} : r[i] >= 2 /\ r[i] % 2 = 0
  PROVE  Fitted(s, r)[1] <= r[1] /\ Fitted(s, r)[2] <= r[2]
<1>1. /\ s[1] \in Nat /\ s[2] \in Nat /\ s[1] # 0 /\ s[2] # 0
      /\ r[1] \in Nat /\ r[2] \in Nat
  BY SizeParts DEF Known
<1>2. EvenSide(r[1]) = r[1] /\ EvenSide(r[2]) = r[2]
  BY <1>1, EvenSideBounds
<1>3. /\ s[1] * r[1] = r[1] * s[1] /\ s[2] * r[2] = r[2] * s[2]
      /\ s[2] * r[1] = r[1] * s[2] /\ s[1] * r[2] = r[2] * s[1]
      /\ r[1] * s[1] \in Nat /\ r[2] * s[2] \in Nat /\ r[1] * s[2] \in Nat /\ r[2] * s[1] \in Nat
  BY <1>1
<1>4. Rounded(r[1] * s[1], s[1]) = r[1] /\ Rounded(r[2] * s[2], s[2]) = r[2]
  BY <1>1, RoundedOfMultiple
<1>5. CASE r[1] * s[2] <= r[2] * s[1]
  <2>1. Fitted(s, r) = <<EvenSide(Rounded(s[1] * r[1], s[1])), EvenSide(Rounded(s[2] * r[1], s[1]))>>
    BY <1>5 DEF Fitted
  <2>2. Rounded(r[1] * s[2], s[1]) <= r[2] /\ Rounded(r[1] * s[2], s[1]) \in Nat
    <3>1. Rounded(r[2] * s[1], s[1]) = r[2]
      BY <1>1, RoundedOfMultiple
    <3>2. Rounded(r[1] * s[2], s[1]) <= Rounded(r[2] * s[1], s[1])
      BY <1>1, <1>3, <1>5, RoundedKeepsOrder
    <3> QED BY <1>1, <1>3, <3>1, <3>2, RoundedIsNat
  <2>3. EvenSide(Rounded(r[1] * s[2], s[1])) <= r[2]
    BY <1>1, <1>2, <2>2, EvenSideKeepsOrder
  <2> QED BY <1>1, <1>2, <1>3, <1>4, <2>1, <2>3
<1>6. CASE ~(r[1] * s[2] <= r[2] * s[1])
  <2>1. Fitted(s, r) = <<EvenSide(Rounded(s[1] * r[2], s[2])), EvenSide(Rounded(s[2] * r[2], s[2]))>>
    BY <1>6 DEF Fitted
  <2>2. Rounded(r[2] * s[1], s[2]) <= r[1] /\ Rounded(r[2] * s[1], s[2]) \in Nat
    <3>1. Rounded(r[1] * s[2], s[2]) = r[1]
      BY <1>1, RoundedOfMultiple
    <3>2. r[2] * s[1] <= r[1] * s[2]
      BY <1>3, <1>6
    <3>3. Rounded(r[2] * s[1], s[2]) <= Rounded(r[1] * s[2], s[2])
      BY <1>1, <1>3, <3>2, RoundedKeepsOrder
    <3> QED BY <1>1, <1>3, <3>1, <3>3, RoundedIsNat
  <2>3. EvenSide(Rounded(r[2] * s[1], s[2])) <= r[1]
    BY <1>1, <1>2, <2>2, EvenSideKeepsOrder
  <2> QED BY <1>1, <1>2, <1>3, <1>4, <2>1, <2>3
<1> QED BY <1>5, <1>6

\* Scaling a known source: the size is known, and scaling to it again does not
\* make it larger.
LEMMA TargetSizeBounds ==
  ASSUME video \in ExportVideos, Known(video.size), NEW r \in Nat \X Nat
  PROVE  /\ TargetSize(r) \in Nat \X Nat /\ Known(TargetSize(r))
         /\ TargetSize(TargetSize(r))[1] <= TargetSize(r)[1]
         /\ TargetSize(TargetSize(r))[2] <= TargetSize(r)[2]
<1> DEFINE s == video.size
           t == TargetSize(r)
<1>1. s \in Nat \X Nat /\ s[1] \in Nat /\ s[2] \in Nat /\ Known(s)
  BY ExportAssumption, SizeParts
<1>2. CASE t = s
  <2>1. TargetSize(s) = s
    BY <1>1 DEF TargetSize
  <2> QED BY <1>1, <1>2, <2>1
<1>3. CASE t # s
  <2>1. t = Fitted(s, r)
    BY <1>3 DEF TargetSize
  <2>2. t \in Nat \X Nat /\ \A i \in {1, 2} : t[i] >= 2 /\ t[i] % 2 = 0
    BY <1>1, <2>1, FittedIsEven
  <2>3. Known(t) /\ t[1] \in Nat /\ t[2] \in Nat
    BY <2>2 DEF Known
  <2> HIDE DEF t, s
  <2>4. Fitted(s, t)[1] <= t[1] /\ Fitted(s, t)[2] <= t[2]
    BY <1>1, <2>2, FittedAgain
  <2>5. TargetSize(t) = Fitted(s, t) \/ (TargetSize(t) = s /\ t[1] >= s[1] /\ t[2] >= s[2])
    BY <1>1, <2>3 DEF TargetSize, s
  <2>6. TargetSize(t)[1] <= t[1] /\ TargetSize(t)[2] <= t[2]
    BY <1>1, <2>3, <2>4, <2>5
  <2> QED BY <2>2, <2>3, <2>6 DEF t
<1> QED BY <1>2, <1>3

LEMMA AtLeastOneKeepsOrder ==
  ASSUME NEW m \in Nat, NEW n \in Nat, m <= n
  PROVE  AtLeastOne(m) <= AtLeastOne(n)
<1>1. AtLeastOne(m) \in {1, m} /\ AtLeastOne(n) \in Nat /\ AtLeastOne(n) >= 1 /\ (n >= 1 => AtLeastOne(n) = n)
  <2>1. \E k \in {1, m} : \A l \in {1, m} : k >= l
    <3>1. CASE m >= 1
      BY <3>1
    <3>2. CASE m < 1
      BY <3>2
    <3> QED BY <3>1, <3>2
  <2>2. Max({1, m}) \in {1, m}
    BY <2>1 DEF Max
  <2> QED BY <2>2, AtLeastOneBounds DEF AtLeastOne
<1> QED BY <1>1

LEMMA ForResolutionIsNat ==
  ASSUME video \in ExportVideos, NEW b \in Nat, b >= 1, NEW r \in Nat \X Nat
  PROVE  ForResolution(b, r) \in Nat /\ ForResolution(b, r) >= 1
<1>1. CASE Known(video.size)
  <2>1. /\ TargetSize(r)[1] \in Nat /\ TargetSize(r)[2] \in Nat
        /\ video.size[1] \in Nat /\ video.size[2] \in Nat /\ video.size[1] # 0 /\ video.size[2] # 0
    BY <1>1, ExportAssumption, TargetSizeBounds, SizeParts DEF Known
  <2> DEFINE d == Pixels(video.size)
             t == Pixels(TargetSize(r))
  <2>2. d \in Nat /\ d # 0 /\ t \in Nat
    BY <2>1 DEF Pixels
  <2> HIDE DEF d, t
  <2>3. b * t \in Nat
    BY <2>2
  <2>4. Rounded(b * t, d) \in Nat
    BY <2>2, <2>3, RoundedIsNat
  <2>5. AtLeastOne(Rounded(b * t, d)) \in Nat /\ AtLeastOne(Rounded(b * t, d)) >= 1
    BY <2>4, AtLeastOneBounds
  <2> QED BY <1>1, <2>5 DEF ForResolution, d, t
<1>2. CASE ~Known(video.size)
  BY <1>2 DEF ForResolution
<1> QED BY <1>1, <1>2

LEMMA ForFramerateIsNat ==
  ASSUME video \in ExportVideos, NEW c \in Nat, c >= 1, NEW f \in Nat
  PROVE  ForFramerate(c, f) \in Nat /\ ForFramerate(c, f) >= 1
<1>1. video.fps \in Nat
  BY ExportAssumption
<1>2. Min({f, video.fps}) \in Nat
  BY <1>1, MinOfTwo
<1>3. CASE video.fps # 0
  <2>1. c * Min({f, video.fps}) \in Nat
    BY <1>2
  <2>2. Rounded(c * Min({f, video.fps}), video.fps) \in Nat
    BY <1>1, <1>3, <2>1, RoundedIsNat
  <2> QED BY <1>3, <2>2, AtLeastOneBounds DEF ForFramerate
<1>4. CASE video.fps = 0
  BY <1>4 DEF ForFramerate
<1> QED BY <1>3, <1>4

LEMMA SourceBitrateIsNat ==
  ASSUME video \in ExportVideos
  PROVE  AtLeastOne(video.bitrate) \in Nat /\ AtLeastOne(video.bitrate) >= 1
BY ExportAssumption, AtLeastOneBounds

LEMMA ScaledIsNat ==
  ASSUME video \in ExportVideos, NEW r \in Nat \X Nat, NEW f \in Nat
  PROVE  ScaledBitrate(r, f) \in Nat /\ ScaledBitrate(r, f) >= 1
BY SourceBitrateIsNat, ForResolutionIsNat, ForFramerateIsNat DEF ScaledBitrate

\* At the source's own size and frame rate the bitrate is the source's.
LEMMA ScaledAtSource ==
  ASSUME video \in ExportVideos
  PROVE  ScaledBitrate(<<0, 0>>, SourceRate) = AtLeastOne(video.bitrate)
<1>1. /\ video.fps \in Nat /\ video.size[1] \in Nat /\ video.size[2] \in Nat
  BY ExportAssumption, SizeParts
<1> DEFINE b == AtLeastOne(video.bitrate)
<1>2. b \in Nat /\ b >= 1
  BY SourceBitrateIsNat
<1> HIDE DEF b
<1>3. ForResolution(b, <<0, 0>>) = b
  <2>1. CASE Known(video.size)
    <3>1. TargetSize(<<0, 0>>) = video.size
      BY DEF TargetSize, Known
    <3> DEFINE d == Pixels(video.size)
    <3>2. d \in Nat /\ d # 0
      BY <1>1, <2>1 DEF Pixels, Known
    <3> HIDE DEF d
    <3>3. Rounded(b * d, d) = b
      BY <1>2, <3>2, RoundedOfMultiple
    <3> QED BY <1>2, <2>1, <3>1, <3>3, AtLeastOneBounds DEF ForResolution, d
  <2> QED BY <2>1 DEF ForResolution
<1>4. ForFramerate(b, SourceRate) = b
  <2>1. CASE video.fps # 0
    <3>1. SourceRate = video.fps
      BY <1>1, <2>1 DEF SourceRate
    <3>2. Min({SourceRate, video.fps}) = video.fps
      BY <1>1, <3>1, MinOfTwo
    <3>3. Rounded(b * video.fps, video.fps) = b
      BY <1>1, <1>2, <2>1, RoundedOfMultiple
    <3> QED BY <1>2, <2>1, <3>2, <3>3, AtLeastOneBounds DEF ForFramerate
  <2> QED BY <2>1 DEF ForFramerate
<1> QED BY <1>3, <1>4 DEF ScaledBitrate, b

\* Scaling to the size that was scaled to does not ask for more bits.
LEMMA ScaledAgain ==
  ASSUME video \in ExportVideos, NEW r \in Nat \X Nat, NEW f \in Nat
  PROVE  ScaledBitrate(TargetSize(r), f) <= ScaledBitrate(r, f)
<1> DEFINE b == AtLeastOne(video.bitrate)
           t == TargetSize(r)
<1>1. b \in Nat /\ b >= 1
  BY SourceBitrateIsNat
<1> HIDE DEF b, t
<1>2. t \in Nat \X Nat
  <2>1. CASE Known(video.size)
    BY <2>1, TargetSizeBounds DEF t
  <2>2. CASE ~Known(video.size)
    BY <2>2, ExportAssumption DEF TargetSize, t
  <2> QED BY <2>1, <2>2
<1> DEFINE c == ForResolution(b, t)
           e == ForResolution(b, r)
<1>3. c \in Nat /\ e \in Nat /\ c >= 1 /\ e >= 1
  BY <1>1, <1>2, ForResolutionIsNat
<1>4. c <= e
  <2>1. CASE ~Known(video.size)
    BY <1>1, <2>1 DEF ForResolution
  <2>2. CASE Known(video.size)
    <3> DEFINE u == TargetSize(t)
               d == Pixels(video.size)
    <3>1. /\ u[1] \in Nat /\ u[2] \in Nat /\ t[1] \in Nat /\ t[2] \in Nat
          /\ u[1] <= t[1] /\ u[2] <= t[2]
      BY <1>2, <2>2, TargetSizeBounds, SizeParts DEF t
    <3>2. d \in Nat /\ d # 0
      <4>1. video.size[1] \in Nat /\ video.size[2] \in Nat
        BY ExportAssumption, SizeParts
      <4> QED BY <2>2, <4>1 DEF Pixels, Known
    <3> HIDE DEF u, d
    <3>3. Pixels(u) \in Nat /\ Pixels(t) \in Nat /\ Pixels(u) <= Pixels(t)
      BY <3>1, ProductKeepsOrder DEF Pixels
    <3>4. b * Pixels(u) \in Nat /\ b * Pixels(t) \in Nat /\ b * Pixels(u) <= b * Pixels(t)
      BY <1>1, <3>3, ProductKeepsOrder
    <3>5. /\ Rounded(b * Pixels(u), d) \in Nat /\ Rounded(b * Pixels(t), d) \in Nat
          /\ Rounded(b * Pixels(u), d) <= Rounded(b * Pixels(t), d)
      BY <3>2, <3>4, RoundedIsNat, RoundedKeepsOrder
    <3>6. AtLeastOne(Rounded(b * Pixels(u), d)) <= AtLeastOne(Rounded(b * Pixels(t), d))
      BY <3>5, AtLeastOneKeepsOrder
    <3> QED BY <2>2, <3>6 DEF ForResolution, u, d, t
  <2> QED BY <2>1, <2>2
<1> HIDE DEF c, e
<1>5. ForFramerate(c, f) <= ForFramerate(e, f)
  <2>1. CASE video.fps = 0
    BY <1>4, <2>1 DEF ForFramerate
  <2>2. CASE video.fps # 0
    <3> DEFINE m == Min({f, video.fps})
    <3>1. m \in Nat /\ video.fps \in Nat
      BY ExportAssumption, MinOfTwo
    <3> HIDE DEF m
    <3>2. c * m \in Nat /\ e * m \in Nat /\ c * m <= e * m
      BY <1>3, <1>4, <3>1, ProductKeepsOrder
    <3>3. /\ Rounded(c * m, video.fps) \in Nat /\ Rounded(e * m, video.fps) \in Nat
          /\ Rounded(c * m, video.fps) <= Rounded(e * m, video.fps)
      BY <2>2, <3>1, <3>2, RoundedIsNat, RoundedKeepsOrder
    <3>4. AtLeastOne(Rounded(c * m, video.fps)) <= AtLeastOne(Rounded(e * m, video.fps))
      BY <3>3, AtLeastOneKeepsOrder
    <3> QED BY <2>2, <3>4 DEF ForFramerate, m
  <2> QED BY <2>1, <2>2
<1> QED BY <1>5 DEF ScaledBitrate, b, c, e, t

\* Nor does a preset of quality, then.
LEMMA QualityAgain ==
  ASSUME video \in ExportVideos, NEW p, IsPage(p), NEW codec
  PROVE  QualityBitrate(codec, p, TargetSize(p.resolution)) <= QualityBitrate(codec, p, p.resolution)
<1> DEFINE x == ScaledBitrate(TargetSize(p.resolution), p.framerate)
           y == ScaledBitrate(p.resolution, p.framerate)
           g == Efficiency(codec)
           d == Efficiency(video.codec)
           m == Multiplier(p.quality)
           Recoded(n) == AtLeastOne(Rounded(n * g, d))
<1>1. x \in Nat /\ y \in Nat /\ x <= y
  <2>1. p.resolution \in Nat \X Nat /\ p.framerate \in Nat
    BY DEF IsPage
  <2>2. TargetSize(p.resolution) \in Nat \X Nat
    <3>1. CASE Known(video.size)
      BY <2>1, <3>1, TargetSizeBounds
    <3>2. CASE ~Known(video.size)
      BY <3>2, ExportAssumption DEF TargetSize
    <3> QED BY <3>1, <3>2
  <2> QED BY <2>1, <2>2, ScaledIsNat, ScaledAgain
<1>2. g \in Nat /\ d \in Nat /\ d # 0 /\ m \in Nat
  BY DEF Efficiency, Multiplier
<1> HIDE DEF x, y, g, d, m
<1>3. x * g \in Nat /\ y * g \in Nat /\ x * g <= y * g
  BY <1>1, <1>2, ProductKeepsOrder
<1>4. /\ Rounded(x * g, d) \in Nat /\ Rounded(y * g, d) \in Nat
      /\ Rounded(x * g, d) <= Rounded(y * g, d)
  BY <1>2, <1>3, RoundedIsNat, RoundedKeepsOrder
<1>5. Recoded(x) \in Nat /\ Recoded(y) \in Nat /\ Recoded(x) <= Recoded(y)
  BY <1>4, AtLeastOneBounds, AtLeastOneKeepsOrder
<1> HIDE DEF Recoded
<1>6. Recoded(x) * m \in Nat /\ Recoded(y) * m \in Nat /\ Recoded(x) * m <= Recoded(y) * m
  BY <1>2, <1>5, ProductKeepsOrder
<1>7. /\ (Recoded(x) * m) \div 100 \in Nat /\ (Recoded(y) * m) \div 100 \in Nat
      /\ (Recoded(x) * m) \div 100 <= (Recoded(y) * m) \div 100
  BY <1>6
<1>8. AtLeastOne((Recoded(x) * m) \div 100) <= AtLeastOne((Recoded(y) * m) \div 100)
  BY <1>7, AtLeastOneKeepsOrder
<1> QED BY <1>8 DEF QualityBitrate, Recoded, x, y, g, d, m

\* The choices that follow another one.
LEMMA RefreshedKeeps ==
  ASSUME NEW p, DOMAIN p = PageFields
  PROVE  /\ DOMAIN Refreshed(p) = PageFields
         /\ \A f \in PageFields \ {"video", "audio"} : Refreshed(p)[f] = p[f]
<1>1. ASSUME NEW q, DOMAIN q = PageFields
      PROVE  DOMAIN VideoRefreshed(q) = PageFields /\ \A f \in PageFields \ {"video"} : VideoRefreshed(q)[f] = q[f]
  <2>1. VideoRefreshed(q) = q \/ VideoRefreshed(q) = [q EXCEPT !.video = AutoCodec(q.container)]
    BY DEF VideoRefreshed
  <2> QED BY <1>1, <2>1
<1>2. ASSUME NEW q, DOMAIN q = PageFields
      PROVE  DOMAIN AudioRefreshed(q) = PageFields /\ \A f \in PageFields \ {"audio"} : AudioRefreshed(q)[f] = q[f]
  <2>1. AudioRefreshed(q) = q \/ AudioRefreshed(q) = [q EXCEPT !.audio = DefaultAudio(q.container)]
    BY DEF AudioRefreshed
  <2> QED BY <1>2, <2>1
<1> QED BY <1>1, <1>2 DEF Refreshed

LEMMA RefreshedAgrees ==
  ASSUME NEW p, IsPage(p), Agrees(p)
  PROVE  IsPage(Refreshed(p)) /\ Agrees(Refreshed(p))
<1> DEFINE q == Refreshed(p)
<1>1. DOMAIN q = PageFields /\ \A f \in PageFields \ {"video", "audio"} : q[f] = p[f]
  BY RefreshedKeeps DEF IsPage
<1> HIDE DEF q
<1>2. /\ q.container = p.container /\ q.resolution = p.resolution /\ q.quality = p.quality
      /\ q.reencodeVideo = p.reencodeVideo /\ q.framerate = p.framerate /\ q.modified = p.modified
      /\ q.bitrate = p.bitrate /\ q.manual = p.manual /\ q.lastManual = p.lastManual
  BY <1>1 DEF PageFields
<1>3. IsPage(q)
  BY <1>1, <1>2 DEF IsPage
<1>4. Agrees(q)
  BY <1>2 DEF Agrees
<1> QED BY <1>3, <1>4 DEF q

\* The resolution's bitrate is applied: what held but for the bitrate holds.
LEMMA AppliedAgrees ==
  ASSUME video \in ExportVideos, NEW p, IsPage(p),
         p.manual => p.bitrate = p.lastManual,
         video.fps # 0 /\ ~p.modified => p.framerate = video.fps
  PROVE  /\ IsPage(ResolutionApplied(p)) /\ Agrees(ResolutionApplied(p))
         /\ IsPage(QualityApplied(p)) /\ Agrees(QualityApplied(p))
<1> DEFINE q == [p EXCEPT !.bitrate = ScaledBitrate(p.resolution, p.framerate)]
<1>1. IsPage(ResolutionApplied(p)) /\ Agrees(ResolutionApplied(p))
  <2>1. CASE p.quality # "custom" \/ p.manual \/ p.framerate = 0
    BY <2>1 DEF Agrees, ResolutionApplied
  <2>2. CASE ~(p.quality # "custom" \/ p.manual \/ p.framerate = 0)
    <3>1. ResolutionApplied(p) = q
      BY <2>2 DEF ResolutionApplied
    <3>2. ScaledBitrate(p.resolution, p.framerate) \in Nat
      BY ScaledIsNat DEF IsPage
    <3>3. /\ DOMAIN q = PageFields /\ q.bitrate = ScaledBitrate(p.resolution, p.framerate)
          /\ q.container = p.container /\ q.resolution = p.resolution /\ q.quality = p.quality
          /\ q.reencodeVideo = p.reencodeVideo /\ q.framerate = p.framerate /\ q.modified = p.modified
          /\ q.manual = p.manual /\ q.lastManual = p.lastManual
      BY DEF IsPage, PageFields
    <3> HIDE DEF q
    <3>4. IsPage(q)
      BY <3>2, <3>3 DEF IsPage
    <3>5. Agrees(q)
      BY <2>2, <3>3 DEF Agrees
    <3> QED BY <3>1, <3>4, <3>5
  <2> QED BY <2>1, <2>2
<1>2. IsPage(QualityApplied(p)) /\ Agrees(QualityApplied(p))
  <2>1. CASE p.quality # "custom"
    BY <2>1 DEF Agrees, QualityApplied
  <2>2. CASE p.quality = "custom" /\ p.manual /\ p.lastManual # 0
    <3> DEFINE r == [p EXCEPT !.bitrate = p.lastManual]
    <3>1. QualityApplied(p) = r
      BY <2>2 DEF QualityApplied
    <3>2. /\ DOMAIN r = PageFields /\ r.bitrate = p.lastManual
          /\ r.container = p.container /\ r.resolution = p.resolution /\ r.quality = p.quality
          /\ r.reencodeVideo = p.reencodeVideo /\ r.framerate = p.framerate /\ r.modified = p.modified
          /\ r.manual = p.manual /\ r.lastManual = p.lastManual
      BY DEF IsPage, PageFields
    <3> HIDE DEF r
    <3>3. IsPage(r)
      BY <2>2, <3>2 DEF IsPage
    <3>4. Agrees(r)
      BY <2>2, <3>2 DEF Agrees
    <3> QED BY <3>1, <3>3, <3>4
  <2>3. CASE p.quality = "custom" /\ ~(p.manual /\ p.lastManual # 0)
    <3>1. QualityApplied(p) = ResolutionApplied(p)
      BY <2>3 DEF QualityApplied
    <3> QED BY <1>1, <3>1
  <2> QED BY <2>1, <2>2, <2>3
<1> QED BY <1>1, <1>2

LEMMA PageInit == ExportInit => PageInv
BY DEF ExportInit, PageInv

\* A page that agrees replaces the one that is shown.
LEMMA ChooseAgrees ==
  ASSUME PageInv, NEW p, IsPage(p), Agrees(p), Choose(p)
  PROVE  PageInv'
<1>1. exportPage' = p /\ video' = video
  BY DEF Choose, exportVars
<1>2. IsPage(p)' /\ Agrees(p)'
  BY <1>1 DEF IsPage, Agrees, ScaledBitrate, ForFramerate, ForResolution, TargetSize, Fitted, Known
<1> QED BY <1>1, <1>2 DEF PageInv, IsPage, Agrees

LEMMA NewPageAgrees ==
  ASSUME video \in ExportVideos
  PROVE  IsPage(NewExport) /\ Agrees(NewExport)
<1> DEFINE p == [container |-> video.container, resolution |-> <<0, 0>>, quality |-> "custom",
                 video |-> Selected(VideoItems, video.codec, "auto"),
                 audio |-> Selected(AudioItems, IF video.audio = "opus" THEN "opus" ELSE "aac",
                                    FirstIn(<<"aac", "opus">>, AudioItems)),
                 reencodeVideo |-> FALSE, reencodeAudio |-> FALSE, advanced |-> FALSE,
                 framerate |-> SourceRate, modified |-> video.fps = 0,
                 bitrate |-> AtLeastOne(video.bitrate), manual |-> FALSE, lastManual |-> 0]
<1>1. video.fps \in Nat /\ video.bitrate \in Nat /\ video.container \in Containers
  BY ExportAssumption DEF Containers
<1>2. /\ DOMAIN p = PageFields /\ p.container = video.container /\ p.resolution = <<0, 0>> /\ p.reencodeVideo = FALSE
      /\ p.framerate = SourceRate /\ p.modified = (video.fps = 0) /\ p.bitrate = AtLeastOne(video.bitrate)
      /\ p.manual = FALSE
  BY DEF PageFields
<1>3. NewExport = Refreshed(p)
  BY DEF NewExport
<1> HIDE DEF p
<1>4. SourceRate \in Nat /\ AtLeastOne(video.bitrate) \in Nat
  BY <1>1, AtLeastOneBounds DEF SourceRate
<1>5. IsPage(p)
  <2>1. p.bitrate \in Nat /\ p.framerate \in Nat
    BY <1>2, <1>4, Zenon
  <2>2. p.container \in Containers
    BY <1>1, <1>2, Zenon
  <2>3. p.resolution \in Nat \X Nat
    BY <1>2
  <2>4. p.reencodeVideo \in BOOLEAN
    BY <1>2, Zenon
  <2> QED BY <1>2, <2>1, <2>2, <2>3, <2>4, Zenon DEF IsPage
<1>6. Agrees(p)
  <2>1. p.bitrate = ScaledBitrate(p.resolution, p.framerate)
    BY <1>2, ScaledAtSource
  <2>2. video.fps # 0 => p.framerate = video.fps
    BY <1>1, <1>2 DEF SourceRate
  <2> QED BY <1>2, <2>1, <2>2 DEF Agrees
<1> QED BY <1>3, <1>5, <1>6, RefreshedAgrees

\* The choices that no bitrate depends on.
LEMMA OtherChoices ==
  ASSUME PageInv, exportPage # NoExport,
         \/ ChangeView \/ CheckVideo \/ CheckAudio
         \/ \E container \in {"mp4", "matroska", "webm", "mov"} : ChooseContainer(container)
         \/ \E codec \in VideoItems : ChooseVideoCodec(codec)
         \/ \E codec \in AudioItems : ChooseAudioCodec(codec)
  PROVE  PageInv'
<1> DEFINE Similar(p) ==
             /\ DOMAIN p = PageFields /\ p.container \in Containers /\ p.reencodeVideo \in BOOLEAN
             /\ p.resolution = exportPage.resolution /\ p.quality = exportPage.quality
             /\ p.framerate = exportPage.framerate /\ p.modified = exportPage.modified
             /\ p.bitrate = exportPage.bitrate /\ p.manual = exportPage.manual
             /\ p.lastManual = exportPage.lastManual
<1>1. IsPage(exportPage) /\ Agrees(exportPage)
  BY DEF PageInv
<1>2. ASSUME NEW p, Similar(p) PROVE IsPage(p) /\ Agrees(p)
  <2>1. IsPage(p)
    BY <1>1, <1>2 DEF IsPage
  <2>2. Agrees(p)
    BY <1>1, <1>2 DEF Agrees
  <2> QED BY <2>1, <2>2
<1>3. ASSUME NEW p, Similar(p), Choose(p) \/ Choose(Refreshed(p)) PROVE PageInv'
  <2>1. CASE Choose(p)
    BY <1>2, <1>3, <2>1, ChooseAgrees
  <2>2. CASE Choose(Refreshed(p))
    BY <1>2, <1>3, <2>2, ChooseAgrees, RefreshedAgrees
  <2> QED BY <1>3, <2>1, <2>2
<1> DEFINE e == exportPage
<1>4. DOMAIN e = PageFields /\ e.container \in Containers /\ e.reencodeVideo \in BOOLEAN
  BY <1>1 DEF IsPage
<1>5. CASE ChangeView
  <2> DEFINE p == [e EXCEPT !.advanced = ~@]
  <2>1. Similar(p)
    BY <1>4 DEF PageFields
  <2>2. Choose(Refreshed(p))
    BY <1>5 DEF ChangeView
  <2> HIDE DEF p, Similar
  <2> QED BY <1>3, <2>1, <2>2
<1>6. CASE CheckVideo
  <2> DEFINE p == [e EXCEPT !.reencodeVideo = ~@]
  <2>1. Similar(p)
    BY <1>4 DEF PageFields
  <2>2. Choose(Refreshed(p))
    BY <1>6 DEF CheckVideo
  <2> HIDE DEF p, Similar
  <2> QED BY <1>3, <2>1, <2>2
<1>7. CASE CheckAudio
  <2> DEFINE p == [e EXCEPT !.reencodeAudio = ~@]
  <2>1. Similar(p)
    BY <1>4 DEF PageFields
  <2>2. Choose(Refreshed(p))
    BY <1>7 DEF CheckAudio
  <2> HIDE DEF p, Similar
  <2> QED BY <1>3, <2>1, <2>2
<1>8. ASSUME NEW c \in {"mp4", "matroska", "webm", "mov"}, ChooseContainer(c) PROVE PageInv'
  <2> DEFINE p == [e EXCEPT !.container = c]
  <2>1. Similar(p)
    BY <1>4 DEF PageFields, Containers
  <2>2. Choose(Refreshed(p))
    BY <1>8 DEF ChooseContainer
  <2> HIDE DEF p, Similar
  <2> QED BY <1>3, <2>1, <2>2
<1>9. ASSUME NEW c, ChooseVideoCodec(c) PROVE PageInv'
  <2> DEFINE p == [e EXCEPT !.video = c]
  <2>1. Similar(p)
    BY <1>4 DEF PageFields
  <2>2. Choose(p)
    BY <1>9 DEF ChooseVideoCodec
  <2> HIDE DEF p, Similar
  <2> QED BY <1>3, <2>1, <2>2
<1>10. ASSUME NEW c, ChooseAudioCodec(c) PROVE PageInv'
  <2> DEFINE p == [e EXCEPT !.audio = c]
  <2>1. Similar(p)
    BY <1>4 DEF PageFields
  <2>2. Choose(p)
    BY <1>10 DEF ChooseAudioCodec
  <2> HIDE DEF p, Similar
  <2> QED BY <1>3, <2>1, <2>2
<1> HIDE DEF Similar
<1> QED BY <1>5, <1>6, <1>7, <1>8, <1>9, <1>10

\* The choices that the bitrate follows.
LEMMA BitrateChoices ==
  ASSUME PageInv, exportPage # NoExport,
         \/ \E quality \in {"custom", "high"} : ChooseQuality(quality)
         \/ \E resolution \in Resolutions : ChooseResolution(resolution)
         \/ \E n \in Bitrates : TypeBitrate(n)
         \/ \E n \in Framerates : TypeFramerate(n)
  PROVE  PageInv'
<1> DEFINE e == exportPage
<1>1. /\ IsPage(e) /\ Agrees(e) /\ video \in ExportVideos
      /\ DOMAIN e = PageFields
      /\ e.manual => e.bitrate = e.lastManual
      /\ video.fps # 0 /\ ~e.modified => e.framerate = video.fps
  BY DEF PageInv, Agrees, IsPage
<1>2. ASSUME NEW quality \in {"custom", "high"}, ChooseQuality(quality) PROVE PageInv'
  <2> DEFINE p == [e EXCEPT !.quality = quality]
  <2>1. /\ DOMAIN p = PageFields /\ p.quality = quality /\ p.container = e.container /\ p.resolution = e.resolution
        /\ p.reencodeVideo = e.reencodeVideo /\ p.framerate = e.framerate /\ p.modified = e.modified
        /\ p.bitrate = e.bitrate /\ p.manual = e.manual /\ p.lastManual = e.lastManual
    BY <1>1 DEF PageFields
  <2>2. Choose(Refreshed(IF quality = "custom" THEN QualityApplied(p) ELSE p))
    BY <1>2 DEF ChooseQuality, QualityChosen
  <2> HIDE DEF p
  <2>3. IsPage(p)
    BY <1>1, <2>1 DEF IsPage
  <2>4. CASE quality = "custom"
    <3>1. IsPage(QualityApplied(p)) /\ Agrees(QualityApplied(p))
      BY <1>1, <2>1, <2>3, AppliedAgrees
    <3>2. Choose(Refreshed(QualityApplied(p)))
      BY <2>2, <2>4
    <3> QED BY <3>1, <3>2, RefreshedAgrees, ChooseAgrees
  <2>5. CASE quality # "custom"
    <3>1. Agrees(p)
      BY <1>1, <2>1, <2>5 DEF Agrees
    <3>2. Choose(Refreshed(p))
      BY <2>2, <2>5
    <3> QED BY <2>3, <3>1, <3>2, RefreshedAgrees, ChooseAgrees
  <2> QED BY <2>4, <2>5
<1>3. ASSUME NEW resolution \in Resolutions, ChooseResolution(resolution) PROVE PageInv'
  <2> DEFINE p == [e EXCEPT !.resolution = resolution]
  <2>1. /\ DOMAIN p = PageFields /\ p.resolution = resolution /\ p.container = e.container
        /\ p.reencodeVideo = e.reencodeVideo /\ p.framerate = e.framerate /\ p.modified = e.modified
        /\ p.bitrate = e.bitrate /\ p.manual = e.manual /\ p.lastManual = e.lastManual
    BY <1>1 DEF PageFields
  <2>2. Choose(ResolutionApplied(p))
    BY <1>3 DEF ChooseResolution
  <2> HIDE DEF p
  <2>3. IsPage(p)
    BY <1>1, <2>1, ExportAssumption DEF IsPage
  <2>4. IsPage(ResolutionApplied(p)) /\ Agrees(ResolutionApplied(p))
    BY <1>1, <2>1, <2>3, AppliedAgrees
  <2> QED BY <2>2, <2>4, ChooseAgrees
<1>4. ASSUME NEW n \in Bitrates, TypeBitrate(n) PROVE PageInv'
  <2> DEFINE p == [e EXCEPT !.bitrate = n, !.manual = TRUE, !.lastManual = n]
  <2>1. /\ DOMAIN p = PageFields /\ p.resolution = e.resolution /\ p.container = e.container
        /\ p.reencodeVideo = e.reencodeVideo /\ p.framerate = e.framerate /\ p.modified = e.modified
        /\ p.bitrate = n /\ p.manual = TRUE /\ p.lastManual = n
    BY <1>1 DEF PageFields
  <2>2. Choose(p)
    BY <1>4 DEF TypeBitrate
  <2>3. n \in Nat
    BY ExportAssumption
  <2> HIDE DEF p
  <2>4. IsPage(p) /\ Agrees(p)
    BY <1>1, <2>1, <2>3 DEF IsPage, Agrees
  <2> QED BY <2>2, <2>4, ChooseAgrees
<1>5. ASSUME NEW n \in Framerates, TypeFramerate(n) PROVE PageInv'
  <2> DEFINE p == [e EXCEPT !.framerate = n, !.modified = n # SourceRate]
  <2>1. /\ DOMAIN p = PageFields /\ p.resolution = e.resolution /\ p.container = e.container
        /\ p.reencodeVideo = e.reencodeVideo /\ p.framerate = n /\ p.modified = (n # SourceRate)
        /\ p.bitrate = e.bitrate /\ p.manual = e.manual /\ p.lastManual = e.lastManual
    BY <1>1 DEF PageFields
  <2>2. Choose(QualityApplied(p))
    BY <1>5 DEF TypeFramerate
  <2>3. n \in Nat /\ video.fps \in Nat
    BY <1>1, ExportAssumption
  <2> HIDE DEF p
  <2>4. IsPage(p)
    BY <1>1, <2>1, <2>3 DEF IsPage
  <2>5. ASSUME video.fps # 0, ~p.modified PROVE p.framerate = video.fps
    <3>1. n = SourceRate
      BY <2>1, <2>5, Zenon
    <3>2. SourceRate = video.fps
      BY <2>3, <2>5 DEF SourceRate
    <3> QED BY <2>1, <3>1, <3>2
  <2>6. IsPage(QualityApplied(p)) /\ Agrees(QualityApplied(p))
    BY <1>1, <2>1, <2>4, <2>5, AppliedAgrees
  <2> QED BY <2>2, <2>6, ChooseAgrees
<1> QED BY <1>2, <1>3, <1>4, <1>5

LEMMA PageNext == PageInv /\ [ExportNext]_exportVars => PageInv'
<1> SUFFICES ASSUME PageInv, [ExportNext]_exportVars PROVE PageInv'
  OBVIOUS
<1>1. ASSUME UNCHANGED <<video, exportPage>> PROVE PageInv'
  BY <1>1 DEF PageInv, IsPage, Agrees, ScaledBitrate, ForFramerate, ForResolution, TargetSize, Fitted, Known
<1>2. CASE OpenExport
  <2>1. exportPage' = NewExport /\ video' = video
    BY <1>2 DEF OpenExport
  <2>2. IsPage(NewExport) /\ Agrees(NewExport)
    BY NewPageAgrees DEF PageInv
  <2> DEFINE p == NewExport
  <2>3. exportPage' = p /\ IsPage(p) /\ Agrees(p)
    BY <2>1, <2>2
  <2> HIDE DEF p
  <2> QED BY <2>1, <2>3 DEF PageInv, IsPage, Agrees, ScaledBitrate, ForFramerate, ForResolution, TargetSize, Fitted, Known
<1>3. ASSUME exportPage' = NoExport, video' = video PROVE PageInv'
  BY <1>3 DEF PageInv
<1>4. CASE CancelExport \/ StartExport
  BY <1>3, <1>4 DEF CancelExport, StartExport
<1>5. CASE FailToStart \/ NextSecond \/ UNCHANGED exportVars
  BY <1>1, <1>5 DEF FailToStart, NextSecond, exportVars
<1>6. CASE \E j \in DOMAIN jobs : RunScript(j) \/ \E succeeded \in BOOLEAN : EndScript(j, succeeded)
  BY <1>1, <1>6 DEF RunScript, EndScript
<1>7. CASE \/ ChangeView \/ CheckVideo \/ CheckAudio
           \/ \E container \in {"mp4", "matroska", "webm", "mov"} : ChooseContainer(container)
           \/ \E codec \in VideoItems : ChooseVideoCodec(codec)
           \/ \E codec \in AudioItems : ChooseAudioCodec(codec)
  <2>1. exportPage # NoExport
    BY <1>7 DEF ChangeView, CheckVideo, CheckAudio, ChooseContainer, ChooseVideoCodec, ChooseAudioCodec
  <2> QED BY <1>7, <2>1, OtherChoices
<1>8. CASE \/ \E quality \in {"custom", "high"} : ChooseQuality(quality)
           \/ \E resolution \in Resolutions : ChooseResolution(resolution)
           \/ \E n \in Bitrates : TypeBitrate(n)
           \/ \E n \in Framerates : TypeFramerate(n)
  <2>1. exportPage # NoExport
    BY <1>8 DEF ChooseQuality, ChooseResolution, TypeBitrate, TypeFramerate
  <2> QED BY <1>8, <2>1, BitrateChoices
<1> QED BY <1>2, <1>4, <1>5, <1>6, <1>7, <1>8, Zenon DEF ExportNext

LEMMA PageIsAsShown == PageInv => ExportFollowsChoices
<1> SUFFICES ASSUME PageInv, exportPage # NoExport PROVE BitrateFollows(exportPage) /\ EncodedAsShown(exportPage)
  BY DEF ExportFollowsChoices
<1> DEFINE p == exportPage
<1>1. IsPage(p) /\ Agrees(p) /\ video \in ExportVideos
  BY DEF PageInv
<1> HIDE DEF p
<1>2. BitrateFollows(p)
  BY <1>1 DEF BitrateFollows, Agrees
<1>3. ASSUME video.fps # 0 PROVE EncodedRate(p) = p.framerate
  BY <1>1, <1>3 DEF EncodedRate, Agrees
<1>4. ASSUME ReencodesVideo(p), RateControl(p).mode = "bitrate", p.bitrate # 0
      PROVE  /\ RateControl(p).value <= EstimatedBitrate(p)
             /\ p.quality = "custom" \/ TargetSize(TargetSize(p.resolution)) = TargetSize(p.resolution) =>
                  RateControl(p).value = EstimatedBitrate(p)
  <2>1. ReencodesVideo(p) = TRUE
    BY <1>4 DEF ReencodesVideo
  <2>2. CASE p.quality = "custom"
    <3>1. AtLeastOne(p.bitrate) = p.bitrate
      BY <1>1, <1>4, AtLeastOneBounds DEF IsPage
    <3>2. EstimatedBitrate(p) = p.bitrate
      BY <2>1, <2>2, <3>1 DEF EstimatedBitrate
    <3>3. RateControl(p) = [mode |-> "bitrate", value |-> p.bitrate]
      BY <2>2, <3>1 DEF RateControl
    <3> QED BY <1>1, <3>2, <3>3 DEF IsPage
  <2>3. CASE p.quality # "custom" /\ Encoder(p) = "software"
    <3>1. RateControl(p).mode = "quality"
      BY <2>3 DEF RateControl
    <3> QED BY <1>4, <3>1
  <2>4. CASE p.quality # "custom" /\ Encoder(p) # "software"
    <3> DEFINE codec == ChosenCodec(p.container, p.video, TRUE)
    <3>1. RateControl(p) = [mode |-> "bitrate", value |-> QualityBitrate(codec, p, TargetSize(p.resolution))]
      BY <2>1, <2>4 DEF RateControl
    <3>2. EstimatedBitrate(p) = QualityBitrate(codec, p, p.resolution)
      BY <2>1, <2>4 DEF EstimatedBitrate
    <3> HIDE DEF codec
    <3>3. QualityBitrate(codec, p, TargetSize(p.resolution)) <= QualityBitrate(codec, p, p.resolution)
      BY <1>1, QualityAgain
    <3>4. ASSUME TargetSize(TargetSize(p.resolution)) = TargetSize(p.resolution)
          PROVE  QualityBitrate(codec, p, TargetSize(p.resolution)) = QualityBitrate(codec, p, p.resolution)
      BY <3>4 DEF QualityBitrate, ScaledBitrate, ForResolution
    <3> QED BY <2>4, <3>1, <3>2, <3>3, <3>4
  <2> QED BY <2>2, <2>3, <2>4
<1> QED BY <1>2, <1>3, <1>4 DEF EncodedAsShown, p

\* Whatever video is exported on whatever host, and however its choices follow
\* one another, the page shows what the export is made with; where a size that
\* was made even is scaled to another one the second time, the encoder is given
\* at most the bitrate the page computed its estimate from
\* (src/src/gui/ExportPage.cpp, apply_video_quality_preset and
\* update_estimated_file_size; src/src/TrimmerExport.cpp, get_scaled_video_size).
THEOREM ExportIsAsShown == ExportSpec => []ExportFollowsChoices
<1>1. ExportSpec => []PageInv
  BY PageInit, PageNext, PTL DEF ExportSpec
<1> QED BY <1>1, PageIsAsShown, PTL

-----------------------------------------------------------------------------
(* The files. *)

Paths == [second : Nat, suffix : 0..MaxExports, container : Containers]
Jobs == [path : Paths, id : Paths \X Nat, phase : {"spawned", "failing", "encoding", "ended"}, alone : BOOLEAN]

AloneAll(path) == \A j \in 1..Len(jobs) : jobs[j].path = path => jobs[j].alone
EndedAll(path) == \A j \in 1..Len(jobs) : jobs[j].path = path => jobs[j].phase = "ended"

\* A job that was alone has its path for itself; the output of one that was
\* announced is nobody's any more; and no file has a name that no job took.
FilesInv ==
    /\ jobs \in Seq(Jobs) /\ second \in Nat
    /\ \A i, j \in 1..Len(jobs) : i < j /\ jobs[i].path = jobs[j].path /\ jobs[j].alone => jobs[i].phase = "ended"
    /\ \A path \in announced :
         AloneAll(path) => path \in DOMAIN outputs /\ outputs[path] = "whole" /\ EndedAll(path)
    /\ \A path \in DOMAIN outputs : \E j \in 1..Len(jobs) : jobs[j].path = path

\* There are more names than exports, so one of them is free.
LEMMA OutputPathIsFree ==
  ASSUME FilesInv, PageInv, exportPage # NoExport, Len(jobs) < MaxExports
  PROVE  OutputPath \in Paths /\ OutputPath \notin DOMAIN outputs
<1> DEFINE N == 0..MaxExports
           J == 1..Len(jobs)
           F == {n \in N : Path(n) \notin DOMAIN outputs}
<1>1. jobs \in Seq(Jobs) /\ Len(jobs) \in Nat /\ MaxExports \in Nat
  BY ExportAssumption DEF FilesInv
<1>2. \A n \in N : Path(n) \in Paths
  BY DEF Path, Paths, FilesInv, PageInv, IsPage
<1>3. F # {}
  <2> SUFFICES ASSUME \A n \in N : Path(n) \in DOMAIN outputs PROVE FALSE
    OBVIOUS
  <2> DEFINE f == [n \in N |-> CHOOSE j \in J : jobs[j].path = Path(n)]
  <2>1. \A n \in N : f[n] \in J /\ jobs[f[n]].path = Path(n)
    BY DEF FilesInv
  <2>2. IsFiniteSet(N) /\ Cardinality(N) = MaxExports + 1
    BY <1>1, FS_Interval
  <2>3. IsFiniteSet(J) /\ Cardinality(J) = Len(jobs)
    <3>1. \A l \in Nat : IsFiniteSet(1..l) /\ Cardinality(1..l) = l
      BY FS_Interval
    <3> QED BY <1>1, <3>1
  <2>4. f \in [N -> J]
    BY <2>1
  <2>5. Cardinality(J) < Cardinality(N)
    BY <1>1, <2>2, <2>3
  <2> HIDE DEF f, N, J
  <2>6. PICK m, n \in N : m # n /\ f[m] = f[n]
    BY <2>2, <2>3, <2>4, <2>5, FS_PigeonHole
  <2>7. Path(m) = Path(n)
    BY <2>1, <2>6
  <2> QED BY <2>6, <2>7 DEF Path
<1>4. F \in SUBSET Nat
  BY <1>1
<1> DEFINE P(n) == Path(n) \notin DOMAIN outputs /\ \A k \in 0..(n - 1) : Path(k) \in DOMAIN outputs
<1>5. \E n \in N : P(n)
  <2>1. Min(F) \in F /\ \A n \in F : Min(F) <= n
    BY <1>3, <1>4, MinIsMember
  <2> DEFINE m == Min(F)
  <2>2. m \in N /\ Path(m) \notin DOMAIN outputs
    BY <2>1
  <2>3. \A k \in N : Path(k) \notin DOMAIN outputs => m <= k
    BY <2>1
  <2> HIDE DEF m, F
  <2>4. ASSUME NEW k \in 0..(m - 1) PROVE Path(k) \in DOMAIN outputs
    BY <1>1, <2>2, <2>3
  <2> QED BY <2>2, <2>4
<1>6. (CHOOSE n \in N : P(n)) \in N /\ P(CHOOSE n \in N : P(n))
  BY <1>5, Zenon
<1>7. OutputPath = Path(CHOOSE n \in N : P(n))
  BY DEF OutputPath
<1> QED BY <1>2, <1>6, <1>7

LEMMA FilesInit == ExportInit => FilesInv
BY DEF ExportInit, FilesInv

\* A job changes its phase.
LEMMA PhaseChanges ==
  ASSUME jobs \in Seq(Jobs), NEW j \in DOMAIN jobs, NEW became \in {"spawned", "failing", "encoding", "ended"},
         jobs' = [jobs EXCEPT ![j].phase = became]
  PROVE  /\ j \in 1..Len(jobs) /\ jobs' \in Seq(Jobs) /\ Len(jobs') = Len(jobs)
         /\ jobs'[j].phase = became
         /\ \A i \in 1..Len(jobs) : /\ jobs'[i].path = jobs[i].path /\ jobs'[i].alone = jobs[i].alone
                                    /\ i # j => jobs'[i].phase = jobs[i].phase
<1>1. j \in 1..Len(jobs) /\ jobs[j] \in Jobs
  OBVIOUS
<1> DEFINE job == [jobs[j] EXCEPT !.phase = became]
<1>2. job \in Jobs /\ job.phase = became /\ job.path = jobs[j].path /\ job.alone = jobs[j].alone
  BY <1>1 DEF Jobs
<1>3. jobs' = [jobs EXCEPT ![j] = job]
  OBVIOUS
<1> HIDE DEF job
<1>4. jobs' \in Seq(Jobs) /\ Len(jobs') = Len(jobs)
  BY <1>1, <1>2, <1>3
<1>5. \A i \in 1..Len(jobs) : jobs'[i] = IF i = j THEN job ELSE jobs[i]
  BY <1>1, <1>3
<1> QED BY <1>1, <1>2, <1>4, <1>5

LEMMA StartKeepsFiles ==
  ASSUME FilesInv, PageInv, StartExport
  PROVE  FilesInv'
<1> DEFINE o == OutputPath
           n == Len(jobs)
<1>1. PICK now \in second..MaxSecond : second' = now /\ jobs' = Append(jobs, Job(o, now))
  BY DEF StartExport
<1> DEFINE job == Job(o, now)
<1>2. jobs \in Seq(Jobs) /\ n \in Nat /\ second \in Nat /\ now \in Nat
  BY <1>1, ExportAssumption DEF FilesInv
<1>3. o \in Paths /\ o \notin DOMAIN outputs
  BY OutputPathIsFree DEF StartExport
<1> HIDE DEF o
<1>4. /\ job \in Jobs /\ job.path = o
      /\ job.alone => \A j \in 1..n : jobs[j].path # o \/ jobs[j].phase = "ended"
  BY <1>2, <1>3 DEF Job, Jobs
<1> HIDE DEF job
<1>5. /\ jobs' \in Seq(Jobs) /\ Len(jobs') = n + 1 /\ jobs'[n + 1] = job
      /\ \A j \in 1..n : jobs'[j] = jobs[j]
  BY <1>1, <1>2, <1>4 DEF job
<1>6. outputs' = outputs /\ announced' = announced
  BY DEF StartExport
<1>7. ASSUME NEW i \in 1..Len(jobs'), NEW j \in 1..Len(jobs'),
             i < j, jobs'[i].path = jobs'[j].path, jobs'[j].alone
      PROVE  jobs'[i].phase = "ended"
  <2>1. CASE j = n + 1
    BY <1>2, <1>4, <1>5, <1>7, <2>1
  <2>2. CASE j # n + 1
    <3>1. i \in 1..n /\ j \in 1..n
      BY <1>2, <1>5, <1>7, <2>2
    <3> QED BY <1>5, <1>7, <3>1 DEF FilesInv
  <2> QED BY <2>1, <2>2
<1>8. ASSUME NEW path \in announced', AloneAll(path)'
      PROVE  path \in DOMAIN outputs' /\ outputs'[path] = "whole" /\ EndedAll(path)'
  <2>1. AloneAll(path)
    BY <1>2, <1>5, <1>8 DEF AloneAll
  <2>2. path \in DOMAIN outputs /\ outputs[path] = "whole" /\ EndedAll(path)
    BY <1>6, <2>1 DEF FilesInv
  <2>3. path # o
    BY <1>3, <2>2
  <2>4. EndedAll(path)'
    BY <1>2, <1>4, <1>5, <2>2, <2>3 DEF EndedAll
  <2> QED BY <1>6, <2>2, <2>4
<1>9. ASSUME NEW path \in DOMAIN outputs' PROVE \E j \in 1..Len(jobs') : jobs'[j].path = path
  <2>1. PICK j \in 1..n : jobs[j].path = path
    BY <1>6 DEF FilesInv
  <2> QED BY <1>2, <1>5, <2>1
<1> QED BY <1>1, <1>2, <1>5, <1>7, <1>8, <1>9 DEF FilesInv

LEMMA RunKeepsFiles ==
  ASSUME FilesInv, NEW j \in DOMAIN jobs, RunScript(j)
  PROVE  FilesInv'
<1> DEFINE n == Len(jobs)
           p == jobs[j].path
           became == CASE jobs[j].id \notin scripts -> "ended"
                      [] jobs[j].id \notin lists   -> "failing"
                      [] OTHER                     -> "encoding"
<1>1. jobs \in Seq(Jobs) /\ jobs[j].phase = "spawned"
  BY DEF FilesInv, RunScript
<1>2. jobs' = [jobs EXCEPT ![j].phase = became] /\ announced' = announced /\ second' = second
  BY DEF RunScript
<1>3. outputs' = [path \in DOMAIN outputs \cup (IF became = "encoding" THEN {p} ELSE {}) |->
                    IF path = p /\ became = "encoding" THEN "part" ELSE outputs[path]]
  BY DEF RunScript
<1>4. became \in {"spawned", "failing", "encoding", "ended"}
  OBVIOUS
<1> HIDE DEF became, p
<1>5. /\ j \in 1..n /\ jobs' \in Seq(Jobs) /\ Len(jobs') = n
      /\ \A i \in 1..n : /\ jobs'[i].path = jobs[i].path /\ jobs'[i].alone = jobs[i].alone
                         /\ i # j => jobs'[i].phase = jobs[i].phase
  BY <1>1, <1>2, <1>4, PhaseChanges
<1>6. /\ DOMAIN outputs' \subseteq DOMAIN outputs \cup {p} /\ DOMAIN outputs \subseteq DOMAIN outputs'
      /\ \A path \in DOMAIN outputs : path # p => outputs'[path] = outputs[path]
  BY <1>3
<1>7. ASSUME NEW i \in 1..Len(jobs'), NEW k \in 1..Len(jobs'),
             i < k, jobs'[i].path = jobs'[k].path, jobs'[k].alone
      PROVE  jobs'[i].phase = "ended"
  <2>1. jobs[i].phase = "ended"
    BY <1>5, <1>7 DEF FilesInv
  <2>2. i # j
    BY <1>1, <2>1
  <2> QED BY <1>5, <2>1, <2>2
<1>8. ASSUME NEW path \in announced', AloneAll(path)'
      PROVE  path \in DOMAIN outputs' /\ outputs'[path] = "whole" /\ EndedAll(path)'
  <2>1. AloneAll(path)
    BY <1>5, <1>8 DEF AloneAll
  <2>2. path \in DOMAIN outputs /\ outputs[path] = "whole" /\ EndedAll(path)
    BY <1>2, <2>1 DEF FilesInv
  <2>3. path # p
    BY <1>1, <1>5, <2>2 DEF EndedAll, p
  <2>4. EndedAll(path)'
    BY <1>5, <2>2, <2>3 DEF EndedAll, p
  <2> QED BY <1>6, <2>2, <2>3, <2>4
<1>9. ASSUME NEW path \in DOMAIN outputs' PROVE \E i \in 1..Len(jobs') : jobs'[i].path = path
  <2>1. \E i \in 1..n : jobs[i].path = path
    BY <1>5, <1>6 DEF FilesInv, p
  <2> QED BY <1>5, <2>1
<1>10. second' \in Nat
  BY <1>2 DEF FilesInv
<1> QED BY <1>5, <1>7, <1>8, <1>9, <1>10 DEF FilesInv

LEMMA EndKeepsFiles ==
  ASSUME FilesInv, NEW j \in DOMAIN jobs, NEW succeeded \in BOOLEAN, EndScript(j, succeeded)
  PROVE  FilesInv'
<1> DEFINE n == Len(jobs)
           p == jobs[j].path
<1>1. jobs \in Seq(Jobs) /\ jobs[j].phase # "ended"
  BY DEF FilesInv, EndScript
<1>2. jobs' = [jobs EXCEPT ![j].phase = "ended"] /\ second' = second
  BY DEF EndScript
<1>3. /\ outputs' = IF succeeded
                      THEN [path \in DOMAIN outputs \cup {p} |-> IF path = p THEN "whole" ELSE outputs[path]]
                      ELSE [path \in DOMAIN outputs \ {p} |-> outputs[path]]
      /\ announced' = IF succeeded THEN announced \cup {p} ELSE announced
  BY DEF EndScript
<1> HIDE DEF p
<1>4. /\ j \in 1..n /\ jobs' \in Seq(Jobs) /\ Len(jobs') = n /\ jobs'[j].phase = "ended"
      /\ \A i \in 1..n : /\ jobs'[i].path = jobs[i].path /\ jobs'[i].alone = jobs[i].alone
                         /\ i # j => jobs'[i].phase = jobs[i].phase
  BY <1>1, <1>2, PhaseChanges
<1>5. /\ DOMAIN outputs' \subseteq DOMAIN outputs \cup {p} /\ DOMAIN outputs \subseteq DOMAIN outputs' \cup {p}
      /\ \A path \in DOMAIN outputs : path # p => outputs'[path] = outputs[path]
      /\ succeeded => p \in DOMAIN outputs' /\ outputs'[p] = "whole"
  BY <1>3
<1>6. ASSUME NEW i \in 1..Len(jobs'), NEW k \in 1..Len(jobs'),
             i < k, jobs'[i].path = jobs'[k].path, jobs'[k].alone
      PROVE  jobs'[i].phase = "ended"
  <2>1. jobs[i].phase = "ended"
    BY <1>4, <1>6 DEF FilesInv
  <2> QED BY <1>4, <2>1
<1>7. ASSUME NEW path \in announced', AloneAll(path)'
      PROVE  path \in DOMAIN outputs' /\ outputs'[path] = "whole" /\ EndedAll(path)'
  <2>1. AloneAll(path)
    BY <1>4, <1>7 DEF AloneAll
  <2>2. CASE path # p
    <3>1. path \in announced
      BY <1>3, <2>2
    <3>2. path \in DOMAIN outputs /\ outputs[path] = "whole" /\ EndedAll(path)
      BY <2>1, <3>1 DEF FilesInv
    <3>3. EndedAll(path)'
      BY <1>4, <3>2 DEF EndedAll
    <3> QED BY <1>5, <2>2, <3>2, <3>3
  <2>3. CASE path = p
    <3>1. p \notin announced
      <4> SUFFICES ASSUME p \in announced PROVE FALSE
        OBVIOUS
      <4>1. EndedAll(p)
        BY <2>1, <2>3 DEF FilesInv
      <4> QED BY <1>1, <1>4, <4>1 DEF EndedAll, p
    <3>2. succeeded
      BY <1>3, <2>3, <3>1
    <3>3. ASSUME NEW i \in 1..n, jobs[i].path = p, i # j PROVE jobs[i].phase = "ended"
      <4>1. CASE i < j
        <5>1. jobs[j].alone
          BY <1>4, <2>1, <2>3 DEF AloneAll, p
        <5> QED BY <1>4, <3>3, <4>1, <5>1 DEF FilesInv, p
      <4>2. CASE i > j
        <5>1. jobs[i].alone
          BY <2>1, <2>3, <3>3 DEF AloneAll
        <5>2. jobs[j].phase = "ended"
          BY <1>4, <3>3, <4>2, <5>1 DEF FilesInv, p
        <5> QED BY <1>1, <5>2
      <4> QED BY <1>4, <3>3, <4>1, <4>2
    <3>4. EndedAll(path)'
      BY <1>4, <2>3, <3>3 DEF EndedAll
    <3> QED BY <1>5, <2>3, <3>2, <3>4
  <2> QED BY <2>2, <2>3
<1>8. ASSUME NEW path \in DOMAIN outputs' PROVE \E i \in 1..Len(jobs') : jobs'[i].path = path
  <2>1. \E i \in 1..n : jobs[i].path = path
    BY <1>4, <1>5 DEF FilesInv, p
  <2> QED BY <1>4, <2>1
<1>9. second' \in Nat
  BY <1>2 DEF FilesInv
<1> QED BY <1>4, <1>6, <1>7, <1>8, <1>9 DEF FilesInv

LEMMA FilesNext == FilesInv /\ PageInv /\ [ExportNext]_exportVars => FilesInv'
<1> SUFFICES ASSUME FilesInv, PageInv, [ExportNext]_exportVars PROVE FilesInv'
  OBVIOUS
<1>1. ASSUME UNCHANGED <<jobs, outputs, announced>>, second' \in Nat PROVE FilesInv'
  BY <1>1 DEF FilesInv, AloneAll, EndedAll
<1>2. second \in Nat
  BY DEF FilesInv
<1>3. ASSUME NEW p, Choose(p) PROVE FilesInv'
  BY <1>1, <1>2, <1>3 DEF Choose
<1>4. CASE \/ ChangeView \/ CheckVideo \/ CheckAudio
           \/ \E container \in {"mp4", "matroska", "webm", "mov"} : ChooseContainer(container)
           \/ \E quality \in {"custom", "high"} : ChooseQuality(quality)
           \/ \E resolution \in Resolutions : ChooseResolution(resolution)
           \/ \E codec \in VideoItems : ChooseVideoCodec(codec)
           \/ \E codec \in AudioItems : ChooseAudioCodec(codec)
           \/ \E n \in Bitrates : TypeBitrate(n)
           \/ \E n \in Framerates : TypeFramerate(n)
  BY <1>3, <1>4, Zenon DEF ChangeView, CheckVideo, CheckAudio, ChooseContainer, ChooseQuality, ChooseResolution,
     ChooseVideoCodec, ChooseAudioCodec, TypeBitrate, TypeFramerate
<1>5. CASE OpenExport \/ CancelExport
  BY <1>1, <1>2, <1>5 DEF OpenExport, CancelExport
<1>6. CASE FailToStart \/ UNCHANGED exportVars
  BY <1>1, <1>2, <1>6 DEF FailToStart, exportVars
<1>7. CASE NextSecond
  BY <1>1, <1>2, <1>7 DEF NextSecond
<1>8. CASE StartExport
  BY <1>8, StartKeepsFiles
<1>9. CASE \E j \in DOMAIN jobs : RunScript(j) \/ \E succeeded \in BOOLEAN : EndScript(j, succeeded)
  BY <1>9, RunKeepsFiles, EndKeepsFiles
<1> QED BY <1>4, <1>5, <1>6, <1>7, <1>8, <1>9, Zenon DEF ExportNext

LEMMA FilesAreKept == FilesInv => AnnouncedIsKept
<1> SUFFICES ASSUME FilesInv, NEW path \in announced
             PROVE  \/ path \in DOMAIN outputs /\ outputs[path] = "whole"
                    \/ \E j \in DOMAIN jobs : jobs[j].path = path /\ ~jobs[j].alone
  BY DEF AnnouncedIsKept
<1>1. CASE AloneAll(path)
  BY <1>1 DEF FilesInv
<1>2. CASE ~AloneAll(path)
  <2>1. PICK j \in 1..Len(jobs) : jobs[j].path = path /\ ~jobs[j].alone
    BY <1>2 DEF AloneAll
  <2>2. j \in DOMAIN jobs
    BY DEF FilesInv
  <2> QED BY <2>1, <2>2
<1> QED BY <1>1, <1>2

\* However many exports run at a time and however their scripts end, the file of
\* one that was announced stays whole, unless two took its name in one second
\* (src/src/gui/ExportPage.cpp, start_export; src/src/TrimmerExport.cpp,
\* start_trimmer_export).
THEOREM AnnouncedStaysWhole == ExportSpec => []AnnouncedIsKept
<1>1. ExportInit => FilesInv /\ PageInv
  BY FilesInit, PageInit
<1>2. FilesInv /\ PageInv /\ [ExportNext]_exportVars => (FilesInv /\ PageInv)'
  BY FilesNext, PageNext
<1>3. FilesInv /\ PageInv => AnnouncedIsKept
  BY FilesAreKept
<1> QED BY <1>1, <1>2, <1>3, PTL DEF ExportSpec
=============================================================================
