----------------------------- MODULE WebcamBox ------------------------------
(***************************************************************************)
(* The box on a settings page that places the camera picture on the        *)
(* screen.  Events change what is dragged; each frame moves or resizes the *)
(* box by the pointer and clamps it; leaving the page saves it in per cent.*)
(* Both axes have the same rules and the camera has the shape of the       *)
(* screen, so one axis is modelled.                                        *)
(***************************************************************************)
EXTENDS Integers

CONSTANTS Screen,    \* length of the screen on the page
          Camera,    \* length of the camera picture: the box is never longer
          Percents,  \* parts the saved values divide the screen into: 100
          Corner,    \* half the length of the corner that is grabbed
          Pointers   \* where the pointer can be, also outside the widget

ASSUME WebcamBoxAssumption ==
    /\ {Screen, Camera, Percents} \subseteq Nat \ {0} /\ Corner \in Nat /\ Pointers \subseteq Int

VARIABLES boxOpen,   \* the page is open
          box,       \* webcam_box_pos, webcam_box_size
          drawn,     \* webcam_box_drawn_pos, webcam_box_drawn_size
          drag,      \* "none", "moving" or "resizing"
          grab,      \* the pointer and the box when the drag began
          pointer,   \* window.get_mouse_position
          savedBox      \* webcam_x and webcam_width of the configuration

boxVars == <<boxOpen, box, drawn, drag, grab, pointer, savedBox>>

Smaller(a, b) == IF a < b THEN a ELSE b
MinSize == Smaller(Camera, Screen \div 5)
Box(pos, size) == [pos |-> pos, size |-> size]

\* std::round, away from zero.
ToPercents(x) == IF x < 0 THEN -((2 * (-x) * Percents + Screen) \div (2 * Screen))
                 ELSE (2 * x * Percents + Screen) \div (2 * Screen)
FromPercents(p) == (p * Screen) \div Percents

\* The box of a frame before it is clamped.
Dragged ==
    CASE drag = "moving"   -> Box(pointer - grab.offset, Smaller(Camera, box.size))
      [] drag = "resizing" -> Box(box.pos, Smaller(Camera, grab.size + pointer - grab.start))
      [] drag = "none"     -> Box(box.pos, Smaller(Camera, box.size))

PositionClamped(b) ==
    IF b.pos < 0 THEN Box(0, b.size)
    ELSE IF b.pos + b.size > Screen THEN Box(Screen - b.size, b.size)
    ELSE b

SizeClamped(b) ==
    IF b.size < MinSize THEN Box(b.pos, MinSize)
    ELSE IF b.pos + b.size > Screen THEN Box(b.pos, Smaller(Camera, Screen - b.pos))
    ELSE b

-----------------------------------------------------------------------------
BoxInit ==
    /\ boxOpen = FALSE /\ box = Box(0, 0) /\ drawn = Box(0, 0) /\ drag = "none"
    /\ grab = [start |-> 0, size |-> 0, offset |-> 0]
    /\ pointer \in Pointers
    /\ savedBox \in [pos : 0..Percents, size : 0..Percents]

\* load_common: the box of a new page.
LoadBox ==
    /\ ~boxOpen /\ boxOpen' = TRUE
    /\ box' = Box(FromPercents(savedBox.pos), Smaller(Camera, FromPercents(savedBox.size)))
    /\ drawn' = Box(0, 0) /\ drag' = "none"
    /\ UNCHANGED <<grab, pointer, savedBox>>

MovePointer == pointer' \in Pointers /\ UNCHANGED <<boxOpen, box, drawn, drag, grab, savedBox>>

\* The event handler.  Only one button drags at a time.
LeftPress ==
    /\ boxOpen /\ drag # "resizing"
    /\ IF drawn.pos <= pointer /\ pointer < drawn.pos + drawn.size
         THEN drag' = "moving" /\ grab' = [grab EXCEPT !.offset = pointer - drawn.pos]
         ELSE drag' = "none" /\ UNCHANGED grab
    /\ UNCHANGED <<boxOpen, box, drawn, pointer, savedBox>>

RightPress ==
    /\ boxOpen /\ drag # "moving"
    /\ grab' = [start |-> pointer, size |-> box.size, offset |-> pointer - drawn.pos]
    /\ LET end == drawn.pos + drawn.size
       IN  drag' = IF end - Corner <= pointer /\ pointer < end + Corner THEN "resizing" ELSE "none"
    /\ UNCHANGED <<boxOpen, box, drawn, pointer, savedBox>>

Release ==
    /\ drag # "none" /\ drag' = "none"
    /\ UNCHANGED <<boxOpen, box, drawn, grab, pointer, savedBox>>

\* Faulty variant: a box left of the screen is not moved back.
DrawBoxLeft ==
    /\ boxOpen
    /\ box' = SizeClamped(IF Dragged.pos < 0 THEN Dragged ELSE PositionClamped(Dragged))
    /\ drawn' = box'
    /\ UNCHANGED <<boxOpen, drag, grab, pointer, savedBox>>

\* The draw handler.
DrawBox ==
    /\ boxOpen
    /\ box' = SizeClamped(PositionClamped(Dragged))
    /\ drawn' = box'
    /\ UNCHANGED <<boxOpen, drag, grab, pointer, savedBox>>

\* save_common, also while the box is dragged.
SaveBox ==
    /\ boxOpen /\ boxOpen' = FALSE
    /\ savedBox' = [pos |-> ToPercents(box.pos), size |-> ToPercents(Smaller(Camera, box.size))]
    /\ UNCHANGED <<box, drawn, drag, grab, pointer>>

BoxNext ==
    \/ LoadBox \/ SaveBox \/ DrawBox
    \/ boxOpen /\ (MovePointer \/ LeftPress \/ RightPress \/ Release)

BoxSpec == BoxInit /\ [][BoxNext]_boxVars

-----------------------------------------------------------------------------
Inside(b) == 0 <= b.pos /\ b.pos + b.size <= Screen

\* The first frame after a drag brings a box of a legal size back into the
\* screen, however far the pointer went (draw_handler of
\* create_webcam_location_widget in src/src/gui/SettingsPage.cpp).
ReleasedBoxIsInside ==
    [][DrawBox /\ drag = "none" /\ box.size >= MinSize => Inside(box')]_boxVars
=============================================================================
