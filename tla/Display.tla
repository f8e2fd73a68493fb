------------------------------- MODULE Display -------------------------------
(***************************************************************************)
(* The DRM backend of minui (graphics_drm.cpp): it finds a screen, makes   *)
(* two buffers and then flips between them, blanks and unblanks.  Kernel   *)
(* objects are modelled by what they show.  The modeset is atomic, or one  *)
(* ioctl per frame (TW_DRM_LEGACY_MODESET).  Any call of the kernel may    *)
(* fail.  The buffers' contents are given by their age in flips.  The      *)
(* bootloader may have left its splash on the main screen.                 *)
(***************************************************************************)
EXTENDS Naturals, Sequences, SequencesExt

CONSTANTS
    Screens,    \* what may be connected: [connectors, planes, lms];
                \* connector: [type, usable, crtc, possible]; 0 is no CRTC
    MaxAge      \* bound of a buffer's age; also the age of a buffer never drawn to

ASSUME DisplayAssumption == MaxAge \in Nat \ {0}

VARIABLES
    legacy, screen,
    pc,         \* "start", "found", "buffers", "up", "failed", "crashed", "closed"
    held,       \* what drm_init took and nobody gave back
    connector, crtc,        \* main_monitor_connector, main_monitor_crtc
    plane_res,              \* the planes selected
    conn_crtc, active, shown,   \* kernel: the pipeline, and the buffer of each plane
    current_buffer, age, current_blank_state,
    modeset,    \* history: a modeset of drm_blank has got through
    ret

init_vars == <<pc, held, connector, crtc, plane_res>>
kernel_vars == <<conn_crtc, active, shown>>
DisplayVars == <<legacy, screen, init_vars, kernel_vars, current_buffer, age, current_blank_state,
                 modeset, ret>>

Buffers == {0, 1}
NoBuffer == 2
Splash == 3
NoCall == [op |-> "none", ok |-> TRUE]

-----------------------------------------------------------------------------
(* find_main_monitor: the panel types in their order, then the first that  *)
(* is connected.                                                           *)
FirstOf(fit) == IF fit = {} THEN 0 ELSE CHOOSE i \in fit : \A j \in fit : i <= j

Usable == {i \in DOMAIN screen.connectors : screen.connectors[i].usable}
OfType(type) == FirstOf({i \in Usable : screen.connectors[i].type = type})
FirstConnected == FirstOf(Usable)

MainMonitor ==
    LET ranked == SelectSeq(<<OfType("LVDS"), OfType("eDP"), OfType("DSI"), FirstConnected>>,
                            LAMBDA i : i # 0)
    IN  IF ranked = <<>> THEN 0 ELSE ranked[1]

(* find_crtc_for_connector: the one its encoder drives, or a possible one. *)
CrtcOf(i) ==
    LET c == screen.connectors[i]
    IN  IF c.crtc # 0 THEN c.crtc ELSE c.possible

(* The encoder of the main screen may drive a CRTC already: then the       *)
(* screen may be lit, which current_blank_state does not know.             *)
DisplayInit ==
    /\ legacy \in BOOLEAN /\ screen \in Screens
    /\ pc = "start" /\ held = {} /\ connector = 0 /\ crtc = 0 /\ plane_res = <<>>
    /\ active \in BOOLEAN /\ shown = <<>>
    /\ active => MainMonitor # 0 /\ screen.connectors[MainMonitor].crtc # 0
    /\ conn_crtc = IF active THEN CrtcOf(MainMonitor) ELSE 0
    /\ current_buffer = 0 /\ age = [b \in Buffers |-> MaxAge] /\ current_blank_state = TRUE
    /\ modeset = FALSE /\ ret = NoCall

(* disable_non_main_crtcs gives up at the first other CRTC, whose ACTIVE   *)
(* it does not find; a connector without one crashes it.                   *)
SurvivesDisable(main) ==
    LET others == {i \in DOMAIN screen.connectors : CrtcOf(i) # main}
    IN  others = {} \/ CrtcOf(CHOOSE i \in others : \A j \in others : i <= j) # 0

(* drm_init up to the buffers.                                             *)
FindScreen(ok) ==
    /\ pc = "start"
    /\ IF ok /\ FirstConnected # 0 /\ CrtcOf(MainMonitor) # 0
       THEN /\ connector' = MainMonitor /\ crtc' = CrtcOf(MainMonitor)
            /\ pc' = IF SurvivesDisable(CrtcOf(MainMonitor)) THEN "found" ELSE "crashed"
            /\ held' = {"fd"}
       ELSE pc' = "failed" /\ UNCHANGED <<connector, crtc, held>>
    /\ UNCHANGED <<legacy, screen, plane_res, kernel_vars, current_buffer, age,
                   current_blank_state, modeset, ret>>

(* drm_create_surface: a handle, a framebuffer and a mapping, or nothing;  *)
(* with one buffer missing the other goes, too, and the list of resources  *)
(* is freed a second time, which may end the process.                      *)
CreateSurfaces(ok) ==
    /\ pc = "found"
    /\ IF ok THEN pc' = "buffers" /\ held' = held \cup {"buffer0", "buffer1"}
             ELSE pc' \in {"failed", "crashed"} /\ held' = {}
    /\ UNCHANGED <<legacy, screen, connector, crtc, plane_res, kernel_vars, current_buffer, age,
                   current_blank_state, modeset, ret>>

(* get_topology_lm_number, unless the modeset is the legacy one.           *)
number_of_lms == IF legacy THEN 1 ELSE screen.lms

(* The planes that the main CRTC may use, in the kernel's order.           *)
UsablePlanes ==
    SelectSeq([i \in DOMAIN screen.planes |-> i], LAMBDA i : crtc \in screen.planes[i])

(* A pipeline the kernel takes: a plane has a buffer and a CRTC or neither.*)
Accepted(pipeline, buffers) ==
    \A p \in DOMAIN buffers : buffers[p] # NoBuffer <=> pipeline # 0

(* drmModeAtomicCommit, all or nothing.                                    *)
AllShow(b) == [p \in DOMAIN plane_res |-> b]

Commit(ok, on, pipeline, b) ==
    IF ok /\ Accepted(pipeline, AllShow(b))
    THEN active' = on /\ conn_crtc' = (IF on THEN crtc ELSE 0) /\ shown' = AllShow(b)
    ELSE UNCHANGED kernel_vars

(* setup_pipeline and teardown_pipeline, or drmModeSetCrtc.                *)
Unblank(ok) == Commit(ok, TRUE, crtc, current_buffer)
Blank(ok) == Commit(ok, FALSE, 0, NoBuffer)

(* The rest of drm_init, which gives nothing back when it fails.           *)
SetUp(ok) ==
    /\ pc = "buffers"
    /\ plane_res' = IF ok /\ Len(UsablePlanes) >= number_of_lms
                    THEN SubSeq(UsablePlanes, 1, number_of_lms) ELSE <<>>
    /\ IF plane_res' # <<>> THEN pc' = "up" /\ held' = held \cup {"blob", "draw"}
                            ELSE pc' = "failed" /\ held' = held \cup {"draw"}
    /\ IF plane_res' # <<>>
       THEN \E committed \in BOOLEAN :
              IF committed
              THEN /\ active' = TRUE /\ conn_crtc' = crtc
                   /\ shown' = [p \in DOMAIN plane_res' |-> current_buffer]
                   /\ current_blank_state' = FALSE /\ modeset' = TRUE
              ELSE /\ shown' \in [DOMAIN plane_res' -> {NoBuffer} \cup (IF active THEN {Splash} ELSE {})]
                   /\ UNCHANGED <<active, conn_crtc, current_blank_state, modeset>>
       ELSE UNCHANGED <<kernel_vars, current_blank_state, modeset>>
    /\ UNCHANGED <<legacy, screen, connector, crtc, current_buffer, age, ret>>

-----------------------------------------------------------------------------
(* Mutant of drm_blank: the state is new whatever the commit says.         *)
drm_blank_unchecked(blank, ok) ==
    /\ pc = "up" /\ blank # current_blank_state
    /\ IF blank THEN Blank(ok) ELSE Unblank(ok)
    /\ current_blank_state' = blank /\ modeset' = (modeset \/ ok)
    /\ ret' = [op |-> "blank", ok |-> ok]
    /\ UNCHANGED <<legacy, screen, init_vars, current_buffer, age>>

(* drm_blank does nothing in the state it believes to be in.               *)
drm_blank(blank, ok) ==
    /\ pc = "up"
    /\ IF blank = current_blank_state THEN UNCHANGED <<kernel_vars, current_blank_state, modeset>>
       ELSE /\ IF blank THEN Blank(ok) ELSE Unblank(ok)
            /\ current_blank_state' = IF ok THEN blank ELSE current_blank_state
            /\ modeset' = (modeset \/ ok)
    /\ ret' = [op |-> "blank", ok |-> ok]
    /\ UNCHANGED <<legacy, screen, init_vars, current_buffer, age>>

Older(a) == IF a < MaxAge THEN a + 1 ELSE a

OnScreen == active /\ \A p \in DOMAIN shown : shown[p] # NoBuffer

(* update_plane_fb shows the current buffer.  The legacy ioctl brings the  *)
(* CRTC up; the atomic request leaves the planes' CRTC as it is, so every  *)
(* plane needs one: the splash's, or that of a modeset.                    *)
update_plane_fb(ok) ==
    IF legacy THEN Commit(ok, TRUE, crtc, current_buffer)
    ELSE IF ok /\ OnScreen THEN shown' = AllShow(current_buffer) /\ UNCHANGED <<conn_crtc, active>>
    ELSE UNCHANGED kernel_vars

(* Mutant of drm_flip: the buffer is changed only when it is shown.        *)
drm_flip_when_shown(ok) ==
    /\ pc = "up"
    /\ age' = [b \in Buffers |-> IF b = current_buffer THEN 0 ELSE Older(age[b])]
    /\ update_plane_fb(ok)
    /\ current_buffer' = IF ok THEN 1 - current_buffer ELSE current_buffer
    /\ ret' = [op |-> "flip", ok |-> ok /\ (legacy \/ OnScreen)]
    /\ UNCHANGED <<legacy, screen, init_vars, current_blank_state, modeset>>

(* drm_flip: copy, show, and go on to the other buffer in any case.  The   *)
(* GUI also draws what it is forced to while the screen is off.            *)
drm_flip(ok) ==
    /\ pc = "up"
    /\ age' = [b \in Buffers |-> IF b = current_buffer THEN 0 ELSE Older(age[b])]
    /\ update_plane_fb(ok)
    /\ current_buffer' = 1 - current_buffer
    /\ ret' = [op |-> "flip", ok |-> ok /\ (legacy \/ OnScreen)]
    /\ UNCHANGED <<legacy, screen, init_vars, current_blank_state, modeset>>

(* drm_exit; the kernel takes a buffer that goes off its planes, and may   *)
(* leave the splash on.                                                    *)
drm_exit(ok) ==
    /\ pc = "up"
    /\ current_blank_state' = (current_blank_state \/ ok)
    /\ IF \E p \in DOMAIN shown : shown[p] \in Buffers
       THEN conn_crtc' = 0 /\ active' = FALSE /\ shown' = AllShow(NoBuffer)
       ELSE UNCHANGED kernel_vars
    /\ modeset' = (modeset \/ (ok /\ ~current_blank_state))
    /\ held' = held \ {"blob", "buffer0", "buffer1", "fd"}
    /\ pc' = "closed"
    /\ ret' = [op |-> "exit", ok |-> ok]
    /\ UNCHANGED <<legacy, screen, connector, crtc, plane_res, current_buffer, age>>

Ended == pc \in {"failed", "crashed", "closed"} /\ UNCHANGED DisplayVars

DisplayNext ==
    \/ \E ok \in BOOLEAN :
         \/ FindScreen(ok) \/ CreateSurfaces(ok) \/ SetUp(ok)
         \/ drm_flip(ok) \/ drm_exit(ok)
         \/ \E blank \in BOOLEAN : drm_blank(blank, ok)
    \/ Ended

DisplaySpec == DisplayInit /\ [][DisplayNext]_DisplayVars

-----------------------------------------------------------------------------
Resources == {"fd", "buffer0", "buffer1", "draw", "blob"}

(* The variables keep their types, and every plane has a buffer or none.   *)
DisplayTypeOK ==
    /\ legacy \in BOOLEAN /\ screen \in Screens
    /\ pc \in {"start", "found", "buffers", "up", "failed", "crashed", "closed"}
    /\ held \subseteq Resources
    /\ current_buffer \in Buffers
    /\ active \in BOOLEAN /\ (active <=> conn_crtc # 0)
    /\ shown \in [DOMAIN plane_res -> Buffers \cup {NoBuffer, Splash}]
    /\ age \in [Buffers -> 0 .. MaxAge]
    /\ current_blank_state \in BOOLEAN /\ modeset \in BOOLEAN

(* Once a buffer of the GUI is on the screen, the screen shows the last    *)
(* frame or the one before, the same on every plane, or after a blank the  *)
(* buffer that nothing was drawn to yet, whatever commit fails and however *)
(* often (drm_flip goes on to the other buffer in any case); after a flip  *)
(* that succeeded, it shows the last frame.                                *)
AtMostOneBehind ==
    /\ DisplayTypeOK
    /\ pc = "up" /\ age # [b \in Buffers |-> MaxAge] =>
        /\ (\E p \in DOMAIN shown : shown[p] \in Buffers) =>
              /\ active
              /\ \A p, q \in DOMAIN shown : shown[p] = shown[q]
              /\ \A p \in DOMAIN shown : age[shown[p]] \in {0, 1, MaxAge}
        /\ ret = [op |-> "flip", ok |-> TRUE] => \A p \in DOMAIN shown : age[shown[p]] = 0

(* What drm_blank remembers is what the screen does: when it is not        *)
(* blanked, every plane shows a buffer of the GUI; when it is, an atomic   *)
(* screen is dark, unless no modeset ever got through and the bootloader's *)
(* screen is still on, which drm_blank(true) then leaves lit.  However     *)
(* commits fail and whatever is drawn meanwhile (drm_blank,                *)
(* update_plane_fb).                                                       *)
BlankAgrees ==
    pc = "up" =>
        /\ ~current_blank_state => active /\ \A p \in DOMAIN shown : shown[p] \in Buffers
        /\ current_blank_state /\ ~legacy /\ modeset => ~active

=============================================================================
