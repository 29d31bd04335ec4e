----------------------------- MODULE DeviceIoctls -----------------------------
(***************************************************************************)
(* The ioctls by which a program finds out what a device is.  A handler    *)
(* looks at an ioctl twice, in two lists of cases that are kept by hand:   *)
(* at its entry, where it keeps the kernel from executing it, and at its   *)
(* exit, where it stores an answer and sets the result.  Among the answers *)
(* of the event devices are the types and codes of the events they have.   *)
(***************************************************************************)
EXTENDS Naturals

\* The cases of the entry, ExecuteBefore.
EvdevNamed ==
  {"EVIOCGRAB", "EVIOCGBIT(0)", "EVIOCGBIT(EV_REL)", "EVIOCGBIT(EV_ABS)", "EVIOCGBIT(EV_LED)",
   "EVIOCGBIT(EV_KEY)", "EVIOCGBIT(EV_SW)", "EVIOCGBIT(EV_MSC)", "EVIOCGBIT(EV_FF)",
   "EVIOCGBIT(EV_SND)", "EVIOCGNAME", "EVIOCGPHYS", "EVIOCGUNIQ", "EVIOCGID",
   "EVIOCGVERSION", "EVIOCGPROP", "EVIOCGKEY", "EVIOCGLED", "EVIOCGSW", "EVIOCGSND",
   "EVIOCGABS(ABS_X)", "EVIOCGABS(ABS_Y)", "TCFLSH"}

FbNamed ==
  {"FBIOGET_FSCREENINFO", "FBIOGET_VSCREENINFO", "FBIOPUT_VSCREENINFO", "FBIOPUTCMAP",
   "FBIOBLANK", "FBIOPAN_DISPLAY", "FBIOGET_CON2FBMAP", "FBIOPUT_CON2FBMAP"}

ControlNamed == {"CARD_INFO", "PVERSION", "PCM_PREFER_SUBDEVICE"}

PcmNamed ==
  {"INFO", "PVERSION", "TTSTAMP", "SYNC_PTR", "HW_REFINE", "HW_PARAMS", "SW_PARAMS", "PREPARE",
   "STATUS", "STATUS_EXT", "DELAY", "DROP", "HW_FREE", "WRITEI_FRAMES", "PAUSE", "RESUME",
   "DRAIN"}

TtyNamed ==
  {"VT_GETSTATE", "VT_OPENQRY", "VT_ACTIVATE", "VT_WAITACTIVE", "VT_RELDISP", "VT_GETMODE",
   "VT_SETMODE", "KDSETMODE", "KDGETMODE", "KDSKBMODE", "TIOCLINUX", "TCGETS", "TCSETS"}

\* The cases of the exit, ExecuteAfter: an answer is stored and the result is set.
EvdevAnswered ==
  {"EVIOCGRAB", "EVIOCGBIT(0)", "EVIOCGBIT(EV_REL)", "EVIOCGBIT(EV_ABS)", "EVIOCGBIT(EV_LED)",
   "EVIOCGBIT(EV_KEY)", "EVIOCGBIT(EV_SW)", "EVIOCGBIT(EV_MSC)", "EVIOCGBIT(EV_FF)",
   "EVIOCGBIT(EV_SND)", "EVIOCGNAME", "EVIOCGPHYS", "EVIOCGUNIQ", "EVIOCGID",
   "EVIOCGVERSION", "EVIOCGPROP", "EVIOCGKEY", "EVIOCGLED", "EVIOCGSW", "EVIOCGSND",
   "EVIOCGABS(ABS_X)", "EVIOCGABS(ABS_Y)", "TCFLSH"}

FbAnswered ==
  {"FBIOGET_FSCREENINFO", "FBIOGET_VSCREENINFO", "FBIOPUT_VSCREENINFO", "FBIOPUTCMAP",
   "FBIOBLANK", "FBIOPAN_DISPLAY", "FBIOGET_CON2FBMAP", "FBIOPUT_CON2FBMAP"}

ControlAnswered == {"CARD_INFO", "PVERSION", "PCM_PREFER_SUBDEVICE"}

PcmAnswered ==
  {"INFO", "PVERSION", "TTSTAMP", "SYNC_PTR", "HW_REFINE", "HW_PARAMS", "SW_PARAMS", "PREPARE",
   "STATUS", "STATUS_EXT", "DELAY", "DROP", "HW_FREE", "WRITEI_FRAMES", "PAUSE", "RESUME",
   "DRAIN"}

TtyAnswered ==
  {"VT_GETSTATE", "VT_OPENQRY", "VT_ACTIVATE", "VT_WAITACTIVE", "VT_RELDISP", "VT_GETMODE",
   "VT_SETMODE", "KDSETMODE", "KDGETMODE", "KDSKBMODE", "TIOCLINUX", "TCGETS", "TCSETS"}

\* What a program may ask a handler: what the handler knows, and something else.
Handler == {"evdev", "fb", "control", "pcm", "tty"}
Named ==
  [evdev |-> EvdevNamed, fb |-> FbNamed, control |-> ControlNamed,
   pcm |-> PcmNamed, tty |-> TtyNamed]
Answered ==
  [evdev |-> EvdevAnswered, fb |-> FbAnswered, control |-> ControlAnswered,
   pcm |-> PcmAnswered, tty |-> TtyAnswered]
Ioctl(h) == Named[h] \cup Answered[h] \cup {"other"}

\* An event device and a terminal suppress the ioctls they know, the others all.
Suppressed(h, op) == h \in {"fb", "control", "pcm"} \/ op \in Named[h]

\* Mutant: EVIOCGNAME is compared without its length, which no program's has.
ResultNameless(h, op) ==
  CASE op \in Answered[h] \ {"EVIOCGNAME"} -> IF Suppressed(h, op) THEN "answered" ELSE "executed too"
    [] OTHER -> IF Suppressed(h, op) THEN "ENOSYS" ELSE "kernel's"

\* What the program is told.
Result(h, op) ==
  CASE op \in Answered[h] -> IF Suppressed(h, op) THEN "answered" ELSE "executed too"
    [] OTHER -> IF Suppressed(h, op) THEN "ENOSYS" ELSE "kernel's"
-----------------------------------------------------------------------------
(* The events of the event devices, told by EVIOCGBIT.                     *)

\* Mutant: the type of the wheel is not told.
MiceEvWithoutRel == {"EV_ABS", "EV_KEY"}

\* GetEv: the types.
MiceEv == {"EV_REL", "EV_ABS", "EV_KEY"}
KbdEv  == {"EV_KEY"}

\* SetRelBits, SetAbsBits, SetKeyBits: the codes, for the keyboard two words of 64.
MiceBits ==
  [EV_REL |-> {"REL_WHEEL"}, EV_ABS |-> {"ABS_X", "ABS_Y"},
   EV_KEY |-> {"BTN_LEFT", "BTN_RIGHT", "BTN_WHEEL"}]
KbdBits == [EV_REL |-> {}, EV_ABS |-> {}, EV_KEY |-> 0..127]

Declared(types, bits) == UNION {{<<t, code>> : code \in bits[t]} : t \in types}
MiceDeclared == Declared(MiceEv, MiceBits)
KbdDeclared  == Declared(KbdEv, KbdBits)

\* What a keyboard's read makes of the bytes it gets.
KbdEvents == {<<"EV_KEY", byte % 128>> : byte \in 0..255}
=============================================================================
