------------------------------ MODULE Keyboard ------------------------------
(***************************************************************************)
(* The keyboard driver, c/kbd.c, below the device independent calls of     *)
(* c/di_calls.c.  As in Pcb, each C function is an operator from a state d *)
(* of the driver's static data to the next.                                *)
(*                                                                         *)
(* Of the processes the module keeps what the driver sees: the slot is     *)
(* free, its process runs user code ("user": READY or RUNNING) or it is    *)
(* blocked on the device.  Of the results of the calls it keeps buff_count,*)
(* the result of a read.  An entry of the circular buffer that has been    *)
(* read, which nothing reads again, is kept as NUL.  The characters that   *)
(* are read, and echoing, are left out.                                    *)
(***************************************************************************)
EXTENDS Integers, FiniteSets

CONSTANTS
  PCB_TABLE_SIZE,         \* number of pcbs, and of entries of kbd_task_list
  PCB_MAX_FDS,            \* number of file descriptors of a process (4)
  KEYBOARD_BUFFER_SIZE,   \* size of the circular buffer (5), one entry stays free
  Keys,                   \* the keys that are pressed and released
  Lengths,                \* the lengths of the buffers that processes read into
  MaxTaskRefs             \* bound on kbd_task_refcount

ASSUME DriverAssumption ==
  /\ PCB_TABLE_SIZE \in Nat \ {0}
  /\ PCB_MAX_FDS \in Nat \ {0}
  /\ KEYBOARD_BUFFER_SIZE \in Nat \ {0, 1}
  /\ Keys \subseteq {"D", "ENTER", "SHIFT", "CTRL", "CAPLOCK"}
  /\ Lengths \subseteq Nat \ {0}
  /\ MaxTaskRefs \in Nat

VARIABLE kbd

Slots == 1..PCB_TABLE_SIZE
FDs == 0..(PCB_MAX_FDS - 1)
Devices == {0, 1}     \* the keyboard without and with echo
NONE == -1            \* a file descriptor that is not open

(***************************************************************************)
(* Characters.  One key, D, stands for those that print: its character in  *)
(* the lower, the upper and the control table.  The last, 0x04, is the     *)
(* default end of file character.                                          *)
(***************************************************************************)
Chars == {"d", "D", "EOT", "\n"}
NUL == "NUL"          \* the scan code stands for no character
KBD_DEFAULT_EOF == "EOT"
KeyStates == SUBSET {"SHIFT", "CTRL", "CAPLOCK"}

KbdStates ==
  [ state             : [Slots -> {"free", "user", "blocked"}],
    fd_table          : [Slots -> [FDs -> Devices \cup {NONE}]],
    kbd_refcount      : Nat,
    kbd_current_type  : Devices,
    kbd_done          : BOOLEAN,
    kbd_task_refcount : Int,
    waiting_on_read   : [Slots -> BOOLEAN],
    buff_count        : [Slots -> Nat],
    bufflen           : [Slots -> Nat],
    buffer            : [0..(KEYBOARD_BUFFER_SIZE - 1) -> Chars \cup {NUL}],
    head              : 0..(KEYBOARD_BUFFER_SIZE - 1),
    tail              : 0..(KEYBOARD_BUFFER_SIZE - 1),
    eof               : Chars \cup {NUL},
    keystate          : KeyStates,
    irq               : BOOLEAN,
    failed            : BOOLEAN ]

-----------------------------------------------------------------------------
(***************************************************************************)
(* The lower half of the driver                                            *)
(***************************************************************************)

Waiting(d) == {s \in Slots : d.waiting_on_read[s]}

\* keyboard_unblock_proc() for the tasks in S: of their processes, those that
\* are blocked become ready.
keyboard_unblock_proc(d, S) ==
  [d EXCEPT
     !.kbd_task_refcount = @ - Cardinality(S),
     !.waiting_on_read = [s \in Slots |-> @[s] /\ s \notin S],
     !.state = [s \in Slots |-> IF s \in S /\ @[s] = "blocked" THEN "user" ELSE @[s]]]

\* Bug: keyboard interrupts stay on.
Mutant_keyboard_handle_eof(d) ==
  keyboard_unblock_proc([d EXCEPT !.kbd_done = TRUE], Waiting(d))

\* Bug: the tasks are not completed.
Mutant_keyboard_handle_eof_Strand(d) == [d EXCEPT !.irq = FALSE, !.kbd_done = TRUE]

keyboard_handle_eof(d) ==
  keyboard_unblock_proc([d EXCEPT !.irq = FALSE, !.kbd_done = TRUE], Waiting(d))

\* Bug: a task whose buffer is full goes on reading.
Mutant_keyboard_process_char(d, c) ==
  IF c = d.eof THEN keyboard_handle_eof(d)
  ELSE LET d1 == [d EXCEPT !.buff_count =
                    [s \in Slots |-> IF d.waiting_on_read[s] THEN @[s] + 1 ELSE @[s]]]
       IN  keyboard_unblock_proc(d1, {s \in Waiting(d) : c = "\n"})

\* Every task that waits gets the character, and is done when its buffer is
\* full or the line ends.
keyboard_process_char(d, c) ==
  IF c = d.eof THEN keyboard_handle_eof(d)
  ELSE LET d1 == [d EXCEPT !.buff_count =
                    [s \in Slots |-> IF d.waiting_on_read[s] THEN @[s] + 1 ELSE @[s]]]
       IN  keyboard_unblock_proc(d1,
             {s \in Waiting(d) : d1.buff_count[s] = d1.bufflen[s] \/ c = "\n"})

Succ(i) == (i + 1) % KEYBOARD_BUFFER_SIZE

\* The loop ends after at most KEYBOARD_BUFFER_SIZE characters.
keyboard_flush_buffer(d) ==
  LET after[n \in 0..KEYBOARD_BUFFER_SIZE] ==
        IF n = 0 THEN d
        ELSE LET e == after[n - 1]
             IN  IF e.kbd_task_refcount > 0 /\ e.tail # e.head
                 THEN [keyboard_process_char(e, e.buffer[e.tail])
                         EXCEPT !.buffer[e.tail] = NUL, !.tail = Succ(@)]
                 ELSE e
  IN  after[KEYBOARD_BUFFER_SIZE]

\* The character of a key that is pressed.
KeyChar(keystate, key) ==
  CASE key = "ENTER" -> "\n"
    [] key = "D" -> (IF "CTRL" \in keystate THEN "EOT"
                     ELSE IF ("SHIFT" \in keystate) # ("CAPLOCK" \in keystate) THEN "D"
                     ELSE "d")
    [] OTHER -> NUL

\* The keys that change how others are read.  When ctrl is released the code
\* also clears the bits of KEYBOARD_STATE_CTRL_BIT, which is a bit number: the
\* bit of shift.
KeyState(keystate, key, pressed) ==
  CASE key = "SHIFT" -> (IF pressed THEN keystate \cup {"SHIFT"} ELSE keystate \ {"SHIFT"})
    [] key = "CTRL" -> (IF pressed THEN keystate \cup {"CTRL"} ELSE keystate \ {"CTRL", "SHIFT"})
    [] key = "CAPLOCK" /\ pressed ->
         (IF "CAPLOCK" \in keystate THEN keystate \ {"CAPLOCK"} ELSE keystate \cup {"CAPLOCK"})
    [] OTHER -> keystate

\* Bug: the test for a full buffer is missing.
Mutant_Buffered(d, c) == [d EXCEPT !.buffer[d.head] = c, !.head = Succ(@)]

\* The character waits in the buffer for a read, if there is room.
Buffered(d, c) ==
  IF Succ(d.head) # d.tail THEN [d EXCEPT !.buffer[d.head] = c, !.head = Succ(@)] ELSE d

\* One scan code, of a key that is pressed or released.
keyboard_isr(d, key, pressed) ==
  LET c  == IF pressed THEN KeyChar(d.keystate, key) ELSE NUL
      d1 == [d EXCEPT !.keystate = KeyState(@, key, pressed)]
  IN  IF c = NUL THEN d1
      ELSE IF d1.kbd_task_refcount > 0 THEN keyboard_process_char(d1, c)
      ELSE Buffered(d1, c)

-----------------------------------------------------------------------------
(***************************************************************************)
(* The upper half, and the device independent calls                        *)
(***************************************************************************)

\* kbd_init(); the rest of the static data is zero.
kbd_init ==
  [ state             |-> [s \in Slots |-> IF s = 1 THEN "user" ELSE "free"],
    fd_table          |-> [s \in Slots |-> [fd \in FDs |-> NONE]],
    kbd_refcount      |-> 0,
    kbd_current_type  |-> 0,
    kbd_done          |-> FALSE,
    kbd_task_refcount |-> 0,
    waiting_on_read   |-> [s \in Slots |-> FALSE],
    buff_count        |-> [s \in Slots |-> 0],
    bufflen           |-> [s \in Slots |-> 0],
    buffer            |-> [i \in 0..(KEYBOARD_BUFFER_SIZE - 1) |-> NUL],
    head              |-> 0,
    tail              |-> 0,
    eof               |-> NUL,
    keystate          |-> {},
    irq               |-> FALSE,
    failed            |-> FALSE ]

\* The first descriptor of s gives it the device; its own keyboard type is the
\* only one that is open.
kbd_open(d, s, echo) ==
  IF d.kbd_refcount > 0
  THEN [d EXCEPT !.kbd_refcount = @ + 1]
  ELSE [d EXCEPT !.kbd_current_type = echo,
                 !.kbd_done = FALSE,
                 !.buffer = [i \in DOMAIN @ |-> NUL],
                 !.head = 0,
                 !.tail = 0,
                 !.keystate = {},
                 !.eof = KBD_DEFAULT_EOF,
                 !.kbd_refcount = 1,
                 !.failed = d.waiting_on_read[s],
                 !.irq = TRUE]

Free(d, s) == {fd \in FDs : d.fd_table[s][fd] = NONE}

di_open(d, s, device_no) ==
  IF \/ Free(d, s) = {}
     \/ d.kbd_refcount > 0 /\ d.kbd_current_type # device_no
  THEN d
  ELSE LET fd == CHOOSE i \in Free(d, s) : \A j \in Free(d, s) : i <= j
       IN  [kbd_open(d, s, device_no) EXCEPT !.fd_table[s][fd] = device_no]

kbd_close(d, s) ==
  [d EXCEPT !.kbd_refcount = @ - 1,
            !.irq = @ /\ d.kbd_refcount # 1,
            !.kbd_task_refcount = IF d.waiting_on_read[s] THEN @ - 1 ELSE @,
            !.waiting_on_read[s] = FALSE]

valid_fd(d, s, fd) == d.fd_table[s][fd] # NONE

di_close(d, s, fd) ==
  IF ~valid_fd(d, s, fd) \/ d.kbd_refcount <= 0
  THEN d
  ELSE [kbd_close(d, s) EXCEPT !.fd_table[s][fd] = NONE]

\* The task of s is set up and gets what is in the buffer.
Request(d, s, len) ==
  keyboard_flush_buffer(
    [d EXCEPT !.kbd_task_refcount = @ + 1, !.buff_count[s] = 0,
              !.bufflen[s] = len, !.waiting_on_read[s] = TRUE])

\* Bug: what is there is returned instead of waiting for more.
Mutant_kbd_read(d, s, len) == Request(d, s, len)

\* The read returns what it has if the buffer is full or the input has ended,
\* otherwise handle_syscall_read() blocks the process.
kbd_read(d, s, len) ==
  LET d1 == Request(d, s, len)
  IN  IF d1.buff_count[s] = len \/ d1.kbd_done THEN d1
      ELSE [d1 EXCEPT !.state[s] = "blocked"]

-----------------------------------------------------------------------------
(***************************************************************************)
(* Processes and interrupts.  The kernel handles each with interrupts off. *)
(***************************************************************************)

Calls(s) == ~kbd.failed /\ kbd.state[s] = "user"

Open(s) == Calls(s) /\ \E device_no \in Devices : kbd' = di_open(kbd, s, device_no)

Close(s) == Calls(s) /\ \E fd \in FDs : kbd' = di_close(kbd, s, fd)

Read(s) ==
  /\ Calls(s)
  /\ kbd.kbd_task_refcount < MaxTaskRefs
  /\ \E fd \in FDs, len \in Lengths :
       valid_fd(kbd, s, fd) /\ kbd' = kbd_read(kbd, s, len)

\* A new end of file character.
Ioctl(s) ==
  /\ Calls(s)
  /\ \E fd \in FDs, c \in {KBD_DEFAULT_EOF, "d"} :
       valid_fd(kbd, s, fd) /\ kbd' = [kbd EXCEPT !.eof = c]

\* A call that fails: writing, a command or a descriptor that does not exist.
Fail(s) == Calls(s) /\ UNCHANGED kbd

\* A process ends; neither sysstop() nor create() closes what it has open.
Stop(s) == Calls(s) /\ kbd' = [kbd EXCEPT !.state[s] = "free"]
Create(s) == ~kbd.failed /\ kbd.state[s] = "free" /\ kbd' = [kbd EXCEPT !.state[s] = "user"]

KeyboardInt ==
  /\ ~kbd.failed
  /\ kbd.irq
  /\ \E key \in Keys, pressed \in BOOLEAN : kbd' = keyboard_isr(kbd, key, pressed)

Init == kbd = kbd_init

Next == \/ \E s \in Slots : \/ Open(s) \/ Close(s) \/ Read(s) \/ Ioctl(s) \/ Fail(s)
                           \/ Stop(s) \/ Create(s)
        \/ KeyboardInt

Spec == Init /\ [][Next]_kbd

-----------------------------------------------------------------------------
\* Every field of the driver has its type: the counts of descriptors and of
\* characters never go below zero.
TypeOK == kbd \in KbdStates

\* kbd_refcount counts the open descriptors of all slots, whatever order
\* processes open, close and end in, and keyboard interrupts are on as long as
\* there is one and the input has not ended.
OpenCount ==
  /\ kbd.kbd_refcount =
       Cardinality({x \in Slots \X FDs : kbd.fd_table[x[1]][x[2]] # NONE})
  /\ kbd.irq <=> kbd.kbd_refcount > 0 /\ ~kbd.kbd_done

\* The driver never writes beyond the buffer of a read: a task that is marked as
\* waiting has room for one more character.
NeverOverruns == \A s \in Waiting(kbd) : kbd.buff_count[s] < kbd.bufflen[s]

\* The interrupt handler fills the buffers, and sets the results, of processes
\* that are blocked in sysread() and of no others, though reads after the end of
\* the input leave their task marked as waiting.
OnlyReadersWritten == kbd.irq => \A s \in Waiting(kbd) : kbd.state[s] = "blocked"

\* No interrupt and no read writes where nobody asked for it: not behind the buffer of
\* a read and not for a process that is not in one.  (keyboard_process_char)
WritesContained == NeverOverruns /\ OnlyReadersWritten

\* Every process that is blocked on the keyboard is one that the driver will
\* wake, and the end of the input wakes them all.
ReadersServed ==
  \A s \in Slots : kbd.state[s] = "blocked" => kbd.waiting_on_read[s] /\ ~kbd.kbd_done

\* The ASSERT of kbd_open(): who opens the keyboard first has no read of its own,
\* or of the slot's last process, in progress.
OpenAssertHolds == ~kbd.failed

\* The driver's bookkeeping of descriptors and tasks stays right when processes open,
\* inherit and close descriptors and end with them: types, counts and the ASSERT.
DriverInv == TypeOK /\ OpenCount /\ OpenAssertHolds

\* The characters in the circular buffer, oldest first.
Contents(d) == [i \in 1..((d.head - d.tail) % KEYBOARD_BUFFER_SIZE) |->
                  d.buffer[(d.tail + i - 1) % KEYBOARD_BUFFER_SIZE]]

\* The circular buffer is a queue: an interrupt adds at most one character at
\* its end, and a read takes characters from its front only.
TypeAheadFifo ==
  [][LET old == Contents(kbd)
         new == Contents(kbd')
         n   == Cardinality(DOMAIN old)
         m   == Cardinality(DOMAIN new)
     IN  /\ KeyboardInt => /\ m \in {n, n + 1}
                           /\ \A i \in 1..n : new[i] = old[i]
         /\ ~KeyboardInt => \/ m = 0
                            \/ m <= n /\ \A i \in 1..m : new[i] = old[n - m + i]]_kbd

\* A read returns no characters only when the input has ended, which is how the
\* shell of c/user.c recognises the end of file.
ZeroMeansEof ==
  [][\A s \in Slots :
       (kbd.state[s] = "blocked" \/ Read(s)) /\ kbd'.state[s] = "user" /\ kbd'.buff_count[s] = 0
         => kbd'.kbd_done]_kbd
=============================================================================
