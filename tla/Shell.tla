------------------------------- MODULE Shell -------------------------------
(***************************************************************************)
(* The programs of c/user.c: root(), which asks for a user and a password  *)
(* and waits for the shell it starts; shell(), which reads lines and       *)
(* starts the commands; and the commands t, ps, a and k.                   *)
(*                                                                         *)
(* Each process goes on from one system call to the next in a step of its  *)
(* own.  Of the kernel there is what these programs see: a process that    *)
(* waits goes on when the one it waits for has ended, one that was sent    *)
(* the kill signal ends instead of going on, and the keyboard has one      *)
(* state for all that have it open.  Characters and strings are those of   *)
(* module Strings.                                                         *)
(***************************************************************************)
EXTENDS Strings, FiniteSets

CONSTANTS
  MaxPid,       \* bound on the processes that are ever started
  PCB_TABLE_SIZE,
  Lines,        \* the lines that the user types at the shell's prompt
  Names,        \* and those typed at login, for the user and for the password
  valid_user,
  valid_pass,
  LineSize      \* the size of the buffers: a line and its NUL fit

ASSUME ShellAssumption ==
  /\ MaxPid \in Nat \ {0}
  /\ PCB_TABLE_SIZE \in Nat \ {0}
  /\ LineSize \in Nat
  /\ Lines \cup Names \cup {valid_user, valid_pass} \subseteq Seq(Nat \ {NUL, EOL})
  /\ \A text \in Lines \cup Names \cup {valid_user, valid_pass} : Len(text) + 2 <= LineSize

VARIABLES
  proc,         \* the processes, by pid
  kbd,          \* the keyboard: its reference count, and the flags of c/kbd.c
  login,        \* the buffers of root(), user_buf and pass_buf
  buf,          \* the buffer of the shell that reads
  pid_to_kill,
  command_arg,  \* the shell in whose stack is the argument that this points to
  halt,         \* has the kernel stopped in an ASSERT?
  left          \* the keyboards left open by processes that were killed (history)

vars == <<proc, kbd, login, buf, pid_to_kill, command_arg, halt, left>>

Pids == 1..MaxPid
NONE == 0       \* no process; as pid_to_kill, the idle process
ROOT == 1
AMPERSAND == 38

(***************************************************************************)
(* A process has a program and the next thing it does; child is the        *)
(* process that it waits for.  arg is the array of that name in a shell,   *)
(* and in a command the word that followed it on its line (history).       *)
(***************************************************************************)
Free == [prog |-> "none", pc |-> "none", killed |-> FALSE, child |-> NONE, arg |-> <<>>]
Ended == [Free EXCEPT !.prog = "ended"]
Started(prog, arg) == [Free EXCEPT !.prog = prog, !.pc = "start", !.arg = arg]

Alive(p) == proc[p].prog \notin {"none", "ended"}
Is(p, prog) == proc[p].prog = prog
\* Process p executes this program, and this is what it does next.
At(p, prog, pc) == Is(p, prog) /\ proc[p].pc = pc /\ ~ proc[p].killed /\ ~ halt

Init ==
  /\ proc = [p \in Pids |-> IF p = ROOT THEN Started("root", <<>>) ELSE Free]
  /\ kbd = [refcount |-> 0, echo |-> FALSE, done |-> FALSE]
  /\ login = [user |-> <<>>, pass |-> <<>>]
  /\ buf = <<>> /\ pid_to_kill = 0 /\ command_arg = NONE
  /\ halt = FALSE /\ left = 0

-----------------------------------------------------------------------------
(***************************************************************************)
(* The system calls                                                        *)
(***************************************************************************)
Goes(p, pc) == [proc EXCEPT ![p].pc = pc]

\* The pid of the next process, or NONE if there is no pcb or memory for it.
NextPid ==
  LET free == {p \in Pids : Is(p, "none")}
  IN  IF free = {} \/ Cardinality({p \in Pids : Alive(p)}) >= PCB_TABLE_SIZE THEN NONE
      ELSE CHOOSE p \in free : \A q \in free : p <= q

\* syscreate(), and the new process is the one to wait for.  The place "wait" is before
\* syswait() as well as in it.  The wait for a process that has ended by then, or was
\* never started, returns at once: nobody else creates one that could take its slot.
syscreate(p, prog, arg, waits) ==
  LET child == NextPid
      procs == [proc EXCEPT ![p].pc = "wait", ![p].child = IF waits THEN child ELSE NONE]
  IN  IF child = NONE THEN procs ELSE [procs EXCEPT ![child] = Started(prog, arg)]

\* Process p ends, and those that wait for it go on.
End(p) ==
  [q \in Pids |-> IF q = p THEN Ended
                  ELSE IF proc[q].child = p THEN [proc[q] EXCEPT !.child = NONE]
                  ELSE proc[q]]

\* Bug: the end of the input is not forgotten.
Mutant_kbd_open_Done(k) ==
  IF k.refcount > 0 THEN [k EXCEPT !.refcount = @ + 1]
  ELSE [k EXCEPT !.refcount = 1, !.echo = TRUE]

\* The first process to open the keyboard sets it up.
kbd_open(k) ==
  IF k.refcount > 0 THEN [k EXCEPT !.refcount = @ + 1]
  ELSE [refcount |-> 1, echo |-> TRUE, done |-> FALSE]

kbd_close(k) == [k EXCEPT !.refcount = @ - 1]

\* The ways a read can return: the data and the keyboard after it.  It returns when
\* a line is complete or the input ends, and at once if the input has ended before.
Reads(texts) ==
  IF kbd.done THEN {[data |-> <<>>, kbd |-> kbd]}
  ELSE {[data |-> text \o <<EOL>>, kbd |-> kbd] : text \in texts}
         \cup {[data |-> text, kbd |-> [kbd EXCEPT !.done = TRUE]] : text \in texts \cup {<<>>}}

-----------------------------------------------------------------------------
(***************************************************************************)
(* Strings                                                                 *)
(***************************************************************************)
\* A buffer that was cleared before the text was put into it.
Buffer(text) == [i \in 1..LineSize |-> IF i <= Len(text) THEN text[i] ELSE NUL]

\* The text up to the newline.
filter_newline(text) ==
  LET ends == {i \in 1..Len(text) : text[i] = EOL}
  IN  IF ends = {} THEN text ELSE SubSeq(text, 1, First(ends) - 1)

Equal(word, text) == strcmp(Buffer(word), Buffer(text)) = 0

Separators == {BLANK, AMPERSAND}

\* Where the characters of the text from position i on cease to be those of S.
Past(text, i, S) == First({k \in i..(Len(text) + 1) : k = Len(text) + 1 \/ text[k] \notin S})

\* Bug: only a blank ends a word.
Mutant_get_command(text) ==
  LET word == {text[i] : i \in 1..Len(text)} \ {BLANK}
      e == Past(text, 1, word)
      a == Past(text, e, Separators)
  IN  [command |-> SubSeq(text, 1, e - 1), arg |-> SubSeq(text, a, Past(text, a, word) - 1),
       ampersand |-> \E k \in 2..Len(text) : /\ text[k] = AMPERSAND
                                             /\ \A j \in (k + 1)..Len(text) : text[j] = BLANK]

\* The command, its argument, and whether the line ends with an ampersand.  The
\* first character is not looked at when the ampersand is searched from the end.
get_command(text) ==
  LET word == {text[i] : i \in 1..Len(text)} \ Separators
      e == Past(text, 1, word)
      a == Past(text, e, Separators)
  IN  [command |-> SubSeq(text, 1, e - 1), arg |-> SubSeq(text, a, Past(text, a, word) - 1),
       ampersand |-> \E k \in 2..Len(text) : /\ text[k] = AMPERSAND
                                             /\ \A j \in (k + 1)..Len(text) : text[j] = BLANK]

-----------------------------------------------------------------------------
(***************************************************************************)
(* root()                                                                  *)
(***************************************************************************)
RootOpen ==
  /\ At(ROOT, "root", "start")
  /\ kbd' = kbd_open(kbd) /\ login' = [user |-> <<>>, pass |-> <<>>]
  /\ proc' = Goes(ROOT, "user")
  /\ UNCHANGED <<buf, pid_to_kill, command_arg, halt, left>>

RootUser ==
  /\ At(ROOT, "root", "user")
  /\ \E r \in Reads(Names) :
       kbd' = r.kbd /\ login' = [login EXCEPT !.user = filter_newline(r.data)]
  /\ proc' = Goes(ROOT, "ioctl")
  /\ UNCHANGED <<buf, pid_to_kill, command_arg, halt, left>>

\* Bug: the echo stays on.
Mutant_RootIoctl ==
  /\ At(ROOT, "root", "ioctl")
  /\ proc' = Goes(ROOT, "pass")
  /\ UNCHANGED <<kbd, login, buf, pid_to_kill, command_arg, halt, left>>

RootIoctl ==
  /\ At(ROOT, "root", "ioctl")
  /\ kbd' = [kbd EXCEPT !.echo = FALSE]
  /\ proc' = Goes(ROOT, "pass")
  /\ UNCHANGED <<login, buf, pid_to_kill, command_arg, halt, left>>

RootPass ==
  /\ At(ROOT, "root", "pass")
  /\ \E r \in Reads(Names) :
       kbd' = r.kbd /\ login' = [login EXCEPT !.pass = filter_newline(r.data)]
  /\ proc' = Goes(ROOT, "close")
  /\ UNCHANGED <<buf, pid_to_kill, command_arg, halt, left>>

RootClose ==
  /\ At(ROOT, "root", "close")
  /\ kbd' = kbd_close(kbd)
  /\ proc' = Goes(ROOT, "check")
  /\ UNCHANGED <<login, buf, pid_to_kill, command_arg, halt, left>>

RootCheck ==
  /\ At(ROOT, "root", "check")
  /\ proc' = IF Equal(login.user, valid_user) /\ Equal(login.pass, valid_pass)
             THEN syscreate(ROOT, "shell", <<>>, TRUE)
             ELSE Goes(ROOT, "start")
  /\ UNCHANGED <<kbd, login, buf, pid_to_kill, command_arg, halt, left>>

\* Bug: root does not wait for the shell.
Mutant_RootWait ==
  /\ At(ROOT, "root", "wait")
  /\ proc' = [proc EXCEPT ![ROOT].pc = "start", ![ROOT].child = NONE]
  /\ UNCHANGED <<kbd, login, buf, pid_to_kill, command_arg, halt, left>>

RootWait ==
  /\ At(ROOT, "root", "wait") /\ proc[ROOT].child = NONE
  /\ proc' = Goes(ROOT, "start")
  /\ UNCHANGED <<kbd, login, buf, pid_to_kill, command_arg, halt, left>>

-----------------------------------------------------------------------------
(***************************************************************************)
(* shell()                                                                 *)
(***************************************************************************)
\* (A table of descriptors that others have left full is not modelled.)
ShellOpen(p) ==
  /\ At(p, "shell", "start")
  /\ kbd' = kbd_open(kbd)
  /\ proc' = Goes(p, "read") /\ buf' = <<>>
  /\ UNCHANGED <<login, pid_to_kill, command_arg, halt, left>>

\* The end of the input ends the shell.
ShellRead(p) ==
  /\ At(p, "shell", "read")
  /\ \E r \in Reads(Lines) :
       /\ kbd' = r.kbd /\ buf' = filter_newline(r.data)
       /\ proc' = Goes(p, IF r.data = <<>> THEN "close" ELSE "command")
  /\ UNCHANGED <<login, pid_to_kill, command_arg, halt, left>>

T == <<116>>
PS == <<112, 115>>
A == <<97>>
K == <<107>>
EX == <<101, 120>>

\* Bug: an ampersand leaves every command in the background.
Mutant_InBackground(c) == c.ampersand

\* Only t can stay in the background.
InBackground(c) == Equal(T, c.command) /\ c.ampersand

\* The line is taken apart, which fills the array arg, and the command started.
ShellCommand(p) ==
  /\ At(p, "shell", "command")
  /\ \E c \in {get_command(buf)} :
       LET Starts(prog) ==
             [syscreate(p, prog, c.arg, ~ InBackground(c)) EXCEPT ![p].arg = c.arg]
       IN  /\ proc' = CASE Equal(T, c.command)  -> Starts("t")
                        [] Equal(PS, c.command) -> Starts("ps")
                        [] Equal(A, c.command)  -> Starts("a")
                        [] Equal(K, c.command)  -> Starts("k")
                        [] Equal(EX, c.command) -> Goes(p, "close")
                        [] OTHER                -> [Goes(p, "wait") EXCEPT ![p].arg = c.arg]
           /\ command_arg' = IF Equal(A, c.command) THEN p ELSE command_arg
           /\ pid_to_kill' = IF Equal(K, c.command) THEN atoi(Buffer(c.arg)) ELSE pid_to_kill
  /\ buf' = <<>>
  /\ UNCHANGED <<kbd, login, halt, left>>

ShellWait(p) ==
  /\ At(p, "shell", "wait") /\ proc[p].child = NONE
  /\ proc' = Goes(p, "read")
  /\ UNCHANGED <<kbd, login, buf, pid_to_kill, command_arg, halt, left>>

ShellClose(p) ==
  /\ At(p, "shell", "close")
  /\ kbd' = kbd_close(kbd)
  /\ proc' = Goes(p, "end") /\ buf' = <<>>
  /\ UNCHANGED <<login, pid_to_kill, command_arg, halt, left>>

-----------------------------------------------------------------------------
(***************************************************************************)
(* The commands                                                            *)
(***************************************************************************)
\* command_ps(): the process reads the process table, which changes nothing.
Ps(p) ==
  /\ At(p, "ps", "start")
  /\ proc' = Goes(p, "end")
  /\ UNCHANGED <<kbd, login, buf, pid_to_kill, command_arg, halt, left>>

\* command_t(): a line, ten seconds of sleep, and again.
T_Puts(p) ==
  /\ At(p, "t", "start")
  /\ proc' = Goes(p, "sleep")
  /\ UNCHANGED <<kbd, login, buf, pid_to_kill, command_arg, halt, left>>
T_Wakes(p) ==
  /\ At(p, "t", "sleep")
  /\ proc' = Goes(p, "start")
  /\ UNCHANGED <<kbd, login, buf, pid_to_kill, command_arg, halt, left>>

\* command_k(): the idle process is not killed.
K_Check(p) ==
  /\ At(p, "k", "start")
  /\ proc' = Goes(p, IF pid_to_kill = 0 THEN "end" ELSE "kill")
  /\ UNCHANGED <<kbd, login, buf, pid_to_kill, command_arg, halt, left>>

\* The process reads from the keyboard.
IsReading(p) ==
  \/ Is(p, "root") /\ proc[p].pc \in {"user", "pass"}
  \/ Is(p, "shell") /\ proc[p].pc = "read"

\* syskill() marks the signal and ends the target's sleep or wait.  For a target
\* that is blocked on a device, the kernel has an ASSERT(0).
K_Kill(p) ==
  /\ At(p, "k", "kill")
  /\ LET target == pid_to_kill
         exists == target \in Pids /\ Alive(target)
     IN  /\ proc' = [q \in Pids |-> IF exists /\ q = target THEN [Goes(p, "end")[q] EXCEPT !.killed = TRUE]
                                    ELSE Goes(p, "end")[q]]
         /\ halt' = (exists /\ IsReading(target) /\ ~ kbd.done)
  /\ UNCHANGED <<kbd, login, buf, pid_to_kill, command_arg, left>>

\* command_a() takes its time from the argument, which is in the shell's stack.
A_Start(p) ==
  /\ At(p, "a", "start")
  /\ \E word \in IF Alive(command_arg) THEN {proc[command_arg].arg} ELSE {<<>>, <<ZERO + 1>>} :
       proc' = Goes(p, IF atoi(Buffer(word)) <= 0 THEN "end" ELSE "sleep")
  /\ UNCHANGED <<kbd, login, buf, pid_to_kill, command_arg, halt, left>>

\* The sleep is over: the process sends itself the signal.
A_Wakes(p) ==
  /\ At(p, "a", "sleep")
  /\ proc' = Goes(p, "alarm")
  /\ UNCHANGED <<kbd, login, buf, pid_to_kill, command_arg, halt, left>>

\* command_a_handler() takes itself out of the signal table.
A_Handler(p) ==
  /\ At(p, "a", "alarm")
  /\ proc' = Goes(p, "end")
  /\ UNCHANGED <<kbd, login, buf, pid_to_kill, command_arg, halt, left>>

\* A program returns into sysstop().
Stop(p) ==
  /\ Alive(p) /\ At(p, proc[p].prog, "end")
  /\ proc' = End(p)
  /\ UNCHANGED <<kbd, login, buf, pid_to_kill, command_arg, halt, left>>

\* Has the process opened the keyboard and not closed it?
HasKeyboard(p) ==
  \/ Is(p, "root") /\ proc[p].pc \in {"user", "ioctl", "pass", "close"}
  \/ Is(p, "shell") /\ proc[p].pc \in {"read", "command", "wait", "close"}

\* The kill signal's handler is sysstop(), which closes nothing.
Killed(p) ==
  /\ proc[p].killed /\ ~ halt
  /\ proc' = End(p)
  /\ left' = left + IF HasKeyboard(p) THEN 1 ELSE 0
  /\ buf' = IF Is(p, "shell") THEN <<>> ELSE buf
  /\ UNCHANGED <<kbd, login, pid_to_kill, command_arg, halt>>

-----------------------------------------------------------------------------
Root == RootOpen \/ RootIoctl \/ RootClose \/ RootCheck \/ RootWait
Program(p) ==
  \/ ShellOpen(p) \/ ShellCommand(p) \/ ShellWait(p) \/ ShellClose(p)
  \/ Ps(p) \/ T_Puts(p) \/ T_Wakes(p) \/ K_Check(p) \/ K_Kill(p)
  \/ A_Start(p) \/ A_Wakes(p) \/ A_Handler(p) \/ Stop(p) \/ Killed(p)

\* The reads, which may wait for the user for ever.
Input == RootUser \/ RootPass \/ \E p \in Pids : ShellRead(p)

\* Only the idle process is left, or the kernel loops in its ASSERT.
Idle == (halt \/ \A p \in Pids : ~ Alive(p)) /\ UNCHANGED vars

Next == Root \/ (\E p \in Pids : Program(p)) \/ Input \/ Idle

(***************************************************************************)
(* The dispatcher takes turns, sleeps end, and a read returns at once when *)
(* the input has ended: every process goes on, unless it waits for the     *)
(* user or for another process.                                            *)
(***************************************************************************)
Fairness ==
  /\ WF_vars(Root)
  /\ \A p \in Pids : WF_vars(Program(p))
  /\ WF_vars(kbd.done /\ Input)

Spec == Init /\ [][Next]_vars /\ Fairness

-----------------------------------------------------------------------------
(***************************************************************************)
(* Properties                                                              *)
(***************************************************************************)
Processes ==
  [prog : {"none", "ended", "root", "shell", "t", "ps", "a", "k"},
   pc : {"none", "start", "user", "ioctl", "pass", "close", "check", "wait", "read", "command",
         "sleep", "kill", "alarm", "end"},
   killed : BOOLEAN, child : Pids \cup {NONE}, arg : Seq(Nat)]

\* Every variable has its type.
TypeOK ==
  /\ proc \in [Pids -> Processes]
  /\ kbd \in [refcount : 0..MaxPid, echo : BOOLEAN, done : BOOLEAN]
  /\ login \in [user : Seq(Nat), pass : Seq(Nat)]
  /\ buf \in Seq(Nat) /\ pid_to_kill \in Int /\ command_arg \in Pids \cup {NONE}
  /\ halt \in BOOLEAN /\ left \in 0..MaxPid

\* The password is read without echo: nothing turns the echo on again between the
\* ioctl and the read of root(), though every process shares the flag.
PasswordHidden == At(ROOT, "root", "pass") => ~ kbd.echo

\* The shell's lines are echoed, as its sysopen() is the first and sets the flag that
\* root() has cleared; except after a shell was killed, whose open keyboard keeps
\* kbd_open() from setting it.
ShellEchoes == \A p \in Pids : At(p, "shell", "read") /\ left = 0 => kbd.echo

\* The one flag that all processes share is off for every password and on for every
\* command.  (root, shell)
EchoRight == PasswordHidden /\ ShellEchoes

\* Every descriptor is accounted for: kbd_refcount counts the processes that have the
\* keyboard open, and those that were killed with it.
OpensCounted == kbd.refcount = Cardinality({p \in Pids : HasKeyboard(p)}) + left

\* syskill() is never called for a process that is blocked on the keyboard, which would
\* fail an ASSERT of set_pcb_signal() (c/signal.c): the shell waits for k before it reads
\* again, and root waits for the shell.
KillSparesReaders == ~ halt

\* A command finds the argument of its own line, in the stack of a shell that has not
\* ended: a and k read it after they were started, and the shell changes it only for the
\* next line.
ArgumentsIntact ==
  \A p \in Pids :
    /\ At(p, "a", "start") => Alive(command_arg) /\ proc[command_arg].arg = proc[p].arg
    /\ At(p, "k", "start") \/ At(p, "k", "kill") => pid_to_kill = atoi(Buffer(proc[p].arg))

\* One session at a time: there is one shell at most, and while there is one, root waits
\* for it, if root has not been killed.
OneSession ==
  \A p \in Pids : Is(p, "shell") =>
    /\ \A q \in Pids : Is(q, "shell") => q = p
    /\ Is(ROOT, "root") => proc[ROOT].pc = "wait" /\ proc[ROOT].child = p

\* Sessions follow one another, whoever is killed when: types, descriptors, readers that
\* nobody signals, one shell.  (root, shell)
SessionInv == TypeOK /\ OpensCounted /\ KillSparesReaders /\ OneSession

\* What get_command() makes of a text.
Parsed(text) ==
  LET c == get_command(text)
      IsWord(w) == \A i \in 1..Len(w) : w[i] \notin Separators
      Ends(i) == i > Len(text) \/ text[i] \in Separators
  IN  /\ IsWord(c.command) /\ IsWord(c.arg)
      /\ SubSeq(text, 1, Len(c.command)) = c.command /\ Ends(Len(c.command) + 1)
      /\ \E i \in (Len(c.command) + 1)..(Len(text) + 1) :
           /\ \A k \in (Len(c.command) + 1)..(i - 1) : text[k] \in Separators
           /\ Ends(i) => i > Len(text)
           /\ SubSeq(text, i, i + Len(c.arg) - 1) = c.arg /\ Ends(i + Len(c.arg))
      /\ c.command # <<>> =>
           (c.ampersand <=> \E k \in 1..Len(text) :
                              /\ text[k] = AMPERSAND
                              /\ {text[j] : j \in (k + 1)..Len(text)} \subseteq {BLANK})

\* The words of a line are the longest runs of characters without blanks and ampersands.
\* get_command() gives the first one, if the line starts with it, and the next one; and
\* it sees the ampersand that ends a line that has a command.
CommandsParsed == \A p \in Pids : At(p, "shell", "command") => Parsed(buf)

\* Somebody asks for input, again and again, whatever is typed: unless the shell waits for
\* a t in the foreground, or root and the shell have been killed, or the input has ended
\* while a killed shell's keyboard is open, so that no open resets kbd_done.
ConsoleAttended ==
  []<>(\/ \E p \in Pids : IsReading(p) /\ ~ kbd.done
       \/ \E p \in Pids : Is(p, "shell") /\ proc[p].child # NONE /\ Is(proc[p].child, "t")
       \/ ~ \E p \in Pids : Is(p, "root") \/ Is(p, "shell")
       \/ left > 0 /\ kbd.done)
=============================================================================
