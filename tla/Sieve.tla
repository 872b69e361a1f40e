------------------------------- MODULE Sieve -------------------------------
(***************************************************************************)
(* The prime sieve (fork/primes.c): a chain of processes, each of which    *)
(* takes the first number it reads for a prime, forks the next one and     *)
(* passes on what its prime does not divide.  Process 0 is main; process   *)
(* k > 0 reads pipe k.  The kernel is external: fork and pipe may fail, a  *)
(* pipe holds SIZE numbers, a write without a reader kills.  It begins     *)
(* when primes() has made its pipe and its child.                          *)
(***************************************************************************)
EXTENDS Naturals, Sequences, FiniteSets, FiniteSetsExt

CONSTANTS
  N,        \* the argument of the program
  Procs,    \* bound: processes after main, 1..Procs
  SIZE      \* numbers a pipe holds

ASSUME SieveAssumption == {N, Procs, SIZE} \subseteq Nat \ {0} /\ N >= 2

VARIABLES
  filt,     \* the processes
  pip,      \* the contents of the pipes
  printed,  \* the numbers printed, in order
  trouble   \* some fork or pipe has failed

sieveVars == <<filt, pip, printed, trouble>>

None == [at |-> "none", out |-> 0]
Gone == [at |-> "gone", out |-> 0]
\* A process in its first or second call of filter(), before the first read.
Fresh(c) == [at |-> "first", call |-> c, out |-> 0]
Idle == {k \in 1..Procs : filt[k] = None}

\* Who has the ends of pipe k open: its process, and the one that made it,
\* which keeps both ends until it has read everything (main only one).
HasWriter(k) == \E j \in 0..Procs : filt[j].out = k
HasReader(k) == filt[k].at # "gone" \/ \E j \in 1..Procs : filt[j].out = k

\* A write of number x by process j.
Write(j, k, x, next) ==
  IF HasReader(k)
  THEN /\ Len(pip[k]) < SIZE
       /\ pip' = [pip EXCEPT ![k] = Append(@, x)]
       /\ filt' = [filt EXCEPT ![j] = next]
  ELSE filt' = [filt EXCEPT ![j] = Gone] /\ UNCHANGED pip

\* primes(): 2..n-1 into the pipe, close, wait.
primes ==
  /\ filt[0].at = "main"
  /\ \/ /\ filt[0].next < N
        /\ Write(0, 1, filt[0].next, [filt[0] EXCEPT !.next = @ + 1])
     \/ /\ filt[0].next >= N
        /\ filt' = [filt EXCEPT ![0] = [at |-> "wait", child |-> 1, out |-> 0]]
        /\ UNCHANGED pip
  /\ UNCHANGED <<printed, trouble>>

\* The return of a call of filter(): the first is followed by a second one.
\* The calls of the frames further out, which the fork has copied, find their
\* descriptor closed.
Returned(k) == IF filt[k].call = 1 THEN Fresh(2) ELSE Gone

\* filter(), up to the fork.  At the end of its input it returns.  When pipe
\* fails it returns too, with the rest of the input unread; when fork fails
\* it goes on as if there were a child, the read end of its pipe open.
filter_first(k) ==
  /\ filt[k].at = "first"
  /\ \/ /\ pip[k] = <<>> /\ ~HasWriter(k)
        /\ filt' = [filt EXCEPT ![k] = Returned(k)]
        /\ UNCHANGED <<pip, printed, trouble>>
     \/ /\ pip[k] # <<>>
        /\ pip' = [pip EXCEPT ![k] = Tail(@)]
        /\ LET prime == Head(pip[k])
               loop(c) == [at |-> "loop", call |-> filt[k].call, prime |-> prime,
                           child |-> c, out |-> Min(Idle), have |-> 0]
           IN \/ /\ filt' = [filt EXCEPT ![k] = Returned(k)]
                 /\ trouble' = TRUE /\ UNCHANGED printed
              \/ /\ Idle # {}
                 /\ filt' = [filt EXCEPT ![k] = loop(Min(Idle)), ![Min(Idle)] = Fresh(1)]
                 /\ printed' = Append(printed, prime) /\ UNCHANGED trouble
              \/ /\ Idle # {}
                 /\ filt' = [filt EXCEPT ![k] = loop(0), ![Min(Idle)] = Gone]
                 /\ printed' = Append(printed, prime) /\ trouble' = TRUE

\* Mutant of filter_loop: the remainder is compared the wrong way round.
filter_loop_swap(k) ==
  /\ filt[k].at = "loop" /\ filt[k].have = 0
  /\ \/ /\ pip[k] # <<>>
        /\ pip' = [pip EXCEPT ![k] = Tail(@)]
        /\ filt' = [filt EXCEPT ![k].have =
                      IF filt[k].prime % Head(pip[k]) # 0 THEN Head(pip[k]) ELSE 0]
     \/ /\ pip[k] = <<>> /\ ~HasWriter(k)
        /\ filt' = [filt EXCEPT ![k] = [at |-> "wait", call |-> @.call,
                                        child |-> @.child, out |-> 0]]
        /\ UNCHANGED pip
  /\ UNCHANGED <<printed, trouble>>

\* filter(), the loop: read, and keep what is to be written; both ends of the
\* pipe are closed at the end.
filter_loop(k) ==
  /\ filt[k].at = "loop" /\ filt[k].have = 0
  /\ \/ /\ pip[k] # <<>>
        /\ pip' = [pip EXCEPT ![k] = Tail(@)]
        /\ filt' = [filt EXCEPT ![k].have =
                      IF Head(pip[k]) % filt[k].prime # 0 THEN Head(pip[k]) ELSE 0]
     \/ /\ pip[k] = <<>> /\ ~HasWriter(k)
        /\ filt' = [filt EXCEPT ![k] = [at |-> "wait", call |-> @.call,
                                        child |-> @.child, out |-> 0]]
        /\ UNCHANGED pip
  /\ UNCHANGED <<printed, trouble>>

filter_write(k) ==
  /\ filt[k].at = "loop" /\ filt[k].have # 0
  /\ Write(k, filt[k].out, filt[k].have, [filt[k] EXCEPT !.have = 0])
  /\ UNCHANGED <<printed, trouble>>

\* wait(NULL): returns at once without a child.
filter_wait(k) ==
  /\ filt[k].at = "wait"
  /\ filt[k].child # 0 => filt[filt[k].child].at = "gone"
  /\ filt' = [filt EXCEPT ![k] = IF k = 0 THEN Gone ELSE Returned(k)]
  /\ UNCHANGED <<pip, printed, trouble>>

SieveInit ==
  /\ filt = [k \in 0..Procs |-> IF k = 0 THEN [at |-> "main", next |-> 2, out |-> 1]
                                ELSE IF k = 1 THEN Fresh(2) ELSE None]
  /\ pip = [k \in 1..Procs |-> <<>>]
  /\ printed = <<>>
  /\ trouble = FALSE

SieveNext ==
  \/ primes \/ filter_wait(0)
  \/ \E k \in 1..Procs : filter_first(k) \/ filter_loop(k) \/ filter_write(k) \/ filter_wait(k)

SieveFair == WF_sieveVars(SieveNext)

-----------------------------------------------------------------------------
(* Properties *)

Prime(x) == x > 1 /\ \A d \in 2..(x - 1) : x % d # 0

\* However the processes of the chain interleave, the primes are printed in
\* order, none left out, each once; and once the first one is there the chain
\* comes to its end with all below N, no process waiting for another for ever.
SievePrintsPrimes ==
  /\ [](~trouble =>
          /\ \A i \in DOMAIN printed : Prime(printed[i])
          /\ \A x \in 2..(N - 1) : (printed # <<>> /\ Prime(x) /\ x < printed[Len(printed)])
                => \E i \in DOMAIN printed : printed[i] = x
          /\ \A i, j \in DOMAIN printed : i < j => printed[i] < printed[j])
  /\ (printed # <<>>) ~>
       (trouble \/ (/\ filt[0] = Gone
                    /\ {printed[i] : i \in DOMAIN printed} = {x \in 2..(N - 1) : Prime(x)}))
=============================================================================
