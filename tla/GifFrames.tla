-------------------------------- MODULE GifFrames --------------------------------
(***************************************************************************)
(* The animation of the loading screen: animatedImageWithSource makes of   *)
(* the images of a GIF, each with a delay of its own, the frames of an     *)
(* animation that shows every frame equally long.  An image is repeated as *)
(* often as the greatest common divisor of all delays fits into its own.   *)
(*                                                                         *)
(* A GIF counts delays in hundredths of a second.  ImageIO reads them as   *)
(* doubles, the delay as it is and one of its own choice for delays too    *)
(* short to be meant; it may fail to read an image.  Images are known by   *)
(* their place in the file, and equal frames in a row are counted.         *)
(***************************************************************************)
EXTENDS Integers, Sequences, SequencesExt, FiniteSetsExt

CONSTANT
  Short   \* hundredths of a second n with n / 100.0 * 1000.0 < 10 * n in doubles (201 is one)

ASSUME GifAssumption == Short \subseteq Nat /\ {0, 1} \cap Short = {}

VARIABLES
  source,  \* the images: are they readable, and their two delays
  step,    \* what is being done: "read", "divide", "repeat", "done", or the app has "stopped"
  index,   \* i, or the place of val: the element the loop of this step is at
  images,  \* the images that could be read
  delays,  \* delays in milliseconds
  pair,    \* a and b of gcdForPair while it runs, or <<>>
  gcd,     \* the greatest common divisor so far
  frames   \* the frames: an image and how often it is repeated

gif == <<source, step, index, images, delays, pair, gcd, frames>>

Image == [readable : BOOLEAN, unclamped : Nat, clamped : Nat]

Images(longest, hundredths, raised) ==
  SeqOf([readable : BOOLEAN, unclamped : hundredths, clamped : raised], longest)

GifInit(s) ==
  /\ source = s /\ step = "read" /\ index = 1
  /\ images = <<>> /\ delays = <<>>
  /\ pair = <<>> /\ gcd = 1 /\ frames = <<>>
--------------------------------------------------------------------------------
(* Mutant: a delay of nothing is kept.                                      *)
DelayUnbounded(image) == IF image.unclamped = 0 THEN image.clamped ELSE image.unclamped

(* delayForImageAtIndex: no delay is taken to be shorter than 0.01 s.       *)
Delay(image) ==
  LET delay == IF image.unclamped = 0 THEN image.clamped ELSE image.unclamped
  IN IF delay < 1 THEN 1 ELSE delay

(* Int(delaySeconds * 1000.0) cuts what is after the point.                 *)
Milliseconds(n) == IF n \in Short THEN 10 * n - 1 ELSE 10 * n

Read ==
  /\ step = "read" /\ index \in DOMAIN source
  /\ images' = IF source[index].readable THEN Append(images, index) ELSE images
  /\ delays' = Append(delays, Milliseconds(Delay(source[index])))
  /\ index' = index + 1
  /\ UNCHANGED <<source, step, pair, gcd, frames>>

(* gcdForArray begins with the first delay, or ends with 1.                 *)
AllRead ==
  /\ step = "read" /\ index \notin DOMAIN source
  /\ step' = "divide" /\ index' = 1
  /\ gcd' = IF delays = <<>> THEN 1 ELSE delays[1]
  /\ UNCHANGED <<source, images, delays, pair, frames>>

(* gcdForPair(val, gcd): the larger is divided by the smaller.              *)
Pair ==
  /\ step = "divide" /\ index \in DOMAIN delays /\ pair = <<>>
  /\ pair' = IF delays[index] < gcd THEN <<gcd, delays[index]>> ELSE <<delays[index], gcd>>
  /\ UNCHANGED <<source, step, index, images, delays, gcd, frames>>

(* One round of its loop; a remainder of nothing ends it.                   *)
Divide ==
  /\ step = "divide" /\ pair # <<>> /\ pair[2] # 0
  /\ LET rest == pair[1] % pair[2] IN
       IF rest = 0
       THEN gcd' = pair[2] /\ pair' = <<>> /\ index' = index + 1
       ELSE pair' = <<pair[2], rest>> /\ UNCHANGED <<gcd, index>>
  /\ UNCHANGED <<source, step, images, delays, frames>>

AllDivided ==
  /\ step = "divide" /\ index \notin DOMAIN delays
  /\ step' = "repeat" /\ index' = 1
  /\ UNCHANGED <<source, images, delays, pair, gcd, frames>>

Repeat ==
  /\ step = "repeat" /\ index \in DOMAIN images
  /\ frames' = Append(frames, [image |-> images[index], times |-> delays[index] \div gcd])
  /\ index' = index + 1
  /\ UNCHANGED <<source, step, images, delays, pair, gcd>>

AllRepeated ==
  /\ step = "repeat" /\ index \notin DOMAIN source
  /\ step' = "done"
  /\ UNCHANGED <<source, index, images, delays, pair, gcd, frames>>

(* A division by zero, or images[i] with an image missing: Swift stops the  *)
(* app.                                                                     *)
Stops ==
  /\ \/ step = "divide" /\ pair # <<>> /\ pair[2] = 0
     \/ step = "repeat" /\ index \in DOMAIN source \ DOMAIN images
  /\ step' = "stopped"
  /\ UNCHANGED <<source, index, images, delays, pair, gcd, frames>>

GifNext ==
  \/ Read \/ AllRead
  \/ Pair \/ Divide \/ AllDivided
  \/ Repeat \/ AllRepeated
  \/ Stops
--------------------------------------------------------------------------------
DividesAll(d) == \A i \in DOMAIN delays : delays[i] % d = 0

(* EachForItsDelay: an animation that is finished shows every image of the  *)
(* file, in order, never for nothing and any two as long, one to the other, *)
(* as their delays, so that each has its share of the duration, and no      *)
(* smaller number of frames would do; and only an image that cannot be read *)
(* stops the app on the way: no delay of nothing reaches a division         *)
(* (ServiceLogin.swift:92-179).                                             *)
EachForItsDelay ==
  /\ step = "done" =>
       /\ [i \in DOMAIN frames |-> frames[i].image] = [i \in DOMAIN source |-> i]
       /\ \A i, j \in DOMAIN frames :
            /\ frames[i].times > 0
            /\ frames[i].times * delays[j] = frames[j].times * delays[i]
       /\ \A d \in gcd + 1 .. Max({0} \cup ToSet(delays)) : ~DividesAll(d)
  /\ step = "stopped" => \E i \in DOMAIN source : ~source[i].readable
================================================================================
