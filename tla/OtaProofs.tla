----------------------------- MODULE OtaProofs -----------------------------
(* Theorems about Ota for images of any number and length. *)
EXTENDS Ota, TLAPS

\* What the information page of zone B describes, once its body is written, is
\* an image that lies behind an image.
InfoSound ==
  bInfo.body = "written" =>
    bInfo.image \in Images /\ \E j \in Images : bInfo.offset = Length[j]

\* While REBOOT writes that page, its b_info describes what is in zone B.
HeaderSound ==
  pc # "idle" =>
    /\ on = "app"
    /\ hdr.image \in Images
    /\ hdr.offset = Length[aInfo.image]
    /\ aInfo.version < hdr.version
    /\ Holds(hdr.image, hdr.offset)

\* The boot loader touches zone A only for an accepted image, and leaves it
\* only with that image in place.
BootSound ==
  /\ on = "copy" => Accepted
  /\ on \in {"app", "erase"} \/ (on = "boot" /\ ~Accepted) => Holds(aInfo.image, 0)

\* Inductive whatever the client does, late or not.
Inv == Types /\ InfoSound /\ HeaderSound /\ BootSound

\* How far REBOOT has come shows in the information page.
PartsInOrder ==
  /\ ValidComesLast
  /\ on = "app" /\ pc = "idle" /\ ~armed => bInfo.valid # "written"
  /\ pc = "erase" => bInfo.valid # "written"
  /\ pc \in {"tail", "body", "valid"} => bInfo.valid = "erased" /\ bInfo.copied = 0
  /\ pc \in {"body", "valid"} => bInfo.tail = "written"
  /\ pc = "valid" => /\ bInfo.body = "written"
                     /\ bInfo.image = hdr.image
                     /\ bInfo.offset = hdr.offset
                     /\ bInfo.version = hdr.version

\* What is accepted and not yet installed is whole and newer.
CommitSound == Accepted /\ ~Installed => Whole /\ aInfo.version < bInfo.version
InstallSound == on = "erase" => Installed

\* Inductive as long as no command comes while the watchdog runs out.
Order == PartsInOrder /\ CommitSound /\ InstallSound
-----------------------------------------------------------------------------
(* Pages. *)

\* An image fits at the start of the code area and behind any other image.
LEMMA ZonesFit ==
  ASSUME NEW i \in Images, NEW j \in Images, NEW k \in 0 .. Length[i] - 1
  PROVE  /\ Length[i] \in Nat /\ 0 < Length[i] /\ Length[i] <= Top
         /\ k \in Page /\ Length[j] + k \in Page
         /\ Length[j] \in Nat
<1>1. Length[i] \in Nat /\ Length[j] \in Nat
  BY OtaAssumption
<1>2. Length[i] + Length[j] <= Top /\ Top \in Nat
  BY OtaAssumption
<1> QED BY <1>1, <1>2 DEF Page

\* What a page can hold.
LEMMA PageContents ==
  ASSUME NEW i \in Images, NEW k \in 0 .. Length[i] - 1
  PROVE  PageOf(i, k) \in Contents /\ Erased \in Contents /\ Mixed \in Contents
BY ZonesFit DEF Contents

\* The image that runs ends where zone B begins.
LEMMA Storage ==
  ASSUME Types
  PROVE  /\ aInfo.image \in Images
         /\ StorageAddress = Length[aInfo.image]
         /\ StorageAddress \in Nat /\ StorageAddress <= Top
<1>1. aInfo.image \in Images
  BY DEF Types
<1>2. Length[aInfo.image] \in Nat /\ Length[aInfo.image] + Length[aInfo.image] <= Top /\ Top \in Nat
  BY <1>1, OtaAssumption
<1> QED BY <1>1, <1>2 DEF StorageAddress

\* A write behind the image that runs does not disturb it.
LEMMA BehindIsSafe ==
  ASSUME Types, Holds(aInfo.image, 0), UNCHANGED aInfo,
         NEW p \in Nat, StorageAddress <= p, NEW c,
         pages' = [pages EXCEPT ![p] = c]
  PROVE  Holds(aInfo.image, 0)'
<1> SUFFICES ASSUME NEW k \in 0 .. Length[aInfo.image] - 1
             PROVE  pages'[0 + k] = PageOf(aInfo.image, k)
  BY DEF Holds
<1>1. k \in Page /\ k \in Nat /\ k < StorageAddress
  BY Storage, ZonesFit DEF Page
<1>2. k # p
  BY <1>1, Storage
<1>3. pages'[k] = pages[k]
  <2>1. pages \in [Page -> Contents]
    BY DEF Types
  <2> QED BY <1>1, <1>2, <2>1
<1>4. 0 + k = k /\ pages[k] = PageOf(aInfo.image, k)
  BY <1>1 DEF Holds
<1>5. aInfo'.image = aInfo.image
  OBVIOUS
<1> QED BY <1>3, <1>4, <1>5

\* A step that leaves the pages and both information pages alone.
LEMMA FlashKept ==
  ASSUME UNCHANGED flash
  PROVE  /\ Accepted' = Accepted
         /\ Holds(aInfo.image, 0)' = Holds(aInfo.image, 0)
         /\ InfoSound' = InfoSound
BY DEF flash, Accepted, Holds, InfoSound

-----------------------------------------------------------------------------
(* Steps that preserve Inv. *)

LEMMA InitSound == Init => Inv
<1> SUFFICES ASSUME Init PROVE Inv
  OBVIOUS
<1>1. aInfo.image = Factory /\ Factory \in Images /\ NULL \notin Images
  BY OtaAssumption DEF Init
<1>2. pages \in [Page -> Contents]
  <2> SUFFICES ASSUME NEW p \in Page
               PROVE  (IF p < Length[Factory] THEN PageOf(Factory, p) ELSE Erased) \in Contents
    BY DEF Init
  <2> QED BY <1>1 DEF Contents
<1>3. Types
  <2>1. 0 \in 0 .. Top /\ 0 \in 0 .. MaxVersion /\ 0 \in 0 .. MaxFails
    BY OtaAssumption
  <2>2. aInfo \in [image : Images, version : 0 .. MaxVersion]
    BY <1>1, <2>1 DEF Init
  <2>3. bInfo \in [tail : Parts, body : Parts, valid : Parts, image : Images \cup {NULL},
                   offset : 0 .. Top, version : 0 .. MaxVersion, copied : 0 .. Top]
    BY <2>1 DEF Init, NoInfo, Parts
  <2>4. hdr \in [image : Images \cup {NULL}, offset : 0 .. Top, version : 0 .. MaxVersion]
    BY <2>1 DEF Init, NoHdr
  <2> QED BY <1>2, <2>1, <2>2, <2>3, <2>4 DEF Init, Types
<1>4. Holds(aInfo.image, 0)
  <2> SUFFICES ASSUME NEW k \in 0 .. Length[Factory] - 1
               PROVE  pages[0 + k] = PageOf(Factory, k)
    BY <1>1 DEF Holds
  <2>1. k \in Page /\ Length[Factory] \in Nat
    BY <1>1, ZonesFit
  <2>2. 0 + k = k /\ k < Length[Factory]
    BY <2>1 DEF Page
  <2> QED BY <2>1, <2>2 DEF Init
<1> QED BY <1>3, <1>4 DEF Inv, Init, InfoSound, HeaderSound, BootSound, NoInfo

\* Commands that touch neither the flash nor the handler of REBOOT.
LEMMA LinkSteps ==
  ASSUME Inv, Connect \/ LinkLost \/ EnableNotifications \/ GetStorageBase
  PROVE  Inv'
<1>1. UNCHANGED <<flash, on, pc, hdr, armed, fails>>
  BY DEF Connect, LinkLost, EnableNotifications, GetStorageBase, ram
<1>2. link' \in {"down", "up", "ntf"} /\ told' \in 0 .. Top
  BY Storage DEF Inv, Types, Connect, LinkLost, EnableNotifications, GetStorageBase, ram
<1>3. Types'
  BY <1>1, <1>2 DEF Inv, Types, flash
<1>4. HeaderSound'
  BY <1>1 DEF Inv, HeaderSound, Holds, flash
<1> QED BY <1>1, <1>3, <1>4, FlashKept DEF Inv, BootSound

\* Commands that erase or program a page.
LEMMA PageSteps ==
  ASSUME Inv, NEW p \in Nat, NEW i \in Images, NEW k \in 0 .. Length[i] - 1,
         PageErase(p) \/ WriteData(p, i, k)
  PROVE  Inv'
<1>1. /\ on = "app" /\ pc = "idle"
      /\ UNCHANGED <<aInfo, bInfo, on, pc, hdr, armed, told, fails>>
      /\ link' \in {"down", "up", "ntf"}
  BY DEF PageErase, WriteData, Serving, AppReady, ram, Inv, Types
<1>2. \/ pages' = pages
      \/ StorageAddress <= p /\ \E c \in Contents : pages' = [pages EXCEPT ![p] = c]
  <2>1. StorageAddress \in Nat
    BY Storage DEF Inv
  <2>2. CASE PageErase(p)
    BY <2>1, <2>2, PageContents DEF PageErase
  <2>3. CASE WriteData(p, i, k)
    BY <2>1, <2>3, PageContents DEF WriteData
  <2> QED BY <2>2, <2>3
<1>3. pages' \in [Page -> Contents]
  BY <1>2 DEF Inv, Types
<1>4. Types'
  BY <1>1, <1>3 DEF Inv, Types
<1>5. Holds(aInfo.image, 0)'
  <2>1. Holds(aInfo.image, 0)
    BY <1>1 DEF Inv, BootSound
  <2>2. CASE pages' = pages
    BY <2>1, <2>2, <1>1 DEF Holds
  <2>3. CASE StorageAddress <= p /\ \E c \in Contents : pages' = [pages EXCEPT ![p] = c]
    BY <2>1, <2>3, <1>1, BehindIsSafe DEF Inv
  <2> QED BY <1>2, <2>2, <2>3
<1> QED BY <1>1, <1>4, <1>5 DEF Inv, InfoSound, HeaderSound, BootSound, Accepted

\* REBOOT takes into b_info what it has verified.
LEMMA RebootStep ==
  ASSUME Inv, NEW i \in Images, Reboot(i)
  PROVE  Inv'
<1>1. on = "app" /\ pc = "idle" /\ UNCHANGED <<flash, on, link, told, fails>>
  BY DEF Reboot, Serving, AppReady
<1>2. CurrentVersion \in Nat /\ CurrentVersion + 1 \in 0 .. MaxVersion
      /\ aInfo.version < CurrentVersion + 1
  <2>1. aInfo.version \in 0 .. MaxVersion /\ bInfo.version \in 0 .. MaxVersion
    BY DEF Inv, Types
  <2>2. MaxVersion \in Nat /\ CurrentVersion < MaxVersion
    BY OtaAssumption DEF Reboot
  <2> QED BY <2>1, <2>2 DEF CurrentVersion
<1>3. CASE ~Verified(i)
  <2>1. armed' = TRUE /\ UNCHANGED <<hdr, pc>>
    BY <1>3 DEF Reboot
  <2>2. Types'
    BY <1>1, <2>1 DEF Inv, Types, flash
  <2> QED BY <1>1, <2>1, <2>2, FlashKept DEF Inv, HeaderSound, BootSound
<1>4. CASE Verified(i)
  <2>1. /\ hdr' = [image |-> i, offset |-> StorageAddress, version |-> CurrentVersion + 1]
        /\ pc' = "erase" /\ UNCHANGED armed
    BY <1>4 DEF Reboot
  <2>2. Types'
    BY <1>1, <1>2, <2>1, Storage DEF Inv, Types, flash
  <2>3. HeaderSound'
    BY <1>1, <1>2, <1>4, <2>1, Storage DEF Inv, HeaderSound, Holds, Verified, flash
  <2> QED BY <1>1, <2>2, <2>3, FlashKept DEF Inv, BootSound
<1> QED BY <1>3, <1>4

\* The four flash operations on the information page, and the reset.
LEMMA HeaderSteps ==
  ASSUME Inv, Header
  PROVE  Inv'
<1>1. /\ on = "app" /\ pc # "idle"
      /\ UNCHANGED <<pages, aInfo, on, link, told, fails>>
  BY DEF Header, HeaderErase, HeaderTail, HeaderBody, HeaderValid, ChipReset, HeaderAt, flash
<1>2. Holds(aInfo.image, 0)'
  BY <1>1 DEF Inv, BootSound, Holds
<1>3. BootSound'
  BY <1>1, <1>2 DEF BootSound
<1>4. hdr \in [image : Images \cup {NULL}, offset : 0 .. Top, version : 0 .. MaxVersion]
  BY DEF Inv, Types
<1>5. CASE HeaderErase
  <2>1. bInfo' = NoInfo /\ pc' = "tail" /\ UNCHANGED <<hdr, armed>>
    BY <1>5 DEF HeaderErase
  <2>2. Types'
    BY <1>1, <2>1, OtaAssumption DEF Inv, Types, NoInfo, Parts
  <2>3. HeaderSound'
    BY <1>1, <2>1 DEF Inv, HeaderSound, Holds
  <2>4. InfoSound'
    BY <2>1 DEF InfoSound, NoInfo
  <2> QED BY <1>3, <2>2, <2>3, <2>4 DEF Inv
<1>6. CASE HeaderTail
  <2>1. bInfo' = [bInfo EXCEPT !.tail = "written"] /\ pc' = "body" /\ UNCHANGED <<hdr, armed>>
    BY <1>6 DEF HeaderTail
  <2>2. Types'
    BY <1>1, <2>1 DEF Inv, Types, Parts
  <2>3. HeaderSound'
    BY <1>1, <2>1 DEF Inv, HeaderSound, Holds
  <2>4. InfoSound'
    BY <2>1 DEF Inv, Types, InfoSound
  <2> QED BY <1>3, <2>2, <2>3, <2>4 DEF Inv
<1>7. CASE HeaderBody
  <2>1. /\ bInfo' = [bInfo EXCEPT !.body = "written", !.image = hdr.image,
                                  !.offset = hdr.offset, !.version = hdr.version]
        /\ pc' = "valid" /\ UNCHANGED <<hdr, armed>>
    BY <1>7 DEF HeaderBody
  <2>2. Types'
    BY <1>1, <1>4, <2>1 DEF Inv, Types, Parts
  <2>3. HeaderSound'
    BY <1>1, <2>1 DEF Inv, HeaderSound, Holds
  <2>4. bInfo'.image = hdr.image /\ bInfo'.offset = hdr.offset
    BY <2>1 DEF Inv, Types
  <2>5. InfoSound'
    BY <1>1, <2>4, Storage DEF Inv, HeaderSound, InfoSound
  <2> QED BY <1>3, <2>2, <2>3, <2>5 DEF Inv
<1>8. CASE HeaderValid
  <2>1. bInfo' = [bInfo EXCEPT !.valid = "written"] /\ pc' = "reset" /\ UNCHANGED <<hdr, armed>>
    BY <1>8 DEF HeaderValid
  <2>2. Types'
    BY <1>1, <2>1 DEF Inv, Types, Parts
  <2>3. HeaderSound'
    BY <1>1, <2>1 DEF Inv, HeaderSound, Holds
  <2>4. InfoSound'
    BY <2>1 DEF Inv, Types, InfoSound
  <2> QED BY <1>3, <2>2, <2>3, <2>4 DEF Inv
<1>9. CASE ChipReset
  <2>1. pc' = "idle" /\ armed' = TRUE /\ hdr' = NoHdr /\ UNCHANGED flash
    BY <1>9 DEF ChipReset
  <2>2. Types'
    BY <1>1, <2>1, OtaAssumption DEF Inv, Types, NoHdr, flash
  <2>3. InfoSound' /\ HeaderSound'
    BY <2>1, FlashKept DEF Inv, HeaderSound
  <2> QED BY <1>3, <2>2, <2>3 DEF Inv
<1> QED BY <1>5, <1>6, <1>7, <1>8, <1>9 DEF Header

\* The chip is reset by the watchdog or by a power failure.  Flash may have been
\* hit where the step says; zone A is hit only by the boot loader.
LEMMA OffKeeps ==
  ASSUME Inv, Off, UNCHANGED <<aInfo, told>>, fails' \in 0 .. MaxFails,
         pages' \in [Page -> Contents],
         bInfo' \in [tail : Parts, body : Parts, valid : Parts,
                     image : Images \cup {NULL}, offset : 0 .. Top,
                     version : 0 .. MaxVersion, copied : 0 .. Top],
         InfoSound', Accepted' \/ Holds(aInfo.image, 0)'
  PROVE  Inv'
<1>1. on' = "boot" /\ pc' = "idle" /\ hdr' = NoHdr /\ armed' = FALSE /\ link' = "down"
  BY DEF Off
<1>2. NoHdr \in [image : Images \cup {NULL}, offset : 0 .. Top, version : 0 .. MaxVersion]
  BY OtaAssumption DEF NoHdr
<1>3. Types'
  BY <1>1, <1>2 DEF Inv, Types
<1>4. HeaderSound' /\ BootSound'
  BY <1>1 DEF HeaderSound, BootSound
<1> QED BY <1>3, <1>4 DEF Inv

\* Zone A holds the image that runs unless the boot loader has an accepted one.
LEMMA HeldOrAccepted == Inv => Accepted \/ Holds(aInfo.image, 0)
BY DEF Inv, Types, BootSound

LEMMA ResetSteps ==
  ASSUME Inv, Watchdog \/ Power
  PROVE  Inv'
<1>1. /\ Off /\ UNCHANGED <<aInfo, told>>
      /\ fails' \in 0 .. MaxFails
  <2>1. fails \in 0 .. MaxFails /\ MaxFails \in Nat
    BY OtaAssumption DEF Inv, Types
  <2> QED BY <2>1 DEF Watchdog, Power, PowerFails, PowerFailsOnPage, PowerFailsOnHeader,
               PowerFailsOnCopy, Fails, flash
<1>2. /\ pages \in [Page -> Contents]
      /\ bInfo \in [tail : Parts, body : Parts, valid : Parts,
                    image : Images \cup {NULL}, offset : 0 .. Top,
                    version : 0 .. MaxVersion, copied : 0 .. Top]
      /\ InfoSound
  BY DEF Inv, Types
<1>3. CASE Watchdog \/ PowerFails
  <2>1. UNCHANGED flash
    BY <1>1, <1>3 DEF Watchdog, PowerFails, flash
  <2>2. pages' = pages /\ bInfo' = bInfo
    BY <2>1 DEF flash
  <2> QED BY <1>1, <1>2, <2>1, <2>2, OffKeeps, HeldOrAccepted, FlashKept
<1>4. CASE PowerFailsOnPage
  <2>1. on = "app" /\ bInfo' = bInfo
    BY <1>4 DEF PowerFailsOnPage, Serving, AppReady
  <2>2. PICK p \in Page : StorageAddress <= p /\ pages' = [pages EXCEPT ![p] = Mixed]
    BY <1>4, Storage DEF PowerFailsOnPage, Page, Inv
  <2>3. Holds(aInfo.image, 0)'
    <3>1. Holds(aInfo.image, 0) /\ p \in Nat
      BY <2>1 DEF Inv, BootSound, Page
    <3> QED BY <1>1, <2>2, <3>1, BehindIsSafe DEF Inv
  <2>4. pages' \in [Page -> Contents]
    BY <1>2, <2>2 DEF Contents
  <2>5. InfoSound'
    BY <1>2, <2>1 DEF InfoSound
  <2> QED BY <1>1, <1>2, <2>1, <2>3, <2>4, <2>5, OffKeeps
<1>5. CASE PowerFailsOnHeader
  <2>1. on = "app" /\ pages' = pages
    BY <1>5 DEF PowerFailsOnHeader
  <2>2. PICK part \in {"tail", "body", "valid"} : bInfo' = [bInfo EXCEPT ![part] = "torn"]
    BY <1>5 DEF PowerFailsOnHeader, Tear
  <2>3. /\ bInfo' \in [tail : Parts, body : Parts, valid : Parts,
                      image : Images \cup {NULL}, offset : 0 .. Top,
                      version : 0 .. MaxVersion, copied : 0 .. Top]
        /\ bInfo'.image = bInfo.image /\ bInfo'.offset = bInfo.offset
        /\ bInfo'.body = "written" => bInfo.body = "written"
    BY <1>2, <2>2 DEF Parts
  <2>4. InfoSound'
    BY <1>2, <2>3 DEF InfoSound
  <2>5. Holds(aInfo.image, 0)'
    BY <1>1, <2>1 DEF Inv, BootSound, Holds
  <2> QED BY <1>1, <1>2, <2>1, <2>3, <2>4, <2>5, OffKeeps
<1>6. CASE PowerFailsOnCopy
  <2>1. on = "copy" /\ bInfo' = bInfo /\ pages' = [pages EXCEPT ![bInfo.copied] = Mixed]
    BY <1>6 DEF PowerFailsOnCopy
  <2>2. Accepted'
    BY <2>1 DEF Inv, BootSound, Accepted
  <2>3. pages' \in [Page -> Contents]
    <3>1. Mixed \in Contents
      BY DEF Contents
    <3> QED BY <1>2, <2>1, <3>1
  <2>4. InfoSound'
    BY <1>2, <2>1 DEF InfoSound
  <2> QED BY <1>1, <1>2, <2>1, <2>2, <2>3, <2>4, OffKeeps
<1> QED BY <1>3, <1>4, <1>5, <1>6 DEF Power

\* An accepted image and where it lies.
LEMMA AcceptedFits ==
  ASSUME Inv, Accepted
  PROVE  /\ bInfo.image \in Images
         /\ \E j \in Images : bInfo.offset = Length[j]
         /\ bInfo.copied \in Nat /\ Length[bInfo.image] \in Nat /\ Length[bInfo.image] <= Top
<1>1. bInfo.image \in Images /\ \E j \in Images : bInfo.offset = Length[j]
  BY DEF Inv, InfoSound, Accepted
<1>2. bInfo.copied \in 0 .. Top /\ Top \in Nat
  BY OtaAssumption DEF Inv, Types
<1>3. Length[bInfo.image] \in Nat /\ Length[bInfo.image] + Length[bInfo.image] <= Top
  BY <1>1, OtaAssumption
<1> QED BY <1>1, <1>2, <1>3

LEMMA BootLoaderSteps ==
  ASSUME Inv, BootLoader
  PROVE  Inv'
<1>1. /\ UNCHANGED <<pc, hdr, armed, link, told, fails>>
      /\ on # "app" /\ pc = "idle"
  BY DEF BootLoader, Boot, BootCopies, BootInstalls, BootErases, ram, Inv, HeaderSound
<1>2. HeaderSound'
  BY <1>1 DEF HeaderSound
<1>3. CASE Boot
  <2>1. UNCHANGED flash /\ on = "boot" /\ on' = IF Accepted THEN "copy" ELSE "app"
    BY <1>3 DEF Boot
  <2>2. Types'
    BY <1>1, <2>1 DEF Inv, Types, flash
  <2>3. Accepted' = Accepted /\ Holds(aInfo.image, 0)' = Holds(aInfo.image, 0)
        /\ InfoSound'
    BY <2>1, FlashKept DEF Inv
  <2>4. ~Accepted => Holds(aInfo.image, 0)
    BY <2>1 DEF Inv, BootSound
  <2>5. CASE Accepted
    BY <1>2, <2>1, <2>2, <2>3, <2>5 DEF Inv, BootSound
  <2>6. CASE ~Accepted
    BY <1>2, <2>1, <2>2, <2>3, <2>4, <2>6 DEF Inv, BootSound
  <2> QED BY <2>5, <2>6
<1>4. CASE BootCopies
  <2>1. /\ on = "copy" /\ on' = on /\ aInfo' = aInfo
        /\ bInfo.copied < Length[bInfo.image]
        /\ pages' = [pages EXCEPT ![bInfo.copied] = pages[bInfo.offset + bInfo.copied]]
        /\ bInfo' = [bInfo EXCEPT !.copied = @ + 1]
    BY <1>4 DEF BootCopies
  <2>2. Accepted
    BY <2>1 DEF Inv, BootSound
  <2>3. pages[bInfo.offset + bInfo.copied] \in Contents
    <3>1. PICK j \in Images : bInfo.offset = Length[j]
      BY <2>2, AcceptedFits
    <3>2. bInfo.image \in Images /\ bInfo.copied \in 0 .. Length[bInfo.image] - 1
      BY <2>1, <2>2, AcceptedFits
    <3> QED BY <3>1, <3>2, ZonesFit DEF Inv, Types
  <2>4. pages' \in [Page -> Contents]
    BY <2>1, <2>3 DEF Inv, Types
  <2>5. bInfo.copied + 1 \in 0 .. Top
    BY <2>1, <2>2, AcceptedFits, OtaAssumption
  <2>6. Types'
    BY <1>1, <2>1, <2>4, <2>5 DEF Inv, Types
  <2>7. /\ bInfo'.body = bInfo.body /\ bInfo'.tail = bInfo.tail /\ bInfo'.valid = bInfo.valid
        /\ bInfo'.image = bInfo.image /\ bInfo'.offset = bInfo.offset
    BY <2>1 DEF Inv, Types
  <2>8. InfoSound' /\ Accepted'
    BY <2>2, <2>7 DEF Inv, InfoSound, Accepted
  <2>9. BootSound'
    BY <2>1, <2>8 DEF BootSound
  <2> QED BY <1>2, <2>6, <2>8, <2>9 DEF Inv
<1>5. CASE BootInstalls
  <2>1. on = "copy" /\ UNCHANGED <<pages, bInfo>>
    BY <1>5 DEF BootInstalls
  <2>2. Accepted /\ Accepted'
    BY <2>1 DEF Inv, BootSound, Accepted
  <2>3. InfoSound'
    BY <2>1 DEF Inv, InfoSound
  <2>4. CASE Holds(bInfo.image, 0)
    <3>1. on' = "erase" /\ aInfo' = [image |-> bInfo.image, version |-> bInfo.version]
      BY <1>5, <2>4 DEF BootInstalls
    <3>2. bInfo.image \in Images /\ bInfo.version \in 0 .. MaxVersion
      BY <2>2, AcceptedFits DEF Inv, Types
    <3>3. Types'
      BY <1>1, <2>1, <3>1, <3>2 DEF Inv, Types
    <3>4. Holds(aInfo.image, 0)'
      BY <2>1, <2>4, <3>1 DEF Holds
    <3> QED BY <1>2, <2>3, <3>1, <3>3, <3>4 DEF Inv, BootSound
  <2>5. CASE ~Holds(bInfo.image, 0)
    <3>1. on' = "boot" /\ aInfo' = aInfo
      BY <1>5, <2>5 DEF BootInstalls
    <3>2. Types'
      BY <1>1, <2>1, <3>1 DEF Inv, Types
    <3> QED BY <1>2, <2>2, <2>3, <3>1, <3>2 DEF Inv, BootSound
  <2> QED BY <2>4, <2>5
<1>6. CASE BootErases
  <2>1. on = "erase" /\ bInfo' = NoInfo /\ on' = "app" /\ UNCHANGED <<pages, aInfo>>
    BY <1>6 DEF BootErases
  <2>2. NoInfo \in [tail : Parts, body : Parts, valid : Parts,
                   image : Images \cup {NULL}, offset : 0 .. Top,
                   version : 0 .. MaxVersion, copied : 0 .. Top]
    BY OtaAssumption DEF NoInfo, Parts
  <2>3. Types'
    BY <1>1, <2>1, <2>2 DEF Inv, Types
  <2>4. Holds(aInfo.image, 0)'
    BY <2>1 DEF Inv, BootSound, Holds
  <2>5. InfoSound'
    BY <2>1 DEF InfoSound, NoInfo
  <2> QED BY <1>2, <2>1, <2>3, <2>4, <2>5 DEF Inv, BootSound
<1> QED BY <1>3, <1>4, <1>5, <1>6 DEF BootLoader

-----------------------------------------------------------------------------
(* RunsIntact, whatever pages the client erases and writes and whenever. *)

LEMMA NextKeepsInv ==
  ASSUME Inv, [Next]_vars
  PROVE  Inv'
<1>1. CASE Client
  <2>1. CASE Connect \/ LinkLost \/ EnableNotifications \/ GetStorageBase
    BY <2>1, LinkSteps
  <2>2. CASE \E i \in Images : Reboot(i)
    BY <2>2, RebootStep
  <2>3. CASE \E i \in Images : \E k \in 0 .. Length[i] - 1 :
               PageErase(told + k) \/ WriteData(told + k, i, k)
    <3>1. PICK i \in Images : \E k \in 0 .. Length[i] - 1 :
               PageErase(told + k) \/ WriteData(told + k, i, k)
      BY <2>3
    <3>2. PICK k \in 0 .. Length[i] - 1 : PageErase(told + k) \/ WriteData(told + k, i, k)
      BY <3>1
    <3>3. told + k \in Nat
      BY ZonesFit, OtaAssumption DEF Inv, Types, Page
    <3> QED BY <3>2, <3>3, PageSteps
  <2> QED BY <1>1, <2>1, <2>2, <2>3 DEF Client
<1>2. CASE Header
  BY <1>2, HeaderSteps
<1>3. CASE Watchdog \/ Power
  BY <1>3, ResetSteps
<1>4. CASE BootLoader
  BY <1>4, BootLoaderSteps
<1>5. CASE UNCHANGED vars
  BY <1>5 DEF Inv, Types, InfoSound, HeaderSound, BootSound, Holds, Accepted,
              vars, flash, ram
<1> QED BY <1>1, <1>2, <1>3, <1>4, <1>5 DEF Next

LEMMA InvHolds == Spec => []Inv
<1>1. Init => Inv
  BY InitSound
<1>2. Inv /\ [Next]_vars => Inv'
  BY NextKeepsInv
<1> QED BY <1>1, <1>2, PTL DEF Spec

\* The code that runs is complete, for images of any number and length but 0,
\* whatever pages a client erases and writes, with however old a storage address,
\* while the watchdog runs out too, and wherever power fails.
THEOREM AlwaysIntact == ASSUME NoEmptyImage PROVE Spec => []RunsIntact
<1>1. Inv => RunsIntact
  <2> SUFFICES ASSUME Inv, on = "app" PROVE aInfo.image \in Images /\ Holds(aInfo.image, 0)
    BY DEF RunsIntact, NoEmptyImage
  <2> QED BY Storage DEF Inv, BootSound
<1> QED BY <1>1, InvHolds, PTL

-----------------------------------------------------------------------------
(* The order in which REBOOT writes the flash. *)

\* Copying a page forward does not lose a page that is still to be copied: zone B
\* begins behind an image that is not empty.
LEMMA CopyKeepsWhole ==
  ASSUME NoEmptyImage, Inv, Accepted, Whole, NEW v,
         bInfo.copied < Length[bInfo.image],
         pages' = [pages EXCEPT ![bInfo.copied] = v],
         bInfo'.image = bInfo.image, bInfo'.offset = bInfo.offset,
         \/ bInfo'.copied = bInfo.copied
         \/ bInfo'.copied = bInfo.copied + 1 /\ v = pages[bInfo.offset + bInfo.copied]
  PROVE  Whole'
<1> DEFINE c == bInfo.copied
<1> SUFFICES ASSUME NEW k \in 0 .. Length[bInfo.image] - 1
             PROVE  pages'[IF k < bInfo'.copied THEN k ELSE bInfo.offset + k]
                      = PageOf(bInfo.image, k)
  BY DEF Whole
<1>1. PICK j \in Images : bInfo.offset = Length[j]
  BY AcceptedFits
<1>2. /\ bInfo.image \in Images /\ c \in 0 .. Length[bInfo.image] - 1
      /\ bInfo.offset \in Nat /\ 0 < bInfo.offset /\ c \in Nat /\ k \in Nat
      /\ k \in Page /\ c \in Page /\ bInfo.offset + k \in Page
  <2>1. bInfo.image \in Images /\ c \in 0 .. Length[bInfo.image] - 1
    BY AcceptedFits
  <2>2. k \in Page /\ bInfo.offset + k \in Page /\ bInfo.offset \in Nat /\ 0 < bInfo.offset
    BY <1>1, <2>1, ZonesFit DEF NoEmptyImage
  <2>3. c \in Page
    BY <2>1, ZonesFit
  <2> QED BY <2>1, <2>2, <2>3 DEF Page
<1>3. pages[IF k < c THEN k ELSE bInfo.offset + k] = PageOf(bInfo.image, k)
  BY DEF Whole
<1>4. pages \in [Page -> Contents]
  BY DEF Inv, Types
<1>5. \A x \in Page : x # c => pages'[x] = pages[x]
  BY <1>4
<1>6. pages'[c] = v
  BY <1>2, <1>4
<1>7. CASE k < c
  <2>1. k < bInfo'.copied /\ k # c
    BY <1>2, <1>7
  <2> QED BY <1>2, <1>3, <1>5, <1>7, <2>1
<1>8. CASE ~(k < c) /\ ~(k < bInfo'.copied)
  <2>1. bInfo.offset + k # c
    BY <1>2, <1>8
  <2> QED BY <1>2, <1>3, <1>5, <1>8, <2>1
<1>9. CASE ~(k < c) /\ k < bInfo'.copied
  <2>1. k = c /\ bInfo'.copied = c + 1 /\ v = pages[bInfo.offset + c]
    BY <1>2, <1>9
  <2> QED BY <1>3, <1>6, <1>9, <2>1
<1> QED BY <1>7, <1>8, <1>9

\* What Order says depends on nothing else.
LEMMA OrderFrame ==
  ASSUME Order, UNCHANGED <<flash, on, pc, hdr, armed>>
  PROVE  Order'
BY DEF Order, PartsInOrder, CommitSound, InstallSound, ValidComesLast, Accepted,
       Installed, Whole, flash

\* Nothing is accepted while the application takes commands.
LEMMA NothingAccepted ==
  ASSUME ~LateCommands, Order, AppReady
  PROVE  bInfo.valid # "written" /\ on = "app" /\ pc = "idle" /\ ~armed
BY DEF Order, PartsInOrder, AppReady

LEMMA ClientKeepsOrder ==
  ASSUME ~LateCommands, Inv, Order, Client
  PROVE  Order'
<1>1. CASE Connect \/ LinkLost \/ EnableNotifications \/ GetStorageBase
  <2>1. UNCHANGED <<flash, on, pc, hdr, armed>>
    BY <1>1 DEF Connect, LinkLost, EnableNotifications, GetStorageBase, ram
  <2> QED BY <2>1, OrderFrame
<1>2. ASSUME NEW i \in Images, Reboot(i)
      PROVE  Order'
  <2>1. /\ bInfo.valid # "written" /\ on = "app" /\ UNCHANGED <<flash, on>>
        /\ pc' = "erase" \/ (pc' = pc /\ armed' = TRUE)
        /\ pc = "idle"
    BY <1>2, NothingAccepted DEF Reboot, Serving
  <2>2. PartsInOrder'
    BY <2>1 DEF Order, PartsInOrder, ValidComesLast, flash
  <2>3. CommitSound' /\ InstallSound'
    BY <2>1 DEF Order, CommitSound, InstallSound, Accepted, Installed, Whole, flash
  <2> QED BY <2>2, <2>3 DEF Order
<1>3. ASSUME NEW p, NEW i, NEW k, PageErase(p) \/ WriteData(p, i, k)
      PROVE  Order'
  <2>1. /\ bInfo.valid # "written" /\ on = "app" /\ pc = "idle"
        /\ UNCHANGED <<aInfo, bInfo, on, pc, hdr, armed>>
    BY <1>3, NothingAccepted DEF PageErase, WriteData, Serving, ram
  <2>2. PartsInOrder'
    BY <2>1 DEF Order, PartsInOrder, ValidComesLast
  <2>3. CommitSound' /\ InstallSound'
    BY <2>1 DEF CommitSound, InstallSound, Accepted
  <2> QED BY <2>2, <2>3 DEF Order
<1> QED BY <1>1, <1>2, <1>3 DEF Client

LEMMA HeaderKeepsOrder ==
  ASSUME Inv, Order, Header
  PROVE  Order'
<1>1. /\ on = "app" /\ on' = on /\ UNCHANGED <<pages, aInfo>> /\ pc # "idle"
      /\ bInfo \in [tail : Parts, body : Parts, valid : Parts,
                    image : Images \cup {NULL}, offset : 0 .. Top,
                    version : 0 .. MaxVersion, copied : 0 .. Top]
  BY DEF Header, HeaderErase, HeaderTail, HeaderBody, HeaderValid, ChipReset, HeaderAt,
         flash, Inv, Types
<1>2. InstallSound'
  BY <1>1 DEF InstallSound
<1>3. CASE HeaderErase
  <2>1. bInfo' = NoInfo /\ pc' = "tail"
    BY <1>3 DEF HeaderErase
  <2> QED BY <1>2, <2>1 DEF Order, PartsInOrder, ValidComesLast, CommitSound, Accepted, NoInfo
<1>4. CASE HeaderTail
  <2>1. pc = "tail" /\ pc' = "body" /\ bInfo' = [bInfo EXCEPT !.tail = "written"]
    BY <1>4 DEF HeaderTail, HeaderAt
  <2>2. bInfo'.valid = "erased" /\ bInfo'.copied = 0 /\ bInfo'.tail = "written"
    BY <1>1, <2>1 DEF Order, PartsInOrder
  <2> QED BY <1>2, <2>1, <2>2 DEF Order, PartsInOrder, ValidComesLast, CommitSound, Accepted
<1>5. CASE HeaderBody
  <2>1. /\ pc = "body" /\ pc' = "valid" /\ hdr' = hdr
        /\ bInfo' = [bInfo EXCEPT !.body = "written", !.image = hdr.image,
                                  !.offset = hdr.offset, !.version = hdr.version]
    BY <1>5 DEF HeaderBody, HeaderAt
  <2>2. /\ bInfo'.valid = "erased" /\ bInfo'.copied = 0 /\ bInfo'.tail = "written"
        /\ bInfo'.body = "written" /\ bInfo'.image = hdr.image
        /\ bInfo'.offset = hdr.offset /\ bInfo'.version = hdr.version
    BY <1>1, <2>1 DEF Order, PartsInOrder
  <2> QED BY <1>2, <2>1, <2>2 DEF Order, PartsInOrder, ValidComesLast, CommitSound, Accepted
<1>6. CASE HeaderValid
  <2>1. pc = "valid" /\ pc' = "reset" /\ bInfo' = [bInfo EXCEPT !.valid = "written"]
    BY <1>6 DEF HeaderValid, HeaderAt
  <2>2. /\ bInfo.copied = 0 /\ bInfo.tail = "written" /\ bInfo.body = "written"
        /\ bInfo.image = hdr.image /\ bInfo.offset = hdr.offset
        /\ bInfo.version = hdr.version
    BY <2>1 DEF Order, PartsInOrder
  <2>3. /\ bInfo'.copied = 0 /\ bInfo'.tail = "written" /\ bInfo'.body = "written"
        /\ bInfo'.image = hdr.image /\ bInfo'.offset = hdr.offset
        /\ bInfo'.version = hdr.version
    BY <1>1, <2>1, <2>2
  <2>4. /\ hdr.image \in Images /\ Holds(hdr.image, hdr.offset)
        /\ aInfo.version < hdr.version
    BY <1>1 DEF Inv, HeaderSound
  <2>5. Whole'
    <3> SUFFICES ASSUME NEW k \in 0 .. Length[hdr.image] - 1
                 PROVE  pages[IF k < 0 THEN k ELSE hdr.offset + k] = PageOf(hdr.image, k)
      BY <1>1, <2>3 DEF Whole
    <3>1. ~(k < 0)
      BY <2>4, ZonesFit DEF Page
    <3> QED BY <2>4, <3>1 DEF Holds
  <2>6. PartsInOrder'
    BY <2>1, <2>3 DEF PartsInOrder, ValidComesLast
  <2> QED BY <1>1, <1>2, <2>3, <2>4, <2>5, <2>6 DEF Order, CommitSound
<1>7. CASE ChipReset
  <2>1. pc' = "idle" /\ armed' = TRUE /\ UNCHANGED flash
    BY <1>7 DEF ChipReset
  <2>2. PartsInOrder'
    BY <2>1 DEF Order, PartsInOrder, ValidComesLast, flash
  <2>3. CommitSound'
    BY <2>1 DEF Order, CommitSound, Accepted, Installed, Whole, flash
  <2> QED BY <1>2, <2>2, <2>3 DEF Order
<1> QED BY <1>3, <1>4, <1>5, <1>6, <1>7 DEF Header

LEMMA ResetKeepsOrder ==
  ASSUME NoEmptyImage, ~LateCommands, Inv, Order, Watchdog \/ Power
  PROVE  Order'
<1>1. on' = "boot" /\ pc' = "idle" /\ aInfo' = aInfo
  BY DEF Watchdog, Power, PowerFails, PowerFailsOnPage, PowerFailsOnHeader,
         PowerFailsOnCopy, Fails, Off, flash
<1>2. InstallSound'
  BY <1>1 DEF InstallSound
<1>3. ASSUME ValidComesLast', CommitSound'
      PROVE  Order'
  BY <1>1, <1>2, <1>3 DEF Order, PartsInOrder
<1>4. CASE Watchdog \/ PowerFails
  <2>1. UNCHANGED flash
    BY <1>1, <1>4 DEF Watchdog, PowerFails, flash
  <2> QED BY <1>3, <2>1 DEF Order, PartsInOrder, ValidComesLast, CommitSound, Accepted,
                           Installed, Whole, flash
<1>5. CASE PowerFailsOnPage
  <2>1. bInfo' = bInfo /\ bInfo.valid # "written"
    BY <1>5, NothingAccepted DEF PowerFailsOnPage, Serving
  <2> QED BY <1>3, <2>1 DEF ValidComesLast, CommitSound, Accepted
<1>6. CASE PowerFailsOnHeader
  <2>1. /\ bInfo.valid # "written" \/ pc = "valid"
        /\ \E part \in {"tail", "body", "valid"} :
              /\ bInfo' = [bInfo EXCEPT ![part] = "torn"]
              /\ pc = "valid" => part = "valid"
    BY <1>6 DEF PowerFailsOnHeader, Tear, Order, PartsInOrder
  <2>2. bInfo'.valid # "written"
    BY <2>1 DEF Inv, Types
  <2> QED BY <1>3, <2>2 DEF ValidComesLast, CommitSound, Accepted
<1>7. CASE PowerFailsOnCopy
  <2>1. /\ on = "copy" /\ bInfo' = bInfo /\ bInfo.copied < Length[bInfo.image]
        /\ pages' = [pages EXCEPT ![bInfo.copied] = Mixed]
    BY <1>7 DEF PowerFailsOnCopy
  <2>2. Accepted /\ Accepted' /\ (Installed' <=> Installed)
    BY <1>1, <2>1 DEF Inv, BootSound, Accepted, Installed
  <2>3. Whole => Whole'
    BY <2>1, <2>2, CopyKeepsWhole
  <2>4. CommitSound'
    BY <1>1, <2>1, <2>2, <2>3 DEF Order, CommitSound
  <2>5. ValidComesLast'
    BY <2>1 DEF Order, PartsInOrder, ValidComesLast
  <2> QED BY <1>3, <2>4, <2>5
<1> QED BY <1>4, <1>5, <1>6, <1>7 DEF Power

LEMMA BootLoaderKeepsOrder ==
  ASSUME NoEmptyImage, Inv, Order, BootLoader
  PROVE  Order'
<1>1. on # "app" /\ pc' = "idle"
  BY DEF BootLoader, Boot, BootCopies, BootInstalls, BootErases, ram, Inv, HeaderSound
<1>2. CASE Boot
  <2>1. UNCHANGED flash /\ on' = IF Accepted THEN "copy" ELSE "app"
    BY <1>2 DEF Boot
  <2>2. on' = "app" => bInfo'.valid # "written"
    BY <2>1 DEF Order, PartsInOrder, ValidComesLast, Accepted, flash
  <2>3. PartsInOrder'
    BY <1>1, <2>1, <2>2 DEF Order, PartsInOrder, ValidComesLast, flash
  <2>4. CommitSound' /\ InstallSound'
    BY <2>1 DEF Order, CommitSound, InstallSound, Accepted, Installed, Whole, flash
  <2> QED BY <2>3, <2>4 DEF Order
<1>3. CASE BootCopies
  <2>1. /\ on = "copy" /\ on' = on /\ aInfo' = aInfo
        /\ bInfo.copied < Length[bInfo.image]
        /\ pages' = [pages EXCEPT ![bInfo.copied] = pages[bInfo.offset + bInfo.copied]]
        /\ bInfo' = [bInfo EXCEPT !.copied = @ + 1]
    BY <1>3 DEF BootCopies
  <2>2. /\ bInfo'.body = bInfo.body /\ bInfo'.tail = bInfo.tail /\ bInfo'.valid = bInfo.valid
        /\ bInfo'.image = bInfo.image /\ bInfo'.offset = bInfo.offset
        /\ bInfo'.version = bInfo.version /\ bInfo'.copied = bInfo.copied + 1
    BY <2>1 DEF Inv, Types
  <2>3. Accepted /\ (Installed' <=> Installed)
    BY <2>1, <2>2 DEF Inv, BootSound, Installed
  <2>4. Whole => Whole'
    BY <2>1, <2>2, <2>3, CopyKeepsWhole
  <2>5. CommitSound'
    BY <2>1, <2>2, <2>3, <2>4 DEF Order, CommitSound
  <2> QED BY <1>1, <2>1, <2>2, <2>5 DEF Order, PartsInOrder, ValidComesLast, InstallSound
<1>4. CASE BootInstalls
  <2>1. UNCHANGED <<pages, bInfo>> /\ on' \in {"erase", "boot"}
    BY <1>4 DEF BootInstalls
  <2>2. PartsInOrder'
    BY <1>1, <2>1 DEF Order, PartsInOrder, ValidComesLast
  <2>3. CASE Holds(bInfo.image, 0)
    <3>1. aInfo' = [image |-> bInfo.image, version |-> bInfo.version]
      BY <1>4, <2>3 DEF BootInstalls
    <3>2. Installed'
      BY <2>1, <3>1 DEF Installed
    <3> QED BY <2>2, <3>2 DEF Order, CommitSound, InstallSound
  <2>4. CASE ~Holds(bInfo.image, 0)
    <3>1. on' = "boot" /\ aInfo' = aInfo
      BY <1>4, <2>4 DEF BootInstalls
    <3> QED BY <2>1, <2>2, <3>1 DEF Order, CommitSound, InstallSound, Accepted, Installed, Whole
  <2> QED BY <2>3, <2>4
<1>5. CASE BootErases
  <2>1. bInfo' = NoInfo /\ on' = "app"
    BY <1>5 DEF BootErases
  <2> QED BY <1>1, <2>1 DEF Order, PartsInOrder, ValidComesLast, CommitSound, InstallSound,
                           Accepted, NoInfo
<1> QED BY <1>2, <1>3, <1>4, <1>5 DEF BootLoader

LEMMA NextKeepsOrder ==
  ASSUME NoEmptyImage, ~LateCommands, Inv, Order, [Next]_vars
  PROVE  Order'
<1>1. CASE UNCHANGED vars
  <2>1. UNCHANGED <<flash, on, pc, hdr, armed>>
    BY <1>1 DEF vars, ram
  <2> QED BY <2>1, OrderFrame
<1> QED BY <1>1, ClientKeepsOrder, HeaderKeepsOrder, ResetKeepsOrder, BootLoaderKeepsOrder
        DEF Next

LEMMA OrderHolds == ASSUME NoEmptyImage, ~LateCommands PROVE Spec => [](Inv /\ Order)
<1>1. Init => Inv /\ Order
  BY InitSound DEF Init, Order, PartsInOrder, ValidComesLast, CommitSound, InstallSound,
                   Accepted, NoInfo
<1>2. Inv /\ Order /\ [Next]_vars => (Inv /\ Order)'
  BY NextKeepsInv, NextKeepsOrder
<1> QED BY <1>1, <1>2, PTL DEF Spec

\* Every variable keeps its type, and image_valid vouches for a whole header.
THEOREM TypeCorrect == ASSUME NoEmptyImage, ~LateCommands PROVE Spec => []TypeOK
<1>1. Inv /\ Order => TypeOK
  BY DEF Inv, Order, PartsInOrder, TypeOK
<1> QED BY <1>1, OrderHolds, PTL

\* No update goes back in version.
THEOREM VersionsGrow == ASSUME NoEmptyImage, ~LateCommands PROVE Spec => VersionGrows
<1>1. Inv /\ Order /\ [Next]_vars => [aInfo' # aInfo => aInfo'.version > aInfo.version]_vars
  <2> SUFFICES ASSUME Inv, Order, Next, aInfo' # aInfo
               PROVE  aInfo'.version > aInfo.version
    OBVIOUS
  <2>1. BootInstalls /\ Holds(bInfo.image, 0)
    BY DEF Next, Client, Connect, LinkLost, EnableNotifications, GetStorageBase, Reboot,
           PageErase, WriteData, Header, HeaderErase, HeaderTail, HeaderBody, HeaderValid,
           ChipReset, Watchdog, BootLoader, Boot, BootCopies, BootInstalls, BootErases,
           Power, PowerFails, PowerFailsOnPage, PowerFailsOnHeader, PowerFailsOnCopy,
           Fails, flash
  <2>2. on = "copy" /\ aInfo' = [image |-> bInfo.image, version |-> bInfo.version]
    BY <2>1 DEF BootInstalls
  <2>3. Accepted
    BY <2>2 DEF Inv, BootSound
  <2>4. aInfo \in [image : Images, version : 0 .. MaxVersion] /\ bInfo.version \in 0 .. MaxVersion
    BY DEF Inv, Types
  <2>5. ~Installed
    BY <2>2, <2>4 DEF Installed
  <2>6. aInfo.version < bInfo.version
    BY <2>3, <2>5 DEF Order, CommitSound
  <2> QED BY <2>2, <2>4, <2>6
<1> QED BY <1>1, OrderHolds, PTL DEF Spec, VersionGrows

-----------------------------------------------------------------------------
(* The update is atomic. *)

\* Under Order a committed image is never torn.
LEMMA CommittedIs ==
  ASSUME Order
  PROVE  Committed = IF Accepted /\ ~Installed THEN bInfo.image ELSE NULL
BY DEF Order, CommitSound, Committed

LEMMA CommittedIsNext ==
  ASSUME Order'
  PROVE  Committed' = IF Accepted' /\ ~Installed' THEN bInfo'.image ELSE NULL
BY DEF Order, CommitSound, Committed

\* Each step commits an image, installs the committed one, or changes neither.
LEMMA StepRefines ==
  ASSUME Inv, Inv', Order, Order', ~LateCommands, Next
  PROVE  Promise!Next \/ UNCHANGED <<aInfo.image, Committed>>
<1>1. ASSUME aInfo' = aInfo, bInfo'.image = bInfo.image, bInfo'.version = bInfo.version,
             Accepted' <=> Accepted
      PROVE  UNCHANGED <<aInfo.image, Committed>>
  <2>1. Installed' <=> Installed
    BY <1>1 DEF Installed
  <2> QED BY <1>1, <2>1, CommittedIs, CommittedIsNext
<1>2. ASSUME UNCHANGED <<aInfo, bInfo>>
      PROVE  UNCHANGED <<aInfo.image, Committed>>
  BY <1>1, <1>2 DEF Accepted
<1>3. ASSUME aInfo' = aInfo, ~Accepted \/ Installed, ~Accepted'
      PROVE  UNCHANGED <<aInfo.image, Committed>>
  BY <1>3, CommittedIs, CommittedIsNext
<1>4. CASE Client
  <2>1. UNCHANGED <<aInfo, bInfo>>
    BY <1>4 DEF Client, Connect, LinkLost, EnableNotifications, GetStorageBase, Reboot,
                PageErase, WriteData, flash
  <2> QED BY <1>2, <2>1
<1>5. CASE HeaderErase \/ HeaderTail \/ HeaderBody
  <2>1. aInfo' = aInfo /\ bInfo.valid # "written"
    BY <1>5 DEF HeaderErase, HeaderTail, HeaderBody, HeaderAt, Order, PartsInOrder
  <2>2. bInfo'.valid # "written"
    <3>1. CASE HeaderErase
      BY <3>1 DEF HeaderErase, NoInfo
    <3>2. CASE HeaderTail \/ HeaderBody
      <4>1. bInfo'.valid = bInfo.valid
        BY <3>2 DEF HeaderTail, HeaderBody, Inv, Types
      <4> QED BY <2>1, <4>1
    <3> QED BY <1>5, <3>1, <3>2
  <2> QED BY <1>3, <2>1, <2>2 DEF Accepted
<1>6. CASE HeaderValid
  <2>1. /\ pc = "valid" /\ aInfo' = aInfo /\ bInfo' = [bInfo EXCEPT !.valid = "written"]
    BY <1>6 DEF HeaderValid, HeaderAt
  <2>2. /\ bInfo.valid = "erased" /\ bInfo.tail = "written" /\ bInfo.body = "written"
        /\ bInfo.image = hdr.image /\ bInfo.version = hdr.version
        /\ hdr.image \in Images /\ aInfo.version < hdr.version
    BY <2>1 DEF Order, PartsInOrder, Inv, HeaderSound
  <2>3. Accepted' /\ bInfo'.image = hdr.image /\ bInfo'.version = hdr.version
    BY <2>1, <2>2 DEF Inv, Types, Accepted
  <2>4. ~Installed'
    <3>1. aInfo.version \in 0 .. MaxVersion /\ hdr.version \in 0 .. MaxVersion
      BY DEF Inv, Types
    <3>2. aInfo.version # hdr.version
      BY <2>2, <3>1
    <3> QED BY <2>1, <2>3, <3>2 DEF Installed
  <2>5. Committed = NULL /\ Committed' = hdr.image
    BY <2>2, <2>3, <2>4, CommittedIs, CommittedIsNext DEF Accepted
  <2> QED BY <2>1, <2>2, <2>5 DEF Promise!Next, Promise!Commit
<1>7. CASE ChipReset \/ Watchdog
  BY <1>2, <1>7 DEF ChipReset, Watchdog, flash
<1>8. CASE PowerFails \/ PowerFailsOnPage \/ PowerFailsOnCopy
  BY <1>2, <1>8 DEF PowerFails, PowerFailsOnPage, PowerFailsOnCopy, Fails
<1>9. CASE PowerFailsOnHeader
  <2>1. /\ aInfo' = aInfo /\ bInfo.valid # "written"
        /\ \E part \in {"tail", "body", "valid"} : bInfo' = [bInfo EXCEPT ![part] = "torn"]
    BY <1>9 DEF PowerFailsOnHeader, Fails, Tear, Order, PartsInOrder
  <2>2. bInfo'.valid # "written"
    BY <2>1 DEF Inv, Types
  <2> QED BY <1>3, <2>1, <2>2 DEF Accepted
<1>10. CASE Boot
  BY <1>2, <1>10 DEF Boot, flash
<1>11. CASE BootCopies
  <2>1. aInfo' = aInfo /\ bInfo' = [bInfo EXCEPT !.copied = @ + 1]
    BY <1>11 DEF BootCopies
  <2>2. /\ bInfo'.body = bInfo.body /\ bInfo'.tail = bInfo.tail /\ bInfo'.valid = bInfo.valid
        /\ bInfo'.image = bInfo.image /\ bInfo'.version = bInfo.version
    BY <2>1 DEF Inv, Types
  <2> QED BY <1>1, <2>1, <2>2 DEF Accepted
<1>12. CASE BootInstalls
  <2>1. on = "copy" /\ bInfo' = bInfo
    BY <1>12 DEF BootInstalls
  <2>2. Accepted /\ Accepted' /\ bInfo.image \in Images
    BY <2>1, AcceptedFits DEF Inv, BootSound, Accepted
  <2>3. CASE aInfo' = aInfo
    BY <1>2, <2>1, <2>3
  <2>4. CASE aInfo' # aInfo
    <3>1. aInfo' = [image |-> bInfo.image, version |-> bInfo.version]
      BY <1>12, <2>4 DEF BootInstalls
    <3>2. ~Installed
      BY <2>4, <3>1 DEF Installed, Inv, Types
    <3>3. Installed'
      BY <2>1, <3>1 DEF Installed
    <3>4. Committed = bInfo.image /\ Committed' = NULL
      BY <2>2, <3>2, <3>3, CommittedIs, CommittedIsNext
    <3> QED BY <2>2, <3>1, <3>4 DEF Promise!Next, Promise!Install
  <2> QED BY <2>3, <2>4
<1>13. CASE BootErases
  <2>1. on = "erase" /\ aInfo' = aInfo /\ bInfo' = NoInfo
    BY <1>13 DEF BootErases
  <2>2. Installed /\ ~Accepted'
    BY <2>1 DEF Order, InstallSound, Accepted, NoInfo
  <2> QED BY <1>3, <2>1, <2>2
<1> QED BY <1>4, <1>5, <1>6, <1>7, <1>8, <1>9, <1>10, <1>11, <1>12, <1>13
        DEF Next, Header, BootLoader, Power

\* Whatever pages the client erases and writes before it asks for the reset, and
\* wherever power fails, an update is committed as a whole or not at all and stays
\* committed until it is installed.
THEOREM UpdateIsAtomic == ASSUME NoEmptyImage, ~LateCommands PROVE Spec => ImplementsPromise
<1>1. Init => Promise!Init
  <2> SUFFICES ASSUME Init PROVE aInfo.image \in Images /\ Committed = NULL
    BY DEF Promise!Init
  <2> QED BY OtaAssumption DEF Init, Committed, Accepted, NoInfo
<1>2. Inv /\ Inv' /\ Order /\ Order' /\ [Next]_vars
        => [Promise!Next]_<<aInfo.image, Committed>>
  <2>1. CASE UNCHANGED vars
    BY <2>1 DEF vars, flash, Committed, Accepted, Installed, Whole
  <2> QED BY <2>1, StepRefines
<1> QED BY <1>1, <1>2, OrderHolds, PTL DEF Spec, ImplementsPromise, Promise!Spec

=============================================================================
