------------------------------ MODULE Records ------------------------------
(***************************************************************************)
(* Six components that share no table and call nothing of one another: the *)
(* payments of an enrollment (Payments), Certificates, Agenda, Speakers,   *)
(* Accounts and Search.  A behaviour takes the steps of one of them, chosen*)
(* at the start, and leaves the others as they began: since no action of   *)
(* one reads or writes a variable of another, every invariant and every    *)
(* property of a step of one holds of their interleaving iff it holds of   *)
(* its own behaviours.                                                     *)
(***************************************************************************)
EXTENDS Payments

CONSTANTS
    Users, Types, Asistencia, Codes, CertRequests, MaxRetries, NoUser,
    Tracks, NoTrack, MaxTime, Adds,
    Invitations, Answers, Nobody,
    Ids, Root, Emails, RootEmail, Anonymous, Roles, AccessTtl, Delay, NoId,
    Events, Dates, Fragments, Limit, UseVector, MaxChanges

VARIABLES
    focus,
    confirmed, attendance, evaluated, certs, jobs, files, unheard, everUnheard, certTx,
    everConfirmed, certOverlap,
    sessions, add, addOverlap,
    invitation, invitationLock, answer, answered, answerOverlap,
    users, userLock, accountTx, access, shown,
    event, visible, changes, search, listed, steady, titled, held, gone, came

Certificates == INSTANCE Certificates WITH
    Requests <- CertRequests, tx <- certTx, overlap <- certOverlap

Agenda == INSTANCE Agenda WITH overlap <- addOverlap

Speakers == INSTANCE Speakers WITH lock <- invitationLock, overlap <- answerOverlap

(* The clients of Accounts and the requests of Payments are alike.         *)
Accounts == INSTANCE Accounts WITH
    Clients <- Requests, lock <- userLock, tx <- accountTx

Search == INSTANCE Search

ASSUME CertificatesAssumption == Certificates!ConstantsAssumption
ASSUME AgendaAssumption == Agenda!ConstantsAssumption
ASSUME SpeakersAssumption == Speakers!ConstantsAssumption
ASSUME AccountsAssumption == Accounts!ConstantsAssumption
ASSUME SearchAssumption == Search!ConstantsAssumption

certificatesVars ==
    <<confirmed, attendance, evaluated, certs, jobs, files, unheard, everUnheard, certTx,
      everConfirmed, certOverlap>>
agendaVars == <<sessions, add, addOverlap>>
speakersVars == <<invitation, invitationLock, answer, answered, answerOverlap>>
accountsVars == <<users, userLock, accountTx, access, shown>>
searchVars ==
    <<event, visible, changes, search, listed, steady, titled, held, gone, came>>

ComponentsInit ==
    /\ focus \in {"payments", "certificates", "agenda", "speakers", "accounts", "search"}
    /\ Init
    /\ Certificates!Init
    /\ Agenda!Init
    /\ Speakers!Init
    /\ Accounts!Init
    /\ Search!Init
    /\ focus # "search" =>
        /\ visible = {}
        /\ \A e \in Events :
            /\ event[e].text /\ event[e].embedded /\ event[e].topic = Fragments
            /\ \A d \in Dates : event[e].date <= d

ComponentsNext ==
    /\ UNCHANGED focus
    /\ \/ focus = "payments" /\ Next
       \/ focus # "payments" /\ UNCHANGED vars
    /\ \/ focus = "certificates" /\ Certificates!Next
       \/ focus # "certificates" /\ UNCHANGED certificatesVars
    /\ \/ focus = "agenda" /\ Agenda!Next
       \/ focus # "agenda" /\ UNCHANGED agendaVars
    /\ \/ focus = "speakers" /\ Speakers!Next
       \/ focus # "speakers" /\ UNCHANGED speakersVars
    /\ \/ focus = "accounts" /\ Accounts!Next
       \/ focus # "accounts" /\ UNCHANGED accountsVars
    /\ \/ focus = "search" /\ Search!Next
       \/ focus # "search" /\ UNCHANGED searchVars

ComponentsSpec ==
    ComponentsInit /\ [][ComponentsNext]_<<focus, vars, certificatesVars, agendaVars,
                                           speakersVars, accountsVars, searchVars>>

-----------------------------------------------------------------------------
(* Properties of the components: their modules say what each is about.     *)

(* Every table, transaction and token is well typed, sessions end after    *)
(* they start, jobs of certificates are retried within their budget.       *)
RecordsTypeOK ==
    /\ TypeOK
    /\ Certificates!TypeOK
    /\ Agenda!TypeOK
    /\ Speakers!TypeOK
    /\ Accounts!TypeOK
    /\ Search!TypeOK

(* RN-05: attendance was confirmed, and a certificate shows an attendance. *)
AttendanceFirst == Certificates!AttendanceFirst

(* A certificate is issued twice, and an attendance recorded again fails,  *)
(* only by requests served at the same time.                               *)
RepeatedOnlyTogether == Certificates!DuplicatesOverlap /\ Certificates!CollidesOnlyTogether

(* A ready certificate has its file and its job is done, unless the worker *)
(* did not hear that it was.                                               *)
ReadyIsThere == Certificates!ReadyIsThere

(* Sessions of a track overlap only if added at the same time (RF-09).     *)
OnlyConcurrentSessionsClash == Agenda!OnlyConcurrentSessionsClash

(* An invitation is answered twice only at the same time (RF-10).          *)
OnlyConcurrentAnswersRepeat == Speakers!OnlyConcurrentAnswersRepeat

(* First accesses and erasures leave one account with an e-mail.           *)
OneAccountPerEmail == Accounts!OneAccountPerEmail

(* Requests are admitted on claims that were true within a token's life.   *)
ClaimsAreRecent == Accounts!ClaimsAreRecent

(* RN-07: no reader or writer brings an erased account's data back.        *)
ErasedStaysErased == [][Accounts!StaysErased]_accountsVars

(* RF-01: by text, pages miss or repeat an event only as rows move or tie. *)
PagesListAll == Search!PagesListAll

(* RF-30: an empty answer means that none of the ways had one.             *)
NothingMeansNone == Search!NothingMeansNone
=============================================================================
