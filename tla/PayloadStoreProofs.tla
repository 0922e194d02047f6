-------------------------- MODULE PayloadStoreProofs --------------------------
EXTENDS PayloadStore, TLAPS

Safety == /\ OnlyProvenBytes /\ NotFoundIsHonest
          /\ FoundLater /\ HandsAreClean /\ RequestsHaveAddress

\* The invariant holds of any directory an earlier run left.
LEMMA InitIInv == Init => IInv
<1> SUFFICES ASSUME Init PROVE IInv
  OBVIOUS
<1> USE ConstantsAssumption
<1>1. TypeOK
  BY DEF Init, Left, TypeOK, Contents, Steps
<1>2. OnlyProvenBytes /\ NotFoundIsHonest
  BY DEF Init, Left, Vouched, OnlyProvenBytes, NotFoundIsHonest, Contents, Answers
<1>3. FoundLater /\ HandsAreClean /\ RequestsHaveAddress
  BY DEF Init, FoundLater, HandsAreClean, CallsAreClean, DownloadsAreClean,
         RequestsHaveAddress, Contents
<1> QED BY <1>1, <1>2, <1>3 DEF IInv

-------------------------------------------------------------------------------
(* Types *)

\* The shared promise settles with values of their types.
LEMMA SettleType ==
    ASSUME TypeOK, NEW k \in Downloads, NEW content \in Contents \cup {None},
           NEW result \in Answers, Settle(k, content, result),
           raw' \in [Addresses -> Contents \cup {None}], UNCHANGED gz
    PROVE  TypeOK'
<1>1. /\ pc' \in [Calls -> Steps]
      /\ bytes' \in [Calls -> Contents \cup {None}]
      /\ answer' \in [Calls -> Answers \cup {None}]
  BY DEF Settle, TypeOK, Steps
<1>2. \A c \in Calls : pc'[c] = "sharing" => key'[c] \in Downloads /\ job'[key'[c]] # "none"
  BY DEF Settle, TypeOK
<1> QED BY <1>1, <1>2 DEF Settle, TypeOK

\* Every step keeps the types.
LEMMA TypeStep == TypeOK /\ RequestsHaveAddress /\ [Next]_vars => TypeOK'
<1> SUFFICES ASSUME TypeOK, RequestsHaveAddress, [Next]_vars PROVE TypeOK'
  OBVIOUS
<1> USE ConstantsAssumption
<1>1. ASSUME NEW c \in Calls, NEW k \in Downloads, Fetch(c, k) PROVE TypeOK'
  <2>1. k.addr \in Addresses
    BY DEF Downloads
  <2>2. /\ key' \in [Calls -> Downloads \cup {None}]
        /\ job' \in [Downloads -> {"none", "cache", "request", "exists", "write"}]
        /\ pc' \in [Calls -> Steps]
        /\ addr' \in [Calls -> Addresses \cup {None}]
        /\ missed' \in [Calls -> BOOLEAN]
    BY <1>1, <2>1 DEF Fetch, Begin, TypeOK, Steps, Missing
  <2>3. \A d \in Calls : pc'[d] = "sharing" => key'[d] \in Downloads /\ job'[key'[d]] # "none"
    BY <1>1 DEF Fetch, Begin, TypeOK
  <2> QED BY <1>1, <2>2, <2>3 DEF Fetch, Begin, TypeOK, fileVars
<1>2. ASSUME NEW c \in Calls, NEW a \in Addresses,
             FetchGenerated(c, a) \/ AskPlain(c, a) \/ AskCompressed(c, a)
      PROVE  TypeOK'
  <2>1. PICK step \in {"generated", "raw", "gz"} :
          Begin(c, a, step) /\ UNCHANGED <<fileVars, key, jobVars>>
    BY <1>2 DEF FetchGenerated, AskPlain, AskCompressed
  <2> QED BY <2>1 DEF Begin, TypeOK, Steps, Missing, fileVars, jobVars
<1>3. ASSUME NEW c \in Calls, Request(c) PROVE TypeOK'
  <2>1. pc[c] # "idle" => addr[c] \in Addresses
    BY DEF RequestsHaveAddress, TypeOK
  <2>2. CASE ReadGenerated(c)
    BY <2>1, <2>2 DEF ReadGenerated, Reply, TypeOK, Steps, Answers, fileVars, jobVars
  <2>3. CASE ReadRaw(c) \/ ReadCopy(c)
    BY <2>1, <2>3 DEF ReadRaw, ReadCopy, Reply, Continue, TypeOK, Steps, Answers, fileVars, jobVars
  <2>4. CASE ReadGz(c) \/ ReadSource(c)
    BY <2>1, <2>4 DEF ReadGz, ReadSource, Reply, Continue, TypeOK, Steps, Answers, fileVars, jobVars
  <2>5. CASE CheckCopy(c)
    BY <2>1, <2>5 DEF CheckCopy, Continue, TypeOK, Steps, fileVars, jobVars
  <2>6. CASE StoreCopy(c)
    BY <2>1, <2>6 DEF StoreCopy, Reply, Continue, TypeOK, Steps, Answers, fileVars, jobVars
  <2>7. CASE Unlink(c)
    <3>1. CASE Reply(c, None, "failed") /\ UNCHANGED raw
      BY <2>7, <3>1 DEF Unlink, Reply, TypeOK, Steps, Answers, jobVars
    <3>2. CASE /\ raw' \in {raw, [raw EXCEPT ![addr[c]] = None]}
               /\ pc' = [pc EXCEPT ![c] = "answered"]
               /\ answer' = [answer EXCEPT ![c] = "gzip"]
               /\ missed' = Noticed
               /\ UNCHANGED <<addr, key, bytes>>
      BY <2>1, <2>7, <3>2 DEF Unlink, Noticed, TypeOK, Steps, Answers, jobVars
    <3> QED BY <2>7, <3>1, <3>2 DEF Unlink
  <2>8. CASE ReadBare(c)
    BY <2>1, <2>8 DEF ReadBare, Reply, TypeOK, Steps, Answers, fileVars, jobVars
  <2>9. CASE End(c)
    BY <2>9 DEF End, TypeOK, Steps, fileVars, jobVars
  <2> QED BY <1>3, <2>2, <2>3, <2>4, <2>5, <2>6, <2>7, <2>8, <2>9 DEF Request
<1>4. ASSUME NEW k \in Downloads, Job(k) PROVE TypeOK'
  <2>1. k.addr \in Addresses
    BY DEF Downloads
  <2>2. CASE ReadCache(k)
    <3>1. CASE raw[k.addr] # None /\ Settle(k, raw[k.addr], "payload")
      BY <2>1, <2>2, <3>1, SettleType DEF ReadCache, TypeOK, Answers, fileVars
    <3>2. CASE job' = [job EXCEPT ![k] = "request"] /\ UNCHANGED <<got, callVars>>
      BY <2>2, <3>2 DEF ReadCache, TypeOK, fileVars, callVars
    <3> QED BY <2>2, <3>1, <3>2 DEF ReadCache
  <2>3. CASE Download(k)
    BY <2>3 DEF Download, TypeOK, fileVars, callVars
  <2>4. CASE DownloadFails(k)
    BY <2>4, SettleType DEF DownloadFails, TypeOK, Answers, fileVars
  <2>5. CASE CheckStored(k)
    <3>1. CASE Settle(k, got[k], "payload")
      BY <2>5, <3>1, SettleType DEF CheckStored, TypeOK, Answers, fileVars
    <3>2. CASE job' = [job EXCEPT ![k] = "write"] /\ UNCHANGED <<got, callVars>>
      BY <2>5, <3>2 DEF CheckStored, TypeOK, fileVars, callVars
    <3> QED BY <2>5, <3>1, <3>2 DEF CheckStored
  <2>6. CASE StoreRaw(k)
    BY <2>1, <2>6, SettleType DEF StoreRaw, TypeOK, Answers
  <2> QED BY <1>4, <2>2, <2>3, <2>4, <2>5, <2>6 DEF Job
<1>5. ASSUME NEW a \in Addresses, Publish(a) PROVE TypeOK'
  BY <1>5 DEF Publish, TypeOK, Contents, callVars, jobVars
<1>6. ASSUME NEW a \in Addresses, Prune(a) PROVE TypeOK'
  BY <1>6 DEF Prune, Noticed, TypeOK, jobVars
<1>7. CASE Restart
  BY <1>7 DEF Restart, TypeOK, Steps, fileVars
<1>8. CASE UNCHANGED vars
  BY <1>8 DEF vars, TypeOK, fileVars, callVars, jobVars
<1> QED BY <1>1, <1>2, <1>3, <1>4, <1>5, <1>6, <1>7, <1>8 DEF Next

-------------------------------------------------------------------------------
(* Safety *)

\* Starting a request about an address.
LEMMA BeginKeeps ==
    ASSUME IInv, NEW c \in Calls, NEW a \in Addresses, NEW step, Begin(c, a, step),
           step \in {"sharing", "generated", "raw", "gz"}, UNCHANGED fileVars,
           \A d \in Calls \ {c} : key'[d] = key[d],
           step = "sharing" => key'[c] # None /\ a = key'[c].addr
    PROVE  /\ OnlyProvenBytes' /\ NotFoundIsHonest' /\ FoundLater' /\ RequestsHaveAddress'
           /\ CallsAreClean'
<1> USE ConstantsAssumption DEF IInv
<1>1. /\ pc[c] = "idle" /\ answer[c] = None /\ bytes[c] = None
      /\ pc'[c] = step /\ addr'[c] = a /\ missed'[c] = Missing(a)
  BY DEF Begin, HandsAreClean, CallsAreClean, TypeOK
<1>2. \A d \in Calls \ {c} : /\ pc'[d] = pc[d] /\ addr'[d] = addr[d] /\ missed'[d] = missed[d]
  BY DEF Begin, TypeOK
<1>3. OnlyProvenBytes'
  BY <1>1, <1>2 DEF Begin, OnlyProvenBytes, Vouched, Answers, fileVars
<1>4. NotFoundIsHonest'
  BY <1>1, <1>2 DEF Begin, NotFoundIsHonest, Answers
<1>5. FoundLater'
  BY <1>1, <1>2 DEF FoundLater, Missing, fileVars
<1>6. RequestsHaveAddress'
  BY <1>1, <1>2 DEF RequestsHaveAddress
<1>7. CallsAreClean'
  BY <1>1, <1>2 DEF Begin, HandsAreClean, CallsAreClean, Contents
<1> QED BY <1>3, <1>4, <1>5, <1>6, <1>7

\* A shared promise settles with checked bytes, or with a failure.
LEMMA SettleKeeps ==
    ASSUME IInv, NEW k \in Downloads, NEW content, NEW result, Settle(k, content, result),
           \/ Fine(k.addr, content) /\ result = "payload"
           \/ content = None /\ result = "failed",
           \A a \in Vouched : raw'[a] # "unproven",
           \A a \in Addresses : raw[a] # None => raw'[a] # None,
           UNCHANGED gz
    PROVE  Safety'
<1> USE ConstantsAssumption DEF IInv
<1>1. \A c \in Calls : /\ addr'[c] = addr[c] /\ missed'[c] = missed[c]
                       /\ \/ pc'[c] = pc[c] /\ bytes'[c] = bytes[c] /\ answer'[c] = answer[c]
                          \/ /\ pc[c] = "sharing" /\ pc'[c] = "answered" /\ addr[c] = k.addr
                             /\ bytes'[c] = content /\ answer'[c] = result
  BY DEF Settle, TypeOK, RequestsHaveAddress
<1>2. OnlyProvenBytes'
  BY <1>1 DEF OnlyProvenBytes, Fine, Contents
<1>3. NotFoundIsHonest'
  BY <1>1 DEF NotFoundIsHonest
<1>4. FoundLater'
  BY <1>1 DEF FoundLater, Missing
<1>5. HandsAreClean'
  <2>1. DownloadsAreClean'
    BY DEF Settle, HandsAreClean, DownloadsAreClean, TypeOK, Contents
  <2>2. CallsAreClean'
    BY <1>1 DEF HandsAreClean, CallsAreClean, Fine, Contents
  <2> QED BY <2>1, <2>2 DEF HandsAreClean
<1>6. RequestsHaveAddress'
  BY <1>1 DEF Settle, RequestsHaveAddress
<1> QED BY <1>2, <1>3, <1>4, <1>5, <1>6 DEF Safety

\* A step of one request that touches no file: what it took is whole, and what it
\* learnt of the files is so.
LEMMA RequestKeeps ==
    ASSUME IInv, NEW c \in Calls, UNCHANGED <<fileVars, jobVars>>,
           NEW to, NEW content, NEW result,
           pc[c] # "idle", to # "idle",
           pc' = [pc EXCEPT ![c] = to],
           bytes' = [bytes EXCEPT ![c] = content],
           answer' = [answer EXCEPT ![c] = result],
           UNCHANGED <<addr, key, missed>>,
           addr[c] \in Vouched => content # "unproven",
           to # "answered" => result = None, to # "sharing",
           to \in {"exists", "write", "unlink"} => Fine(addr[c], content),
           addr[c] \in Vouched /\ result \in {"payload", "gzip"} => content = "whole",
           to \in {"copy", "bare"} => raw[addr[c]] = None,
           to = "unlink" => gz[addr[c]] # None,
           result = "missing" => pc[c] \in {"copy", "bare"} /\ gz[addr[c]] = None
    PROVE  Safety'
<1> USE ConstantsAssumption DEF IInv
<1>1. \A d \in Calls : /\ addr'[d] = addr[d] /\ missed'[d] = missed[d]
                       /\ d # c => pc'[d] = pc[d] /\ bytes'[d] = bytes[d] /\ answer'[d] = answer[d]
  BY DEF TypeOK
<1>2. pc'[c] = to /\ bytes'[c] = content /\ answer'[c] = result
  BY DEF TypeOK
<1>3. OnlyProvenBytes'
  BY <1>1, <1>2 DEF OnlyProvenBytes, fileVars
<1>4. NotFoundIsHonest'
  BY <1>1, <1>2 DEF NotFoundIsHonest, FoundLater
<1>5. FoundLater'
  BY <1>1, <1>2 DEF FoundLater, Missing, fileVars
<1>6. HandsAreClean'
  BY <1>1, <1>2 DEF HandsAreClean, CallsAreClean, DownloadsAreClean, jobVars
<1>7. RequestsHaveAddress'
  BY <1>1, <1>2 DEF RequestsHaveAddress
<1> QED BY <1>3, <1>4, <1>5, <1>6, <1>7 DEF Safety
\* A file goes or comes without a request's doing: no kept payload is lost, and
\* whoever is under way notices one that is.
LEMMA FilesChange ==
    ASSUME IInv,
           \A a \in Kept : /\ gz[a] # None => gz'[a] # None
                           /\ raw[a] # None => raw'[a] # None \/ gz'[a] # None,
           \A c \in Calls : addr'[c] = addr[c] /\ (missed[c] => missed'[c])
    PROVE  \A c \in Calls : addr'[c] \in Kept =>
              /\ ~missed'[c] => ~Missing(addr[c])'
              /\ pc[c] \in {"copy", "bare"} /\ ~missed'[c] => gz'[addr'[c]] # None
              /\ pc[c] = "unlink" => gz'[addr'[c]] # None
BY DEF IInv, FoundLater, Missing

\* Every step keeps the safety conjuncts.
LEMMA SafetyStep == IInv /\ [Next]_vars => Safety'
<1> SUFFICES ASSUME IInv, [Next]_vars PROVE Safety'
  OBVIOUS
<1> USE ConstantsAssumption
<1>a. TypeOK /\ OnlyProvenBytes /\ NotFoundIsHonest /\ FoundLater /\ HandsAreClean /\ RequestsHaveAddress
  BY DEF IInv
<1>1. ASSUME NEW c \in Calls, NEW k \in Downloads, Fetch(c, k) PROVE Safety'
  <2>1. k.addr \in Addresses /\ Begin(c, k.addr, "sharing") /\ UNCHANGED fileVars
    BY <1>1 DEF Fetch, Downloads
  <2>2. DownloadsAreClean'
    BY <1>1, <1>a DEF Fetch, HandsAreClean, DownloadsAreClean, TypeOK
  <2>3. key'[c] # None /\ k.addr = key'[c].addr /\ \A d \in Calls \ {c} : key'[d] = key[d]
    BY <1>1, <1>a DEF Fetch, TypeOK
  <2> QED BY <2>1, <2>2, <2>3, BeginKeeps DEF Safety, HandsAreClean
<1>2. ASSUME NEW c \in Calls, NEW a \in Addresses,
             FetchGenerated(c, a) \/ AskPlain(c, a) \/ AskCompressed(c, a)
      PROVE  Safety'
  <2>1. PICK step \in {"generated", "raw", "gz"} :
          Begin(c, a, step) /\ UNCHANGED <<fileVars, key, jobVars>>
    BY <1>2 DEF FetchGenerated, AskPlain, AskCompressed
  <2>2. DownloadsAreClean'
    BY <1>a, <2>1 DEF HandsAreClean, DownloadsAreClean, jobVars
  <2> QED BY <2>1, <2>2, BeginKeeps DEF Safety, HandsAreClean
<1>3. ASSUME NEW c \in Calls, Request(c) PROVE Safety'
  <2>1. pc[c] # "idle" => /\ addr[c] \in Addresses
                          /\ raw[addr[c]] # None => Fine(addr[c], raw[addr[c]])
                          /\ gz[addr[c]] # None => Fine(addr[c], gz[addr[c]])
    BY <1>a DEF RequestsHaveAddress, TypeOK, OnlyProvenBytes, Fine, Contents
  <2>2. CASE ReadGenerated(c)
    BY <1>a, <2>1, <2>2, RequestKeeps DEF ReadGenerated, Reply, Fine, Contents, Answers
  <2>3. CASE ReadRaw(c)
    <3>1. CASE raw[addr[c]] # None
      <4>1. /\ pc[c] = "raw" /\ pc' = [pc EXCEPT ![c] = "answered"]
            /\ bytes' = [bytes EXCEPT ![c] = raw[addr[c]]]
            /\ answer' = [answer EXCEPT ![c] = "payload"]
            /\ UNCHANGED <<fileVars, jobVars, addr, key, missed>>
        BY <2>3, <3>1 DEF ReadRaw, Reply, Continue
      <4>2. /\ addr[c] \in Vouched => raw[addr[c]] # "unproven"
            /\ addr[c] \in Vouched => raw[addr[c]] = "whole"
        BY <2>1, <3>1, <4>1 DEF Fine
      <4> QED BY <4>1, <4>2, RequestKeeps
    <3>2. CASE raw[addr[c]] = None
      <4>1. /\ pc[c] = "raw" /\ pc' = [pc EXCEPT ![c] = "copy"]
            /\ bytes' = [bytes EXCEPT ![c] = bytes[c]]
            /\ (addr[c] \in Vouched => bytes[c] # "unproven")
            /\ answer' = [answer EXCEPT ![c] = None]
        BY <1>a, <2>3, <3>2 DEF ReadRaw, Continue, TypeOK, HandsAreClean, CallsAreClean
      <4> QED BY <2>3, <3>2, <4>1, RequestKeeps DEF ReadRaw, Continue, Answers
    <3> QED BY <3>1, <3>2
  <2>4. CASE ReadCopy(c)
    BY <1>a, <2>1, <2>4, RequestKeeps DEF ReadCopy, Reply, Fine, Contents, Answers
  <2>5. CASE ReadGz(c)
    <3>1. CASE gz[addr[c]] # None
      <4>1. /\ pc[c] = "gz" /\ pc' = [pc EXCEPT ![c] = "answered"]
            /\ bytes' = [bytes EXCEPT ![c] = gz[addr[c]]]
            /\ answer' = [answer EXCEPT ![c] = "gzip"]
            /\ UNCHANGED <<fileVars, jobVars, addr, key, missed>>
        BY <2>5, <3>1 DEF ReadGz, Reply, Continue
      <4>2. /\ addr[c] \in Vouched => gz[addr[c]] # "unproven"
            /\ addr[c] \in Vouched => gz[addr[c]] = "whole"
        BY <2>1, <3>1, <4>1 DEF Fine
      <4> QED BY <4>1, <4>2, RequestKeeps
    <3>2. CASE gz[addr[c]] = None
      <4>1. /\ pc[c] = "gz" /\ pc' = [pc EXCEPT ![c] = "source"]
            /\ bytes' = [bytes EXCEPT ![c] = bytes[c]]
            /\ (addr[c] \in Vouched => bytes[c] # "unproven")
            /\ answer' = [answer EXCEPT ![c] = None]
        BY <1>a, <2>5, <3>2 DEF ReadGz, Continue, TypeOK, HandsAreClean, CallsAreClean
      <4> QED BY <2>5, <3>2, <4>1, RequestKeeps DEF ReadGz, Continue, Answers
    <3> QED BY <3>1, <3>2
  <2>6. CASE ReadSource(c)
    <3>1. /\ pc[c] = "source" /\ answer' = [answer EXCEPT ![c] = None]
          /\ (addr[c] \in Vouched => bytes[c] # "unproven")
      BY <1>a, <2>6 DEF ReadSource, Continue, TypeOK, HandsAreClean, CallsAreClean
    <3>2. CASE raw[addr[c]] # None
      BY <2>1, <2>6, <3>1, <3>2, RequestKeeps DEF ReadSource, Continue, Fine, Contents, Answers
    <3>3. CASE raw[addr[c]] = None
      <4>1. bytes' = [bytes EXCEPT ![c] = bytes[c]]
        BY <1>a, <2>6, <3>3 DEF ReadSource, TypeOK
      <4> QED BY <2>6, <3>1, <3>3, <4>1, RequestKeeps DEF ReadSource, Continue, Answers
    <3> QED BY <3>2, <3>3
  <2>7. CASE CheckCopy(c)
    <3>1. /\ pc[c] = "exists" /\ Fine(addr[c], bytes[c])
          /\ bytes' = [bytes EXCEPT ![c] = bytes[c]]
          /\ answer' = [answer EXCEPT ![c] = None]
      BY <1>a, <2>7 DEF CheckCopy, Continue, TypeOK, HandsAreClean, CallsAreClean
    <3>2. PICK to \in {"write", "unlink"} :
            /\ pc' = [pc EXCEPT ![c] = to]
            /\ to = "unlink" => gz[addr[c]] # None
      BY <2>7 DEF CheckCopy, Continue
    <3>3. UNCHANGED <<fileVars, jobVars, addr, key, missed>>
      BY <2>7 DEF CheckCopy, Continue
    <3>4. addr[c] \in Vouched => bytes[c] # "unproven"
      BY <3>1 DEF Fine
    <3> QED BY <3>1, <3>2, <3>3, <3>4, RequestKeeps DEF Answers
  <2>8. CASE StoreCopy(c)
    <3>1. CASE Reply(c, None, "failed") /\ UNCHANGED gz
      BY <2>8, <3>1, RequestKeeps DEF StoreCopy, Reply, fileVars, Contents, Answers
    <3>2. CASE Continue(c, "unlink") /\ UNCHANGED bytes /\ gz' = [gz EXCEPT ![addr[c]] = bytes[c]]
      <4>1. /\ pc[c] = "write" /\ addr[c] \in Addresses
            /\ Fine(addr[c], bytes[c]) /\ gz'[addr[c]] = bytes[c]
        BY <1>a, <2>1, <2>8, <3>2 DEF StoreCopy, HandsAreClean, CallsAreClean, TypeOK
      <4>2. \A d \in Calls : /\ addr'[d] = addr[d] /\ missed'[d] = missed[d]
                             /\ answer'[d] = answer[d] /\ bytes'[d] = bytes[d]
                             /\ d # c => pc'[d] = pc[d]
        BY <3>2 DEF Continue, TypeOK
      <4>3. pc'[c] = "unlink" /\ UNCHANGED <<raw, jobVars>>
        BY <1>a, <2>8, <3>2 DEF StoreCopy, Continue, TypeOK
      <4>4. \A a \in Addresses : gz'[a] = gz[a] \/ Fine(a, gz'[a])
        BY <1>a, <3>2, <4>1 DEF TypeOK
      <4>5. OnlyProvenBytes' /\ NotFoundIsHonest'
        BY <1>a, <4>1, <4>2, <4>3, <4>4
        DEF OnlyProvenBytes, NotFoundIsHonest, Fine, Contents, Vouched
      <4>8. RequestsHaveAddress'
        BY <1>a, <3>2, <4>1, <4>2, <4>3 DEF RequestsHaveAddress, Continue
      <4>6. FoundLater'
        BY <1>a, <4>1, <4>2, <4>3, <4>4, FilesChange
        DEF FoundLater, OnlyProvenBytes, Missing, Fine, Contents, Vouched
      <4>7. HandsAreClean'
        BY <1>a, <4>1, <4>2, <4>3 DEF HandsAreClean, CallsAreClean, DownloadsAreClean, jobVars
      <4> QED BY <4>5, <4>6, <4>7, <4>8 DEF Safety
    <3> QED BY <2>8, <3>1, <3>2 DEF StoreCopy
  <2>9. CASE Unlink(c)
    <3>1. CASE Reply(c, None, "failed") /\ UNCHANGED raw
      BY <2>9, <3>1, RequestKeeps DEF Unlink, Reply, fileVars, Contents, Answers
    <3>2. CASE /\ raw' \in {raw, [raw EXCEPT ![addr[c]] = None]}
               /\ pc' = [pc EXCEPT ![c] = "answered"]
               /\ answer' = [answer EXCEPT ![c] = "gzip"]
               /\ missed' = Noticed
               /\ UNCHANGED <<addr, key, bytes>>
      <4>1. /\ pc[c] = "unlink" /\ Fine(addr[c], bytes[c]) /\ gz' = gz
            /\ addr[c] \in Kept => gz[addr[c]] # None
        BY <1>a, <2>9 DEF Unlink, HandsAreClean, CallsAreClean, FoundLater
      <4>2. \A d \in Calls : /\ addr'[d] = addr[d] /\ bytes'[d] = bytes[d]
                             /\ missed[d] => missed'[d]
                             /\ d # c => pc'[d] = pc[d] /\ answer'[d] = answer[d]
        BY <1>a, <3>2 DEF Noticed, TypeOK
      <4>3. pc'[c] = "answered" /\ answer'[c] = "gzip" /\ UNCHANGED <<jobVars, addr, key>>
        BY <1>a, <2>9, <3>2 DEF Unlink, TypeOK
      <4>4. \A a \in Addresses : raw'[a] = raw[a] \/ (a = addr[c] /\ raw'[a] = None)
        BY <1>a, <3>2 DEF TypeOK
      <4>5. OnlyProvenBytes'
        BY <1>a, <4>1, <4>2, <4>3, <4>4
        DEF OnlyProvenBytes, Fine, Contents, Vouched
      <4>6. NotFoundIsHonest' /\ RequestsHaveAddress'
        BY <1>a, <4>1, <4>2, <4>3 DEF NotFoundIsHonest, RequestsHaveAddress
      <4>7. FoundLater'
        BY <1>a, <4>1, <4>2, <4>3, <4>4, FilesChange DEF FoundLater
      <4>8. HandsAreClean'
        BY <1>a, <4>1, <4>2, <4>3 DEF HandsAreClean, CallsAreClean, DownloadsAreClean, jobVars
      <4> QED BY <4>5, <4>6, <4>7, <4>8 DEF Safety
    <3> QED BY <2>9, <3>1, <3>2 DEF Unlink
  <2>10. CASE ReadBare(c)
    BY <1>a, <2>1, <2>10, RequestKeeps DEF ReadBare, Reply, Fine, Contents, Answers
  <2>11. CASE End(c)
    <3>1. \A d \in Calls \ {c} : /\ pc'[d] = pc[d] /\ addr'[d] = addr[d] /\ missed'[d] = missed[d]
                                 /\ bytes'[d] = bytes[d] /\ answer'[d] = answer[d]
      BY <2>11 DEF End, TypeOK
    <3>2. pc'[c] = "idle" /\ addr'[c] = None /\ bytes'[c] = None /\ answer'[c] = None
      BY <1>a, <2>11 DEF End, TypeOK
    <3>3. OnlyProvenBytes' /\ NotFoundIsHonest' /\ RequestsHaveAddress'
      BY <1>a, <2>11, <3>1, <3>2 DEF End, OnlyProvenBytes, NotFoundIsHonest, RequestsHaveAddress, fileVars, Answers
    <3>4. FoundLater'
      BY <1>a, <2>11, <3>1, <3>2 DEF End, FoundLater, Missing, fileVars
    <3>5. HandsAreClean'
      BY <1>a, <2>11, <3>1, <3>2
      DEF End, HandsAreClean, CallsAreClean, DownloadsAreClean, jobVars, Contents
    <3> QED BY <3>3, <3>4, <3>5 DEF Safety
  <2> QED
    BY <1>3, <2>2, <2>3, <2>4, <2>5, <2>6, <2>7, <2>8, <2>9, <2>10, <2>11 DEF Request
<1>4. ASSUME NEW k \in Downloads, Job(k) PROVE Safety'
  <2>1. k.addr \in Addresses /\ (raw[k.addr] # None => Fine(k.addr, raw[k.addr]))
    BY <1>a DEF Downloads, TypeOK, OnlyProvenBytes, Fine, Contents
  <2>2. \A a \in Vouched : raw[a] # "unproven"
    BY <1>a DEF OnlyProvenBytes
  <2>4. ASSUME UNCHANGED <<fileVars, callVars>>, DownloadsAreClean'
        PROVE  Safety'
    <3>1. OnlyProvenBytes' /\ NotFoundIsHonest' /\ FoundLater' /\ RequestsHaveAddress'
      BY <1>a, <2>4 DEF OnlyProvenBytes, NotFoundIsHonest, FoundLater, Missing, RequestsHaveAddress,
                        fileVars, callVars
    <3>2. HandsAreClean'
      BY <1>a, <2>4 DEF HandsAreClean, CallsAreClean, callVars
    <3> QED BY <3>1, <3>2 DEF Safety
  <2>5. CASE ReadCache(k)
    <3>1. CASE raw[k.addr] # None
      BY <2>1, <2>2, <2>5, <3>1, SettleKeeps DEF ReadCache, fileVars
    <3>2. CASE raw[k.addr] = None
      BY <1>a, <2>4, <2>5, <3>2 DEF ReadCache, HandsAreClean, DownloadsAreClean, TypeOK
    <3> QED BY <3>1, <3>2
  <2>6. CASE Download(k)
    <3>1. PICK content \in Contents : Passes(k, content) /\ got' = [got EXCEPT ![k] = content]
      BY <2>6 DEF Download
    <3>2. Fine(k.addr, content)
      BY <3>1 DEF Passes, Fine, Vouched, Contents, Downloads
    <3>3. DownloadsAreClean'
      BY <1>a, <2>6, <3>1, <3>2 DEF Download, HandsAreClean, DownloadsAreClean, Fine, TypeOK
    <3> QED BY <2>4, <2>6, <3>3 DEF Download
  <2>7. CASE DownloadFails(k)
    BY <2>2, <2>7, SettleKeeps DEF DownloadFails, fileVars
  <2>8. CASE CheckStored(k)
    <3>1. Fine(k.addr, got[k]) /\ job[k] = "exists"
      BY <1>a, <2>8 DEF CheckStored, HandsAreClean, DownloadsAreClean
    <3>2. CASE raw[k.addr] # None
      BY <2>2, <2>8, <3>1, <3>2, SettleKeeps DEF CheckStored, fileVars
    <3>3. CASE raw[k.addr] = None
      BY <1>a, <2>4, <2>8, <3>1, <3>3 DEF CheckStored, HandsAreClean, DownloadsAreClean, TypeOK
    <3> QED BY <3>2, <3>3
  <2>9. CASE StoreRaw(k)
    <3>1. Fine(k.addr, got[k]) /\ Settle(k, got[k], "payload")
      BY <1>a, <2>9 DEF StoreRaw, HandsAreClean, DownloadsAreClean
    <3>2. \A a \in Addresses : raw'[a] = raw[a] \/ (a = k.addr /\ raw'[a] = got[k])
      BY <1>a, <2>1, <2>9 DEF StoreRaw, TypeOK
    <3>3. \A a \in Vouched : raw'[a] # "unproven"
      BY <2>2, <3>1, <3>2 DEF Fine, Vouched
    <3>4. \A a \in Addresses : raw[a] # None => raw'[a] # None
      BY <3>1, <3>2 DEF Fine, Contents
    <3> QED BY <2>9, <3>1, <3>3, <3>4, SettleKeeps DEF StoreRaw
  <2> QED BY <1>4, <2>5, <2>6, <2>7, <2>8, <2>9 DEF Job
<1>5. ASSUME NEW a \in Addresses, Publish(a) PROVE Safety'
  <2>1. /\ \A b \in Addresses : raw'[b] = raw[b] \/ raw'[b] = "whole"
        /\ UNCHANGED <<gz, callVars, jobVars>>
    BY <1>5, <1>a DEF Publish, TypeOK
  <2>2. OnlyProvenBytes' /\ NotFoundIsHonest' /\ RequestsHaveAddress'
    BY <1>a, <2>1 DEF OnlyProvenBytes, Vouched, NotFoundIsHonest, RequestsHaveAddress, callVars
  <2>3. FoundLater' /\ HandsAreClean'
    BY <1>a, <2>1 DEF FoundLater, Missing, HandsAreClean, CallsAreClean, DownloadsAreClean,
                      callVars, jobVars, Contents
  <2> QED BY <2>2, <2>3 DEF Safety
<1>6. ASSUME NEW a \in Addresses, Prune(a) PROVE Safety'
  <2>1. /\ \A b \in Addresses : /\ raw'[b] = raw[b] \/ (b = a /\ raw'[b] = None)
                                /\ gz'[b] = gz[b] \/ (b = a /\ gz'[b] = None)
        /\ a \in Kept => UNCHANGED <<raw, gz>>
        /\ UNCHANGED <<pc, addr, key, bytes, answer, jobVars>>
        /\ \A c \in Calls : missed[c] => missed'[c]
    BY <1>6, <1>a DEF Prune, Spared, Noticed, TypeOK
  <2>2. OnlyProvenBytes' /\ NotFoundIsHonest' /\ RequestsHaveAddress'
    BY <1>a, <2>1 DEF OnlyProvenBytes, Vouched, NotFoundIsHonest, RequestsHaveAddress, Contents
  <2>3. FoundLater'
    BY <1>a, <2>1 DEF FoundLater, Missing
  <2>4. HandsAreClean'
    BY <1>a, <2>1 DEF HandsAreClean, CallsAreClean, DownloadsAreClean, jobVars
  <2> QED BY <2>2, <2>3, <2>4 DEF Safety
<1>7. CASE Restart
  <2>1. OnlyProvenBytes' /\ NotFoundIsHonest' /\ RequestsHaveAddress'
    BY <1>7, <1>a DEF Restart, OnlyProvenBytes, NotFoundIsHonest, RequestsHaveAddress, fileVars, Answers
  <2>2. FoundLater' /\ HandsAreClean'
    BY <1>7, <1>a DEF Restart, FoundLater, HandsAreClean, CallsAreClean, DownloadsAreClean,
                         Vouched, Contents
  <2> QED BY <2>1, <2>2 DEF Safety
<1>8. CASE UNCHANGED vars
  <2>1. OnlyProvenBytes' /\ NotFoundIsHonest' /\ RequestsHaveAddress'
    BY <1>8, <1>a DEF vars, fileVars, callVars, OnlyProvenBytes, NotFoundIsHonest, RequestsHaveAddress
  <2>2. FoundLater' /\ HandsAreClean'
    BY <1>8, <1>a DEF vars, fileVars, callVars, jobVars, FoundLater, Missing,
                         HandsAreClean, CallsAreClean, DownloadsAreClean
  <2> QED BY <2>1, <2>2 DEF Safety
<1> QED BY <1>1, <1>2, <1>3, <1>4, <1>5, <1>6, <1>7, <1>8 DEF Next
-------------------------------------------------------------------------------
(* Theorems *)

\* The inductive invariant holds in every reachable state, for any requests,
\* sources and addresses (CjsToolCache.js:105-151, CjsToolIndex.js:340-494).
THEOREM Invariance == Spec => []IInv
<1>1. IInv /\ [Next]_vars => IInv'
  BY TypeStep, SafetyStep DEF IInv, Safety
<1> QED BY InitIInv, <1>1, PTL DEF Spec

\* Every variable keeps its type (CjsToolIndexSource.js:209-239).
THEOREM TypeCorrect == Spec => []TypeOK
<1>1. IInv => TypeOK
  BY DEF IInv
<1> QED BY Invariance, <1>1, PTL

\* No file of an address whose every row declares its MD5, and no answer about it
\* that is labelled as what it is, ever holds other bytes than the address says,
\* although nothing is hashed again once it is stored (CjsToolCache.js:105-109);
\* other addresses are not checked at all (CjsToolPayloadCheck.js:56-65).
THEOREM StoreIsProven == Spec => []OnlyProvenBytes
<1>1. IInv => OnlyProvenBytes
  BY DEF IInv
<1> QED BY Invariance, <1>1, PTL

\* A kept payload that is answered as not found really had no file at some moment
\* of the request (CjsToolIndex.js:340-385, CjsToolHttpProxy.js:1500-1522).
THEOREM AbsenceIsHonest == Spec => []NotFoundIsHonest
<1>1. IInv => NotFoundIsHonest
  BY DEF IInv
<1> QED BY Invariance, <1>1, PTL

\* No step takes the last file of a kept payload.
LEMMA KeptStep ==
    IInv /\ [Next]_vars => [\A a \in Kept : Missing(a)' => Missing(a)]_vars
<1> SUFFICES ASSUME IInv, Next, NEW a \in Kept, ~Missing(a) PROVE ~Missing(a)'
  OBVIOUS
<1> USE ConstantsAssumption
<1>a. TypeOK /\ OnlyProvenBytes /\ FoundLater /\ HandsAreClean /\ RequestsHaveAddress /\ a \in Addresses
  BY DEF IInv
<1>1. ASSUME NEW c \in Calls, StoreCopy(c) PROVE ~Missing(a)'
  <2>1. bytes[c] \in Contents /\ addr[c] \in Addresses /\ raw' = raw
    BY <1>1, <1>a DEF StoreCopy, HandsAreClean, CallsAreClean, Fine, RequestsHaveAddress, TypeOK
  <2>2. gz'[a] = gz[a] \/ gz'[a] = bytes[c]
    BY <1>1, <1>a, <2>1 DEF StoreCopy, TypeOK
  <2> QED BY <1>a, <2>1, <2>2 DEF Missing, Contents
<1>2. ASSUME NEW c \in Calls, Unlink(c) PROVE ~Missing(a)'
  <2>1. CASE addr[c] = a
    BY <1>2, <1>a, <2>1 DEF Unlink, FoundLater, Missing
  <2>2. CASE addr[c] # a
    BY <1>2, <1>a, <2>2 DEF Unlink, Missing, TypeOK
  <2> QED BY <2>1, <2>2
<1>3. ASSUME NEW k \in Downloads, StoreRaw(k) PROVE ~Missing(a)'
  <2>1. got[k] \in Contents /\ gz' = gz /\ (raw'[a] = raw[a] \/ raw'[a] = got[k])
    BY <1>3, <1>a DEF StoreRaw, HandsAreClean, DownloadsAreClean, Fine, TypeOK
  <2> QED BY <2>1 DEF Missing, Contents
<1>4. ASSUME NEW b \in Addresses, Publish(b) PROVE ~Missing(a)'
  BY <1>4, <1>a DEF Publish, Missing, TypeOK, Contents
<1>5. ASSUME NEW b \in Addresses, Prune(b) PROVE ~Missing(a)'
  BY <1>5, <1>a DEF Prune, Spared, Missing, TypeOK
<1>6. CASE Restart
  BY <1>6 DEF Restart, fileVars, Missing
<1>7. ASSUME NEW c \in Calls,
             \/ \E k \in Downloads : Fetch(c, k)
             \/ \E b \in Addresses : FetchGenerated(c, b) \/ AskPlain(c, b) \/ AskCompressed(c, b)
             \/ ReadGenerated(c) \/ ReadRaw(c) \/ ReadCopy(c) \/ ReadGz(c) \/ ReadSource(c)
             \/ CheckCopy(c) \/ ReadBare(c) \/ End(c)
      PROVE  ~Missing(a)'
  <2>1. UNCHANGED fileVars
    BY <1>7 DEF Fetch, FetchGenerated, AskPlain, AskCompressed, ReadGenerated, ReadRaw, ReadCopy,
                ReadGz, ReadSource, CheckCopy, ReadBare, End
  <2> QED BY <2>1 DEF fileVars, Missing
<1>8. ASSUME NEW k \in Downloads, ReadCache(k) \/ Download(k) \/ DownloadFails(k) \/ CheckStored(k)
      PROVE  ~Missing(a)'
  <2>1. UNCHANGED fileVars
    BY <1>8 DEF ReadCache, Download, DownloadFails, CheckStored
  <2> QED BY <2>1 DEF fileVars, Missing
<1> QED BY <1>1, <1>2, <1>3, <1>4, <1>5, <1>6, <1>7, <1>8 DEF Next, Request, Job

\* "It never leaves neither": a kept payload once stored stays stored in one of
\* its two forms, however migrations, downloads and prunes overlap
\* (CjsToolIndex.js:402-405, bin/cjs-tools-cache-prune.js:365-377).
THEOREM KeptSurvives == Spec => KeptIsNeverLost
BY Invariance, KeptStep, PTL DEF Spec, KeptIsNeverLost
===============================================================================
