---------------------------- MODULE ProtocolEvents ----------------------------
(***************************************************************************)
(* The events of each domain, by the name its METHOD ends in: the struct of*)
(* the payload, and the enums of its fields.                               *)
(***************************************************************************)
EXTENDS ProtocolSyntax

AccessibilityEvents == [
    loadComplete |-> Event(Default(<<One("AxNode")>>)),
    nodesUpdated |-> Event(Default(<<Many("AxNode")>>))]

AnimationEvents == [
    animationCanceled |-> Event(Bare), animationCreated |-> Event(Bare),
    animationStarted |-> Event(Plain(<<One("Animation")>>)),
    animationUpdated |-> Event(Plain(<<One("Animation")>>))]

AuditsEvents == [issueAdded |-> Event(Plain(<<One("InspectorIssue")>>))]

AutofillEvents == [
    addressFormFilled |-> Event(Default(<<Many("FilledField"), One("AddressUi")>>))]

BackgroundServiceEvents == [
    recordingStateChanged |-> Event(Plain(<<One("ServiceName")>>)),
    backgroundServiceEventReceived |-> Event(Plain(<<One("BackgroundServiceEvent")>>))]

BluetoothEmulationEvents == [
    gattOperationReceived |-> Event(Plain(<<One("GattOperationType")>>)),
    characteristicOperationReceived |-> Event(Plain(<<One("CharacteristicOperationType"),
        Opt("CharacteristicWriteType")>>)),
    descriptorOperationReceived |-> Event(Plain(<<One("DescriptorOperationType")>>))]

BrowserEvents == [
    downloadWillBegin |-> Event(Default(<<In("page", One("FrameId"))>>)),
    DownloadProgressState |-> Enum,
    downloadProgress |-> Event(Plain(<<One("DownloadProgressState")>>))]

CastEvents == [
    sinksUpdated |-> Event(Default(<<Many("Sink")>>)), issueUpdated |-> Event(Bare)]

ConsoleEvents == [messageAdded |-> Event(Plain(<<One("ConsoleMessage")>>))]

CssEvents == [
    fontsUpdated |-> Event(Default(<<Opt("FontFace")>>)),
    mediaQueryResultChanged |-> Event(Bare),
    styleSheetAdded |-> Event(Plain(<<One("CssStyleSheetHeader")>>)),
    styleSheetChanged |-> Event(Default(<<In("dom", One("StyleSheetId"))>>)),
    styleSheetRemoved |-> Event(Default(<<In("dom", One("StyleSheetId"))>>)),
    computedStyleUpdated |-> Event(Default(<<In("dom", One("NodeId"))>>))]

DebuggerEvents == [
    breakpointResolved |-> Event(Default(<<One("BreakpointId"), One("Location")>>)),
    PausedReason |-> Enum,
    paused |-> Event(Plain(<<Many("CallFrame"), One("PausedReason"),
        In("runtime", Opt("StackTrace")), In("runtime", Opt("StackTraceId")),
        In("runtime", Opt("StackTraceId"))>>)), resumed |-> Event(Bare),
    scriptFailedToParse |-> Event(Default(<<In("runtime", One("ScriptId")),
        In("runtime", One("ExecutionContextId")), In("runtime", Opt("StackTrace")),
        Opt("ScriptLanguage")>>)),
    scriptParsed |-> Event(Default(<<In("runtime", One("ScriptId")),
        In("runtime", One("ExecutionContextId")), In("runtime", Opt("StackTrace")),
        Opt("ScriptLanguage"), OptMany("DebugSymbols"),
        OptMany("ResolvedBreakpoint")>>))]

DeviceAccessEvents == [
    deviceRequestPrompted |-> Event(Default(<<One("RequestId"),
        Many("PromptDevice")>>))]

DomEvents == [
    attributeModified |-> Event(Default(<<One("NodeId")>>)),
    adoptedStyleSheetsModified |-> Event(Default(<<One("NodeId"),
        Many("StyleSheetId")>>)),
    attributeRemoved |-> Event(Default(<<One("NodeId")>>)),
    characterDataModified |-> Event(Default(<<One("NodeId")>>)),
    childNodeCountUpdated |-> Event(Default(<<One("NodeId")>>)),
    childNodeInserted |-> Event(Default(<<One("NodeId"), One("NodeId"),
        One("Node")>>)),
    childNodeRemoved |-> Event(Default(<<One("NodeId"), One("NodeId")>>)),
    distributedNodesUpdated |-> Event(Default(<<One("NodeId"),
        Many("BackendNode")>>)), documentUpdated |-> Event(Bare),
    inlineStyleInvalidated |-> Event(Default(<<Many("NodeId")>>)),
    pseudoElementAdded |-> Event(Default(<<One("NodeId"), One("Node")>>)),
    topLayerElementsUpdated |-> Event(Bare),
    scrollableFlagUpdated |-> Event(Default(<<One("NodeId")>>)),
    adRelatedStateUpdated |-> Event(Default(<<One("NodeId"),
        In("network", Opt("AdProvenance"))>>)),
    affectedByStartingStylesFlagUpdated |-> Event(Default(<<One("NodeId")>>)),
    pseudoElementRemoved |-> Event(Default(<<One("NodeId"), One("NodeId")>>)),
    setChildNodes |-> Event(Default(<<One("NodeId"), Many("Node")>>)),
    shadowRootPopped |-> Event(Default(<<One("NodeId"), One("NodeId")>>)),
    shadowRootPushed |-> Event(Default(<<One("NodeId"), One("Node")>>))]

DomStorageEvents == [
    domStorageItemAdded |-> Event(Default(<<One("StorageId")>>)),
    domStorageItemRemoved |-> Event(Default(<<One("StorageId")>>)),
    domStorageItemUpdated |-> Event(Default(<<One("StorageId")>>)),
    domStorageItemsCleared |-> Event(Default(<<One("StorageId")>>))]

EmulationEvents == [
    virtualTimeBudgetExpired |-> Event(Bare),
    screenOrientationLockChanged |-> Event(Default(<<Opt("ScreenOrientation")>>))]

FedCmEvents == [
    dialogShown |-> Event(Plain(<<One("DialogType"), Many("Account")>>)),
    dialogClosed |-> Event(Bare)]

FetchEvents == [
    requestPaused |-> Event(Plain(<<One("RequestId"), In("network", One("Request")),
        In("page", One("FrameId")), In("network", One("ResourceType")),
        In("network", Opt("ErrorReason")), OptMany("HeaderEntry"),
        In("network", Opt("RequestId")), Opt("RequestId")>>)),
    authRequired |-> Event(Plain(<<One("RequestId"), In("network", One("Request")),
        In("page", One("FrameId")), In("network", One("ResourceType")),
        One("AuthChallenge")>>))]

HeapProfilerEvents == [
    addHeapSnapshotChunk |-> Event(Bare), heapStatsUpdate |-> Event(Bare),
    lastSeenObjectId |-> Event(Bare), reportHeapSnapshotProgress |-> Event(Bare),
    resetProfiles |-> Event(Bare)]

InputEvents == [dragIntercepted |-> Event(Default(<<One("DragData")>>))]

InspectorEvents == [
    detached |-> Event(Bare), targetCrashed |-> Event(Bare),
    targetReloadedAfterCrash |-> Event(Bare), workerScriptLoaded |-> Event(Bare)]

LayerTreeEvents == [
    layerPainted |-> Event(Default(<<One("LayerId"), In("dom", One("Rect"))>>)),
    layerTreeDidChange |-> Event(Default(<<OptMany("Layer")>>))]

LogEvents == [entryAdded |-> Event(Plain(<<One("LogEntry")>>))]

MediaEvents == [
    playerPropertiesChanged |-> Event(Default(<<One("PlayerId"),
        Many("PlayerProperty")>>)),
    playerEventsAdded |-> Event(Default(<<One("PlayerId"), Many("PlayerEvent")>>)),
    playerMessagesLogged |-> Event(Default(<<One("PlayerId"),
        Many("PlayerMessage")>>)),
    playerErrorsRaised |-> Event(Default(<<One("PlayerId"), Many("PlayerError")>>)),
    playerCreated |-> Event(Default(<<One("Player")>>))]

NetworkEvents == [
    dataReceived |-> Event(Default(<<One("RequestId"), One("MonotonicTime")>>)),
    eventSourceMessageReceived |-> Event(Default(<<One("RequestId"),
        One("MonotonicTime")>>)),
    loadingFailed |-> Event(Plain(<<One("RequestId"), One("MonotonicTime"),
        One("ResourceType"), Opt("BlockedReason"), Opt("CorsErrorStatus")>>)),
    loadingFinished |-> Event(Default(<<One("RequestId"), One("MonotonicTime")>>)),
    requestServedFromCache |-> Event(Default(<<One("RequestId")>>)),
    requestWillBeSent |-> Event(Plain(<<One("RequestId"), One("LoaderId"),
        One("Request"), One("MonotonicTime"), One("TimeSinceEpoch"),
        One("Initiator"), Opt("Response"), Opt("ResourceType"),
        In("page", Opt("FrameId")), Opt("RenderBlockingBehavior")>>)),
    resourceChangedPriority |-> Event(Plain(<<One("RequestId"),
        One("ResourcePriority"), One("MonotonicTime")>>)),
    signedExchangeReceived |-> Event(Plain(<<One("RequestId"),
        One("SignedExchangeInfo")>>)),
    responseReceived |-> Event(Plain(<<One("RequestId"), One("LoaderId"),
        One("MonotonicTime"), One("ResourceType"), One("Response"),
        In("page", Opt("FrameId"))>>)),
    webSocketClosed |-> Event(Default(<<One("RequestId"), One("MonotonicTime")>>)),
    webSocketCreated |-> Event(Default(<<One("RequestId"), Opt("Initiator")>>)),
    webSocketFrameError |-> Event(Default(<<One("RequestId"),
        One("MonotonicTime")>>)),
    webSocketFrameReceived |-> Event(Default(<<One("RequestId"),
        One("MonotonicTime"), One("WebSocketFrame")>>)),
    webSocketFrameSent |-> Event(Default(<<One("RequestId"), One("MonotonicTime"),
        One("WebSocketFrame")>>)),
    webSocketHandshakeResponseReceived |-> Event(Default(<<One("RequestId"),
        One("MonotonicTime"), One("WebSocketResponse")>>)),
    webSocketWillSendHandshakeRequest |-> Event(Default(<<One("RequestId"),
        One("MonotonicTime"), One("TimeSinceEpoch"), One("WebSocketRequest")>>)),
    webTransportCreated |-> Event(Default(<<One("RequestId"), One("MonotonicTime"),
        Opt("Initiator")>>)),
    webTransportConnectionEstablished |-> Event(Default(<<One("RequestId"),
        One("MonotonicTime")>>)),
    webTransportClosed |-> Event(Default(<<One("RequestId"),
        One("MonotonicTime")>>)),
    directTCPSocketCreated |-> Event(Default(<<One("RequestId"),
        One("DirectTcpSocketOptions"), One("MonotonicTime"), Opt("Initiator")>>)),
    directTCPSocketOpened |-> Event(Default(<<One("RequestId"),
        One("MonotonicTime")>>)),
    directTCPSocketAborted |-> Event(Plain(<<One("RequestId"), One("ErrorReason"),
        One("MonotonicTime")>>)),
    directTCPSocketClosed |-> Event(Default(<<One("RequestId"),
        One("MonotonicTime")>>)),
    directTCPSocketChunkSent |-> Event(Default(<<One("RequestId"),
        One("MonotonicTime")>>)),
    directTCPSocketChunkReceived |-> Event(Default(<<One("RequestId"),
        One("MonotonicTime")>>)),
    directUDPSocketJoinedMulticastGroup |-> Event(Default(<<One("RequestId")>>)),
    directUDPSocketLeftMulticastGroup |-> Event(Default(<<One("RequestId")>>)),
    directUDPSocketCreated |-> Event(Default(<<One("RequestId"),
        One("DirectUdpSocketOptions"), One("MonotonicTime"), Opt("Initiator")>>)),
    directUDPSocketOpened |-> Event(Default(<<One("RequestId"),
        One("MonotonicTime")>>)),
    directUDPSocketAborted |-> Event(Plain(<<One("RequestId"), One("ErrorReason"),
        One("MonotonicTime")>>)),
    directUDPSocketClosed |-> Event(Default(<<One("RequestId"),
        One("MonotonicTime")>>)),
    directUDPSocketChunkSent |-> Event(Default(<<One("RequestId"),
        One("DirectUdpMessage"), One("MonotonicTime")>>)),
    directUDPSocketChunkReceived |-> Event(Default(<<One("RequestId"),
        One("DirectUdpMessage"), One("MonotonicTime")>>)),
    requestWillBeSentExtraInfo |-> Event(Default(<<One("RequestId"),
        Many("AssociatedCookie"), One("Headers"), One("ConnectTiming"),
        OptMany("DeviceBoundSessionWithUsage"), Opt("ClientSecurityState")>>)),
    responseReceivedExtraInfo |-> Event(Plain(<<One("RequestId"),
        Many("BlockedSetCookieWithReason"), One("Headers"), One("IpAddressSpace"),
        Opt("CookiePartitionKey"), OptMany("ExemptedSetCookieWithReason")>>)),
    responseReceivedEarlyHints |-> Event(Default(<<One("RequestId"),
        One("Headers")>>)), TrustTokenOperationDoneStatus |-> Enum,
    trustTokenOperationDone |-> Event(Plain(<<One("TrustTokenOperationDoneStatus"),
        One("TrustTokenOperationType"), One("RequestId")>>)),
    policyUpdated |-> Event(Bare),
    reportingApiReportAdded |-> Event(Plain(<<One("ReportingApiReport")>>)),
    reportingApiReportUpdated |-> Event(Plain(<<One("ReportingApiReport")>>)),
    reportingApiEndpointsChangedForOrigin |-> Event(Default(<<Many("ReportingApiEndpoint")>>)),
    deviceBoundSessionsAdded |-> Event(Default(<<Many("DeviceBoundSession")>>)),
    deviceBoundSessionEventOccurred |-> Event(Default(<<One("DeviceBoundSessionEventId"),
        Opt("CreationEventDetails"), Opt("RefreshEventDetails"),
        Opt("TerminationEventDetails"), Opt("ChallengeEventDetails")>>))]

OverlayEvents == [
    inspectNodeRequested |-> Event(Default(<<In("dom", One("BackendNodeId"))>>)),
    nodeHighlightRequested |-> Event(Default(<<In("dom", One("NodeId"))>>)),
    screenshotRequested |-> Event(Default(<<In("page", One("Viewport"))>>)),
    inspectPanelShowRequested |-> Event(Default(<<In("dom", One("BackendNodeId"))>>)),
    inspectedElementWindowRestored |-> Event(Default(<<In("dom", One("BackendNodeId"))>>)),
    inspectModeCanceled |-> Event(Bare)]

PageEvents == [
    domContentEventFired |-> Event(Default(<<In("network", One("MonotonicTime"))>>)),
    FileChooserOpenedMode |-> Enum,
    fileChooserOpened |-> Event(Plain(<<One("FrameId"),
        One("FileChooserOpenedMode"), In("dom", Opt("BackendNodeId"))>>)),
    frameAttached |-> Event(Default(<<One("FrameId"), One("FrameId"),
        In("runtime", Opt("StackTrace"))>>)),
    frameClearedScheduledNavigation |-> Event(Default(<<One("FrameId")>>)),
    FrameDetachedReason |-> Enum,
    frameDetached |-> Event(Plain(<<One("FrameId"), One("FrameDetachedReason")>>)),
    frameSubtreeWillBeDetached |-> Event(Default(<<One("FrameId")>>)),
    frameNavigated |-> Event(Plain(<<One("Frame"), One("NavigationType")>>)),
    documentOpened |-> Event(Plain(<<One("Frame")>>)), frameResized |-> Event(Bare),
    FrameStartedNavigatingNavigationType |-> Enum,
    frameStartedNavigating |-> Event(Plain(<<One("FrameId"),
        In("network", One("LoaderId")),
        One("FrameStartedNavigatingNavigationType")>>)),
    frameRequestedNavigation |-> Event(Plain(<<One("FrameId"),
        One("ClientNavigationReason"), One("ClientNavigationDisposition")>>)),
    frameScheduledNavigation |-> Event(Plain(<<One("FrameId"),
        One("ClientNavigationReason")>>)),
    frameStartedLoading |-> Event(Default(<<One("FrameId")>>)),
    frameStoppedLoading |-> Event(Default(<<One("FrameId")>>)),
    downloadWillBegin |-> Event(Default(<<One("FrameId")>>)),
    DownloadProgressState |-> Enum,
    downloadProgress |-> Event(Plain(<<One("DownloadProgressState")>>)),
    interstitialHidden |-> Event(Bare), interstitialShown |-> Event(Bare),
    javascriptDialogClosed |-> Event(Default(<<One("FrameId")>>)),
    javascriptDialogOpening |-> Event(Plain(<<One("FrameId"), One("DialogType")>>)),
    lifecycleEvent |-> Event(Default(<<One("FrameId"),
        In("network", One("LoaderId")), In("network", One("MonotonicTime"))>>)),
    backForwardCacheNotUsed |-> Event(Default(<<In("network", One("LoaderId")),
        One("FrameId"), Many("BackForwardCacheNotRestoredExplanation"),
        Opt("BackForwardCacheNotRestoredExplanationTree")>>)),
    loadEventFired |-> Event(Default(<<In("network", One("MonotonicTime"))>>)),
    NavigatedWithinDocumentNavigationType |-> Enum,
    navigatedWithinDocument |-> Event(Plain(<<One("FrameId"),
        One("NavigatedWithinDocumentNavigationType")>>)),
    screencastFrame |-> Event(Default(<<One("ScreencastFrameMetadata")>>)),
    screencastVisibilityChanged |-> Event(Bare), windowOpen |-> Event(Bare),
    compilationCacheProduced |-> Event(Bare)]

PerformanceEvents == [metrics |-> Event(Default(<<Many("Metric")>>))]

PerformanceTimelineEvents == [
    timelineEventAdded |-> Event(Default(<<One("TimelineEvent")>>))]

PreloadEvents == [
    ruleSetUpdated |-> Event(Default(<<One("RuleSet")>>)),
    ruleSetRemoved |-> Event(Default(<<One("RuleSetId")>>)),
    preloadEnabledStateUpdated |-> Event(Bare),
    prefetchStatusUpdated |-> Event(Plain(<<One("PreloadingAttemptKey"),
        One("PreloadPipelineId"), In("page", One("FrameId")),
        One("PreloadingStatus"), One("PrefetchStatus"),
        In("network", One("RequestId"))>>)),
    prerenderStatusUpdated |-> Event(Plain(<<One("PreloadingAttemptKey"),
        One("PreloadPipelineId"), One("PreloadingStatus"),
        Opt("PrerenderFinalStatus"), OptMany("PrerenderMismatchedHeaders")>>)),
    preloadingAttemptSourcesUpdated |-> Event(Default(<<In("network", One("LoaderId")),
        Many("PreloadingAttemptSource")>>))]

ProfilerEvents == [
    consoleProfileFinished |-> Event(Default(<<In("debugger", One("Location")),
        One("Profile")>>)),
    consoleProfileStarted |-> Event(Default(<<In("debugger", One("Location"))>>)),
    preciseCoverageDeltaUpdate |-> Event(Default(<<Many("ScriptCoverage")>>))]

RuntimeEvents == [
    bindingCalled |-> Event(Default(<<One("ExecutionContextId")>>)),
    ConsoleApiCalledType |-> Enum,
    consoleAPICalled |-> Event(Plain(<<One("ConsoleApiCalledType"),
        Many("RemoteObject"), One("ExecutionContextId"), One("Timestamp"),
        Opt("StackTrace")>>)), exceptionRevoked |-> Event(Bare),
    exceptionThrown |-> Event(Default(<<One("Timestamp"),
        One("ExceptionDetails")>>)),
    executionContextCreated |-> Event(Default(<<One("ExecutionContextDescription")>>)),
    executionContextDestroyed |-> Event(Default(<<One("ExecutionContextId")>>)),
    executionContextsCleared |-> Event(Bare),
    inspectRequested |-> Event(Plain(<<One("RemoteObject"),
        Opt("ExecutionContextId")>>))]

SecurityEvents == [
    certificateError |-> Event(Bare),
    visibleSecurityStateChanged |-> Event(Plain(<<One("VisibleSecurityState")>>)),
    securityStateChanged |-> Event(Plain(<<One("SecurityState"),
        Many("SecurityStateExplanation"), One("InsecureContentStatus")>>))]

ServiceWorkerEvents == [
    workerErrorReported |-> Event(Default(<<One("ServiceWorkerErrorMessage")>>)),
    workerRegistrationUpdated |-> Event(Default(<<Many("ServiceWorkerRegistration")>>)),
    workerVersionUpdated |-> Event(Default(<<Many("ServiceWorkerVersion")>>))]

SmartCardEmulationEvents == [
    establishContextRequested |-> Event(Bare),
    releaseContextRequested |-> Event(Bare), listReadersRequested |-> Event(Bare),
    getStatusChangeRequested |-> Event(Default(<<Many("ReaderStateIn")>>)),
    cancelRequested |-> Event(Bare),
    connectRequested |-> Event(Plain(<<One("ShareMode"), One("ProtocolSet")>>)),
    disconnectRequested |-> Event(Plain(<<One("Disposition")>>)),
    transmitRequested |-> Event(Default(<<Opt("Protocol")>>)),
    controlRequested |-> Event(Bare), getAttribRequested |-> Event(Bare),
    setAttribRequested |-> Event(Bare), statusRequested |-> Event(Bare),
    beginTransactionRequested |-> Event(Bare),
    endTransactionRequested |-> Event(Plain(<<One("Disposition")>>))]

StorageEvents == [
    cacheStorageContentUpdated |-> Event(Bare),
    cacheStorageListUpdated |-> Event(Bare),
    indexedDBContentUpdated |-> Event(Bare), indexedDBListUpdated |-> Event(Bare),
    sharedStorageAccessed |-> Event(Plain(<<In("network", One("TimeSinceEpoch")),
        One("SharedStorageAccessScope"), One("SharedStorageAccessMethod"),
        In("page", One("FrameId")), One("SharedStorageAccessParams")>>)),
    sharedStorageWorkletOperationExecutionFinished |-> Event(Plain(<<In("network", One("TimeSinceEpoch")),
        One("SharedStorageAccessMethod"), In("target", One("TargetId")),
        In("page", One("FrameId"))>>)),
    storageBucketCreatedOrUpdated |-> Event(Plain(<<One("StorageBucketInfo")>>)),
    storageBucketDeleted |-> Event(Bare)]

TargetEvents == [
    attachedToTarget |-> Event(Default(<<One("SessionId"), One("TargetInfo")>>)),
    detachedFromTarget |-> Event(Default(<<One("SessionId"), Opt("TargetId")>>)),
    receivedMessageFromTarget |-> Event(Default(<<One("SessionId"),
        Opt("TargetId")>>)),
    targetCreated |-> Event(Default(<<One("TargetInfo")>>)),
    targetDestroyed |-> Event(Default(<<One("TargetId")>>)),
    targetCrashed |-> Event(Default(<<One("TargetId")>>)),
    targetInfoChanged |-> Event(Default(<<One("TargetInfo")>>))]

TetheringEvents == [accepted |-> Event(Bare)]

TracingEvents == [
    bufferUsage |-> Event(Bare), dataCollected |-> Event(Bare),
    tracingComplete |-> Event(Default(<<In("io", Opt("StreamHandle")),
        Opt("StreamFormat"), Opt("StreamCompression")>>))]

WebAudioEvents == [
    contextCreated |-> Event(Plain(<<One("BaseAudioContext")>>)),
    contextWillBeDestroyed |-> Event(Default(<<One("GraphObjectId")>>)),
    contextChanged |-> Event(Plain(<<One("BaseAudioContext")>>)),
    audioListenerCreated |-> Event(Default(<<One("AudioListener")>>)),
    audioListenerWillBeDestroyed |-> Event(Default(<<One("GraphObjectId"),
        One("GraphObjectId")>>)),
    audioNodeCreated |-> Event(Plain(<<One("AudioNode")>>)),
    audioNodeWillBeDestroyed |-> Event(Default(<<One("GraphObjectId"),
        One("GraphObjectId")>>)),
    audioParamCreated |-> Event(Plain(<<One("AudioParam")>>)),
    audioParamWillBeDestroyed |-> Event(Default(<<One("GraphObjectId"),
        One("GraphObjectId"), One("GraphObjectId")>>)),
    nodesConnected |-> Event(Default(<<One("GraphObjectId"), One("GraphObjectId"),
        One("GraphObjectId")>>)),
    nodesDisconnected |-> Event(Default(<<One("GraphObjectId"),
        One("GraphObjectId"), One("GraphObjectId")>>)),
    nodeParamConnected |-> Event(Default(<<One("GraphObjectId"),
        One("GraphObjectId"), One("GraphObjectId")>>)),
    nodeParamDisconnected |-> Event(Default(<<One("GraphObjectId"),
        One("GraphObjectId"), One("GraphObjectId")>>))]

WebAuthnEvents == [
    credentialAdded |-> Event(Default(<<One("AuthenticatorId"),
        One("Credential")>>)),
    credentialDeleted |-> Event(Default(<<One("AuthenticatorId")>>)),
    credentialUpdated |-> Event(Default(<<One("AuthenticatorId"),
        One("Credential")>>)),
    credentialAsserted |-> Event(Default(<<One("AuthenticatorId"),
        One("Credential")>>))]

WebMcpEvents == [
    toolsAdded |-> Event(Default(<<Many("Tool")>>)),
    toolsRemoved |-> Event(Default(<<Many("RemovedTool")>>)),
    toolInvoked |-> Event(Default(<<In("page", One("FrameId"))>>)),
    toolResponded |-> Event(Plain(<<One("InvocationStatus"),
        In("runtime", Opt("RemoteObject"))>>))]
=============================================================================
