--------------------------- MODULE ProtocolCommands ---------------------------
(***************************************************************************)
(* The commands of each domain, by the name its METHOD ends in: the struct of*)
(* the parameters, that of the answer, and the enums of their fields.      *)
(***************************************************************************)
EXTENDS ProtocolSyntax

AccessibilityCommands == [
    disable |-> Command(Bare, NoReturns), enable |-> Command(Bare, NoReturns),
    getPartialAXTree |-> Command(Default(<<In("dom", Opt("NodeId")),
        In("dom", Opt("BackendNodeId")), In("runtime", Opt("RemoteObjectId"))>>),
        Default(<<Many("AxNode")>>)),
    getFullAXTree |-> Command(Default(<<In("page", Opt("FrameId"))>>),
        Default(<<Many("AxNode")>>)),
    getRootAXNode |-> Command(Default(<<In("page", Opt("FrameId"))>>),
        Default(<<One("AxNode")>>)),
    getAXNodeAndAncestors |-> Command(Default(<<In("dom", Opt("NodeId")),
        In("dom", Opt("BackendNodeId")), In("runtime", Opt("RemoteObjectId"))>>),
        Default(<<Many("AxNode")>>)),
    getChildAXNodes |-> Command(Default(<<One("AxNodeId"),
        In("page", Opt("FrameId"))>>), Default(<<Many("AxNode")>>)),
    queryAXTree |-> Command(Default(<<In("dom", Opt("NodeId")),
        In("dom", Opt("BackendNodeId")), In("runtime", Opt("RemoteObjectId"))>>),
        Default(<<Many("AxNode")>>))]

AdsCommands == [getAdMetrics |-> Command(Bare, Default(<<One("AdMetrics")>>))]

AnimationCommands == [
    disable |-> Command(Bare, NoReturns), enable |-> Command(Bare, NoReturns),
    getCurrentTime |-> Command(Bare, Bare), getPlaybackRate |-> Command(Bare, Bare),
    releaseAnimations |-> Command(Bare, NoReturns),
    resolveAnimation |-> Command(Bare, Plain(<<In("runtime", One("RemoteObject"))>>)),
    seekAnimations |-> Command(Bare, NoReturns),
    setPaused |-> Command(Bare, NoReturns),
    setPlaybackRate |-> Command(Bare, NoReturns),
    setTiming |-> Command(Bare, NoReturns)]

AuditsCommands == [
    GetEncodedResponseEncoding |-> Enum,
    getEncodedResponse |-> Command(Plain(<<In("network", One("RequestId")),
        One("GetEncodedResponseEncoding")>>), Bare),
    disable |-> Command(Bare, NoReturns), enable |-> Command(Bare, NoReturns),
    checkFormsIssues |-> Command(Bare, Default(<<Many("GenericIssueDetails")>>))]

AutofillCommands == [
    trigger |-> Command(Default(<<In("dom", One("BackendNodeId")),
        In("page", Opt("FrameId")), Opt("CreditCard"), Opt("Address")>>),
        NoReturns),
    setAddresses |-> Command(Default(<<Many("Address")>>), NoReturns),
    disable |-> Command(Bare, NoReturns), enable |-> Command(Bare, NoReturns)]

BackgroundServiceCommands == [
    startObserving |-> Command(Plain(<<One("ServiceName")>>), NoReturns),
    stopObserving |-> Command(Plain(<<One("ServiceName")>>), NoReturns),
    setRecording |-> Command(Plain(<<One("ServiceName")>>), NoReturns),
    clearEvents |-> Command(Plain(<<One("ServiceName")>>), NoReturns)]

BluetoothEmulationCommands == [
    enable |-> Command(Plain(<<One("CentralState")>>), NoReturns),
    setSimulatedCentralState |-> Command(Plain(<<One("CentralState")>>), NoReturns),
    disable |-> Command(Bare, NoReturns),
    simulatePreconnectedPeripheral |-> Command(Default(<<Many("ManufacturerData")>>),
        NoReturns),
    simulateAdvertisement |-> Command(Default(<<One("ScanEntry")>>), NoReturns),
    simulateGATTOperationResponse |-> Command(Plain(<<One("GattOperationType")>>),
        NoReturns),
    simulateCharacteristicOperationResponse |-> Command(Plain(<<One("CharacteristicOperationType")>>),
        NoReturns),
    simulateDescriptorOperationResponse |-> Command(Plain(<<One("DescriptorOperationType")>>),
        NoReturns), addService |-> Command(Bare, Bare),
    removeService |-> Command(Bare, NoReturns),
    addCharacteristic |-> Command(Default(<<One("CharacteristicProperties")>>),
        Bare), removeCharacteristic |-> Command(Bare, NoReturns),
    addDescriptor |-> Command(Bare, Bare),
    removeDescriptor |-> Command(Bare, NoReturns),
    simulateGATTDisconnection |-> Command(Bare, NoReturns)]

BrowserCommands == [
    setPermission |-> Command(Plain(<<One("PermissionDescriptor"),
        One("PermissionSetting"), Opt("BrowserContextId")>>), NoReturns),
    grantPermissions |-> Command(Default(<<Many("PermissionType"),
        Opt("BrowserContextId")>>), NoReturns),
    resetPermissions |-> Command(Default(<<Opt("BrowserContextId")>>), NoReturns),
    SetDownloadBehaviorBehavior |-> Enum,
    setDownloadBehavior |-> Command(Plain(<<One("SetDownloadBehaviorBehavior"),
        Opt("BrowserContextId")>>), NoReturns),
    cancelDownload |-> Command(Default(<<Opt("BrowserContextId")>>), NoReturns),
    close |-> Command(Bare, NoReturns), crash |-> Command(Bare, NoReturns),
    crashGpuProcess |-> Command(Bare, NoReturns),
    getVersion |-> Command(Bare, Bare),
    getBrowserCommandLine |-> Command(Bare, Bare),
    getHistograms |-> Command(Bare, Default(<<Many("Histogram")>>)),
    getHistogram |-> Command(Bare, Default(<<One("Histogram")>>)),
    getWindowBounds |-> Command(Default(<<One("WindowId")>>),
        Default(<<One("Bounds")>>)),
    getWindowForTarget |-> Command(Default(<<In("target", Opt("TargetId"))>>),
        Default(<<One("WindowId"), One("Bounds")>>)),
    setWindowBounds |-> Command(Default(<<One("WindowId"), One("Bounds")>>),
        NoReturns),
    setContentsSize |-> Command(Default(<<One("WindowId")>>), NoReturns),
    setDockTile |-> Command(Bare, NoReturns),
    executeBrowserCommand |-> Command(Plain(<<One("BrowserCommandId")>>),
        NoReturns), addPrivacySandboxEnrollmentOverride |-> Command(Bare, NoReturns)]

CacheStorageCommands == [
    deleteCache |-> Command(Default(<<One("CacheId")>>), NoReturns),
    deleteEntry |-> Command(Default(<<One("CacheId")>>), NoReturns),
    requestCacheNames |-> Command(Default(<<In("storage", Opt("StorageBucket"))>>),
        Default(<<Many("Cache")>>)),
    requestCachedResponse |-> Command(Default(<<One("CacheId"), Many("Header")>>),
        Default(<<One("CachedResponse")>>)),
    requestEntries |-> Command(Default(<<One("CacheId")>>),
        Default(<<Many("DataEntry")>>))]

CastCommands == [
    enable |-> Command(Bare, NoReturns), disable |-> Command(Bare, NoReturns),
    setSinkToUse |-> Command(Bare, NoReturns),
    startDesktopMirroring |-> Command(Bare, NoReturns),
    startTabMirroring |-> Command(Bare, NoReturns),
    stopCasting |-> Command(Bare, NoReturns)]

ConsoleCommands == [
    clearMessages |-> Command(Bare, NoReturns),
    disable |-> Command(Bare, NoReturns), enable |-> Command(Bare, NoReturns)]

CrashReportContextCommands == [
    getEntries |-> Command(Bare, Default(<<Many("CrashReportContextEntry")>>))]

CssCommands == [
    addRule |-> Command(Default(<<In("dom", One("StyleSheetId")),
        One("SourceRange"), In("dom", Opt("NodeId"))>>), Plain(<<One("CssRule")>>)),
    collectClassNames |-> Command(Default(<<In("dom", One("StyleSheetId"))>>),
        Bare),
    createStyleSheet |-> Command(Default(<<In("page", One("FrameId"))>>),
        Default(<<In("dom", One("StyleSheetId"))>>)),
    disable |-> Command(Bare, NoReturns), enable |-> Command(Bare, NoReturns),
    forcePseudoState |-> Command(Default(<<In("dom", One("NodeId"))>>), NoReturns),
    forceStartingStyle |-> Command(Default(<<In("dom", One("NodeId"))>>),
        NoReturns),
    getBackgroundColors |-> Command(Default(<<In("dom", One("NodeId"))>>), Bare),
    getComputedStyleForNode |-> Command(Default(<<In("dom", One("NodeId"))>>),
        Default(<<Many("CssComputedStyleProperty"),
        One("ComputedStyleExtraFields")>>)),
    resolveValues |-> Command(Default(<<In("dom", One("NodeId")),
        In("dom", Opt("PseudoType"))>>), Bare),
    getLonghandProperties |-> Command(Bare, Default(<<Many("CssProperty")>>)),
    getInlineStylesForNode |-> Command(Default(<<In("dom", One("NodeId"))>>),
        Default(<<Opt("CssStyle"), Opt("CssStyle")>>)),
    getAnimatedStylesForNode |-> Command(Default(<<In("dom", One("NodeId"))>>),
        Default(<<OptMany("CssAnimationStyle"), Opt("CssStyle"),
        OptMany("InheritedAnimatedStyleEntry")>>)),
    getMatchedStylesForNode |-> Command(Default(<<In("dom", One("NodeId"))>>),
        Default(<<Opt("CssStyle"), Opt("CssStyle"), OptMany("RuleMatch"),
        OptMany("PseudoElementMatches"), OptMany("InheritedStyleEntry"),
        OptMany("InheritedPseudoElementMatches"), OptMany("CssKeyframesRule"),
        OptMany("CssPositionTryRule"), OptMany("CssPropertyRule"),
        OptMany("CssPropertyRegistration"), OptMany("CssAtRule"),
        In("dom", Opt("NodeId")), OptMany("CssFunctionRule")>>)),
    getEnvironmentVariables |-> Command(Bare, Bare),
    getMediaQueries |-> Command(Bare, Default(<<Many("CssMedia")>>)),
    getPlatformFontsForNode |-> Command(Default(<<In("dom", One("NodeId"))>>),
        Default(<<Many("PlatformFontUsage")>>)),
    getStyleSheetText |-> Command(Default(<<In("dom", One("StyleSheetId"))>>),
        Bare),
    getLayersForNode |-> Command(Default(<<In("dom", One("NodeId"))>>),
        Default(<<One("CssLayerData")>>)),
    getLocationForSelector |-> Command(Default(<<In("dom", One("StyleSheetId"))>>),
        Default(<<Many("SourceRange")>>)),
    trackComputedStyleUpdatesForNode |-> Command(Default(<<In("dom", Opt("NodeId"))>>),
        NoReturns),
    trackComputedStyleUpdates |-> Command(Default(<<Many("CssComputedStyleProperty")>>),
        NoReturns),
    takeComputedStyleUpdates |-> Command(Bare, Default(<<In("dom", Many("NodeId"))>>)),
    setEffectivePropertyValueForNode |-> Command(Default(<<In("dom", One("NodeId"))>>),
        NoReturns),
    setPropertyRulePropertyName |-> Command(Default(<<In("dom", One("StyleSheetId")),
        One("SourceRange")>>), Default(<<One("Value")>>)),
    setKeyframeKey |-> Command(Default(<<In("dom", One("StyleSheetId")),
        One("SourceRange")>>), Default(<<One("Value")>>)),
    setMediaText |-> Command(Default(<<In("dom", One("StyleSheetId")),
        One("SourceRange")>>), Plain(<<One("CssMedia")>>)),
    setContainerQueryText |-> Command(Default(<<In("dom", One("StyleSheetId")),
        One("SourceRange")>>), Default(<<One("CssContainerQuery")>>)),
    setContainerQueryConditionText |-> Command(Default(<<In("dom", One("StyleSheetId")),
        One("SourceRange")>>), Default(<<One("CssContainerQuery")>>)),
    setSupportsText |-> Command(Default(<<In("dom", One("StyleSheetId")),
        One("SourceRange")>>), Default(<<One("CssSupports")>>)),
    setNavigationText |-> Command(Default(<<In("dom", One("StyleSheetId")),
        One("SourceRange")>>), Default(<<One("CssNavigation")>>)),
    setScopeText |-> Command(Default(<<In("dom", One("StyleSheetId")),
        One("SourceRange")>>), Default(<<One("CssScope")>>)),
    setRuleSelector |-> Command(Default(<<In("dom", One("StyleSheetId")),
        One("SourceRange")>>), Default(<<One("SelectorList")>>)),
    setStyleSheetText |-> Command(Default(<<In("dom", One("StyleSheetId"))>>),
        Bare),
    setStyleTexts |-> Command(Default(<<Many("StyleDeclarationEdit"),
        In("dom", Opt("NodeId"))>>), Default(<<Many("CssStyle")>>)),
    startRuleUsageTracking |-> Command(Bare, NoReturns),
    stopRuleUsageTracking |-> Command(Bare, Default(<<Many("RuleUsage")>>)),
    takeCoverageDelta |-> Command(Bare, Default(<<Many("RuleUsage")>>)),
    setLocalFontsEnabled |-> Command(Bare, NoReturns)]

DebuggerCommands == [
    ContinueToLocationTargetCallFrames |-> Enum,
    continueToLocation |-> Command(Default(<<One("Location"),
        Opt("ContinueToLocationTargetCallFrames")>>), NoReturns),
    disable |-> Command(Bare, NoReturns),
    enable |-> Command(Bare, Default(<<In("runtime", One("UniqueDebuggerId"))>>)),
    evaluateOnCallFrame |-> Command(Default(<<One("CallFrameId"),
        In("runtime", Opt("TimeDelta"))>>),
        Plain(<<In("runtime", One("RemoteObject")),
        In("runtime", Opt("ExceptionDetails"))>>)),
    getPossibleBreakpoints |-> Command(Default(<<One("Location"),
        Opt("Location")>>), Default(<<Many("BreakLocation")>>)),
    getScriptSource |-> Command(Default(<<In("runtime", One("ScriptId"))>>), Bare),
    disassembleWasmModule |-> Command(Default(<<In("runtime", One("ScriptId"))>>),
        Default(<<One("WasmDisassemblyChunk")>>)),
    nextWasmDisassemblyChunk |-> Command(Bare, Default(<<One("WasmDisassemblyChunk")>>)),
    getWasmBytecode |-> Command(Default(<<In("runtime", One("ScriptId"))>>), Bare),
    getStackTrace |-> Command(Default(<<In("runtime", One("StackTraceId"))>>),
        Default(<<In("runtime", One("StackTrace"))>>)),
    pause |-> Command(Bare, NoReturns),
    pauseOnAsyncCall |-> Command(Default(<<In("runtime", One("StackTraceId"))>>),
        NoReturns),
    removeBreakpoint |-> Command(Default(<<One("BreakpointId")>>), NoReturns),
    RestartFrameMode |-> Enum,
    restartFrame |-> Command(Default(<<One("CallFrameId"),
        Opt("RestartFrameMode")>>), Default(<<Many("CallFrame"),
        In("runtime", Opt("StackTrace")), In("runtime", Opt("StackTraceId"))>>)),
    resume |-> Command(Bare, NoReturns),
    searchInContent |-> Command(Default(<<In("runtime", One("ScriptId"))>>),
        Default(<<Many("SearchMatch")>>)),
    setAsyncCallStackDepth |-> Command(Bare, NoReturns),
    setBlackboxExecutionContexts |-> Command(Bare, NoReturns),
    setBlackboxPatterns |-> Command(Bare, NoReturns),
    setBlackboxedRanges |-> Command(Default(<<In("runtime", One("ScriptId")),
        Many("ScriptPosition")>>), NoReturns),
    setBreakpoint |-> Command(Default(<<One("Location")>>),
        Default(<<One("BreakpointId"), One("Location")>>)),
    SetInstrumentationBreakpointInstrumentation |-> Enum,
    setInstrumentationBreakpoint |-> Command(Plain(<<One("SetInstrumentationBreakpointInstrumentation")>>),
        Default(<<One("BreakpointId")>>)),
    setBreakpointByUrl |-> Command(Bare, Default(<<One("BreakpointId"),
        Many("Location")>>)),
    setBreakpointOnFunctionCall |-> Command(Default(<<In("runtime", One("RemoteObjectId"))>>),
        Default(<<One("BreakpointId")>>)),
    setBreakpointsActive |-> Command(Bare, NoReturns),
    SetPauseOnExceptionsState |-> Enum,
    setPauseOnExceptions |-> Command(Plain(<<One("SetPauseOnExceptionsState")>>),
        NoReturns),
    setReturnValue |-> Command(Default(<<In("runtime", One("CallArgument"))>>),
        NoReturns), SetScriptSourceStatus |-> Enum,
    setScriptSource |-> Command(Default(<<In("runtime", One("ScriptId"))>>),
        Plain(<<OptMany("CallFrame"), In("runtime", Opt("StackTrace")),
        In("runtime", Opt("StackTraceId")), One("SetScriptSourceStatus"),
        In("runtime", Opt("ExceptionDetails"))>>)),
    setSkipAllPauses |-> Command(Bare, NoReturns),
    setVariableValue |-> Command(Default(<<In("runtime", One("CallArgument")),
        One("CallFrameId")>>), NoReturns),
    stepInto |-> Command(Default(<<OptMany("LocationRange")>>), NoReturns),
    stepOut |-> Command(Bare, NoReturns),
    stepOver |-> Command(Default(<<OptMany("LocationRange")>>), NoReturns)]

DeviceAccessCommands == [
    enable |-> Command(Bare, NoReturns), disable |-> Command(Bare, NoReturns),
    selectPrompt |-> Command(Default(<<One("RequestId"), One("DeviceId")>>),
        NoReturns),
    cancelPrompt |-> Command(Default(<<One("RequestId")>>), NoReturns)]

DeviceOrientationCommands == [
    clearDeviceOrientationOverride |-> Command(Bare, NoReturns),
    setDeviceOrientationOverride |-> Command(Bare, NoReturns)]

DigitalCredentialsCommands == [
    setVirtualWalletBehavior |-> Command(Plain(<<One("VirtualWalletAction"),
        In("page", Opt("FrameId"))>>), NoReturns)]

DomCommands == [
    collectClassNamesFromSubtree |-> Command(Default(<<One("NodeId")>>), Bare),
    copyTo |-> Command(Default(<<One("NodeId"), One("NodeId"), Opt("NodeId")>>),
        Default(<<One("NodeId")>>)),
    describeNode |-> Command(Default(<<Opt("NodeId"), Opt("BackendNodeId"),
        In("runtime", Opt("RemoteObjectId"))>>), Default(<<One("Node")>>)),
    scrollIntoViewIfNeeded |-> Command(Default(<<Opt("NodeId"),
        Opt("BackendNodeId"), In("runtime", Opt("RemoteObjectId")), Opt("Rect")>>),
        NoReturns), disable |-> Command(Bare, NoReturns),
    discardSearchResults |-> Command(Bare, NoReturns),
    EnableIncludeWhitespace |-> Enum,
    enable |-> Command(Default(<<Opt("EnableIncludeWhitespace")>>), NoReturns),
    focus |-> Command(Default(<<Opt("NodeId"), Opt("BackendNodeId"),
        In("runtime", Opt("RemoteObjectId"))>>), NoReturns),
    getAttributes |-> Command(Default(<<One("NodeId")>>), Bare),
    getBoxModel |-> Command(Default(<<Opt("NodeId"), Opt("BackendNodeId"),
        In("runtime", Opt("RemoteObjectId"))>>), Default(<<One("BoxModel")>>)),
    getContentQuads |-> Command(Default(<<Opt("NodeId"), Opt("BackendNodeId"),
        In("runtime", Opt("RemoteObjectId"))>>), Default(<<Many("Quad")>>)),
    getDocument |-> Command(Bare, Default(<<One("Node")>>)),
    getFlattenedDocument |-> Command(Bare, Default(<<Many("Node")>>)),
    getNodesForSubtreeByStyle |-> Command(Default(<<One("NodeId"),
        Many("CssComputedStyleProperty")>>), Default(<<Many("NodeId")>>)),
    getNodeForLocation |-> Command(Bare, Default(<<One("BackendNodeId"),
        In("page", One("FrameId")), Opt("NodeId")>>)),
    getOuterHTML |-> Command(Default(<<Opt("NodeId"), Opt("BackendNodeId"),
        In("runtime", Opt("RemoteObjectId"))>>), Bare),
    getRelayoutBoundary |-> Command(Default(<<One("NodeId")>>),
        Default(<<One("NodeId")>>)),
    getSearchResults |-> Command(Bare, Default(<<Many("NodeId")>>)),
    hideHighlight |-> Command(Bare, NoReturns),
    highlightNode |-> Command(Bare, NoReturns),
    highlightRect |-> Command(Bare, NoReturns),
    markUndoableState |-> Command(Bare, NoReturns),
    moveTo |-> Command(Default(<<One("NodeId"), One("NodeId"), Opt("NodeId")>>),
        Default(<<One("NodeId")>>)), performSearch |-> Command(Bare, Bare),
    pushNodeByPathToFrontend |-> Command(Bare, Default(<<One("NodeId")>>)),
    pushNodesByBackendIdsToFrontend |-> Command(Default(<<Many("BackendNodeId")>>),
        Default(<<Many("NodeId")>>)),
    querySelector |-> Command(Default(<<One("NodeId")>>),
        Default(<<One("NodeId")>>)),
    querySelectorAll |-> Command(Default(<<One("NodeId")>>),
        Default(<<Many("NodeId")>>)),
    getTopLayerElements |-> Command(Bare, Default(<<Many("NodeId")>>)),
    GetElementByRelationRelation |-> Enum,
    getElementByRelation |-> Command(Plain(<<One("NodeId"),
        One("GetElementByRelationRelation")>>), Default(<<One("NodeId")>>)),
    redo |-> Command(Bare, NoReturns),
    removeAttribute |-> Command(Default(<<One("NodeId")>>), NoReturns),
    removeNode |-> Command(Default(<<One("NodeId")>>), NoReturns),
    requestChildNodes |-> Command(Default(<<One("NodeId")>>), NoReturns),
    requestNode |-> Command(Default(<<In("runtime", One("RemoteObjectId"))>>),
        Default(<<One("NodeId")>>)),
    resolveNode |-> Command(Default(<<Opt("NodeId"), Opt("BackendNodeId"),
        In("runtime", Opt("ExecutionContextId"))>>),
        Plain(<<In("runtime", One("RemoteObject"))>>)),
    setAttributeValue |-> Command(Default(<<One("NodeId")>>), NoReturns),
    setAttributesAsText |-> Command(Default(<<One("NodeId")>>), NoReturns),
    setFileInputFiles |-> Command(Default(<<Opt("NodeId"), Opt("BackendNodeId"),
        In("runtime", Opt("RemoteObjectId"))>>), NoReturns),
    setNodeStackTracesEnabled |-> Command(Bare, NoReturns),
    getNodeStackTraces |-> Command(Default(<<One("NodeId")>>),
        Default(<<In("runtime", Opt("StackTrace"))>>)),
    getFileInfo |-> Command(Default(<<In("runtime", One("RemoteObjectId"))>>),
        Bare),
    getDetachedDomNodes |-> Command(Bare, Default(<<Many("DetachedElementInfo")>>)),
    setInspectedNode |-> Command(Default(<<One("NodeId")>>), NoReturns),
    setNodeName |-> Command(Default(<<One("NodeId")>>), Default(<<One("NodeId")>>)),
    setNodeValue |-> Command(Default(<<One("NodeId")>>), NoReturns),
    setOuterHTML |-> Command(Default(<<One("NodeId")>>), NoReturns),
    undo |-> Command(Bare, NoReturns),
    getFrameOwner |-> Command(Default(<<In("page", One("FrameId"))>>),
        Default(<<One("BackendNodeId"), Opt("NodeId")>>)),
    getContainerForNode |-> Command(Default(<<One("NodeId"), Opt("PhysicalAxes"),
        Opt("LogicalAxes")>>), Default(<<Opt("NodeId")>>)),
    getQueryingDescendantsForContainer |-> Command(Default(<<One("NodeId")>>),
        Default(<<Many("NodeId")>>)),
    getAnchorElement |-> Command(Default(<<One("NodeId")>>),
        Default(<<One("NodeId")>>)),
    forceShowPopover |-> Command(Default(<<One("NodeId"), Opt("BackendNodeId")>>),
        Default(<<Many("NodeId")>>)),
    forceShowInterest |-> Command(Default(<<One("NodeId")>>), NoReturns)]

DomDebuggerCommands == [
    getEventListeners |-> Command(Default(<<In("runtime", One("RemoteObjectId"))>>),
        Default(<<Many("EventListener")>>)),
    removeDOMBreakpoint |-> Command(Plain(<<In("dom", One("NodeId")),
        One("DomBreakpointType")>>), NoReturns),
    removeEventListenerBreakpoint |-> Command(Bare, NoReturns),
    removeInstrumentationBreakpoint |-> Command(Bare, NoReturns),
    removeXHRBreakpoint |-> Command(Bare, NoReturns),
    setBreakOnCSPViolation |-> Command(Default(<<Many("CspViolationType")>>),
        NoReturns),
    setDOMBreakpoint |-> Command(Plain(<<In("dom", One("NodeId")),
        One("DomBreakpointType")>>), NoReturns),
    setEventListenerBreakpoint |-> Command(Bare, NoReturns),
    setInstrumentationBreakpoint |-> Command(Bare, NoReturns),
    setXHRBreakpoint |-> Command(Bare, NoReturns)]

DomSnapshotCommands == [
    disable |-> Command(Bare, NoReturns), enable |-> Command(Bare, NoReturns),
    getSnapshot |-> Command(Bare, Default(<<Many("DomNode"), Many("LayoutTreeNode"),
        Many("ComputedStyle")>>)),
    captureSnapshot |-> Command(Bare, Default(<<Many("DocumentSnapshot")>>))]

DomStorageCommands == [
    clear |-> Command(Default(<<One("StorageId")>>), NoReturns),
    disable |-> Command(Bare, NoReturns), enable |-> Command(Bare, NoReturns),
    getDOMStorageItems |-> Command(Default(<<One("StorageId")>>),
        Default(<<Many("Item")>>)),
    removeDOMStorageItem |-> Command(Default(<<One("StorageId")>>), NoReturns),
    setDOMStorageItem |-> Command(Default(<<One("StorageId")>>), NoReturns)]

EmulationCommands == [
    canEmulate |-> Command(Bare, Bare),
    clearDeviceMetricsOverride |-> Command(Bare, NoReturns),
    clearGeolocationOverride |-> Command(Bare, NoReturns),
    resetPageScaleFactor |-> Command(Bare, NoReturns),
    setFocusEmulationEnabled |-> Command(Bare, NoReturns),
    setAutoDarkModeOverride |-> Command(Bare, NoReturns),
    setCPUThrottlingRate |-> Command(Bare, NoReturns),
    setDefaultBackgroundColorOverride |-> Command(Default(<<In("dom", Opt("Rgba"))>>),
        NoReturns),
    setSafeAreaInsetsOverride |-> Command(Default(<<One("SafeAreaInsets")>>),
        NoReturns), SetDeviceMetricsOverrideScrollbarType |-> Enum,
    setDeviceMetricsOverride |-> Command(Default(<<Opt("ScreenOrientation"),
        In("page", Opt("Viewport")), Opt("DisplayFeature"), Opt("DevicePosture"),
        Opt("SetDeviceMetricsOverrideScrollbarType")>>), NoReturns),
    setDevicePostureOverride |-> Command(Plain(<<One("DevicePosture")>>),
        NoReturns), clearDevicePostureOverride |-> Command(Bare, NoReturns),
    setDisplayFeaturesOverride |-> Command(Default(<<Many("DisplayFeature")>>),
        NoReturns), clearDisplayFeaturesOverride |-> Command(Bare, NoReturns),
    setScrollbarsHidden |-> Command(Bare, NoReturns),
    setDocumentCookieDisabled |-> Command(Bare, NoReturns),
    SetEmitTouchEventsForMouseConfiguration |-> Enum,
    setEmitTouchEventsForMouse |-> Command(Default(<<Opt("SetEmitTouchEventsForMouseConfiguration")>>),
        NoReturns),
    setEmulatedMedia |-> Command(Default(<<OptMany("MediaFeature")>>), NoReturns),
    SetEmulatedVisionDeficiencyType |-> Enum,
    setEmulatedVisionDeficiency |-> Command(Plain(<<One("SetEmulatedVisionDeficiencyType")>>),
        NoReturns), setEmulatedOSTextScale |-> Command(Bare, NoReturns),
    setGeolocationOverride |-> Command(Bare, NoReturns),
    getOverriddenSensorInformation |-> Command(Plain(<<One("SensorType")>>), Bare),
    setSensorOverrideEnabled |-> Command(Plain(<<One("SensorType"),
        Opt("SensorMetadata")>>), NoReturns),
    setSensorOverrideReadings |-> Command(Plain(<<One("SensorType"),
        One("SensorReading")>>), NoReturns),
    setPressureSourceOverrideEnabled |-> Command(Plain(<<One("PressureSource"),
        Opt("PressureMetadata")>>), NoReturns),
    setPressureStateOverride |-> Command(Plain(<<One("PressureSource"),
        One("PressureState")>>), NoReturns),
    setIdleOverride |-> Command(Bare, NoReturns),
    clearIdleOverride |-> Command(Bare, NoReturns),
    setNavigatorOverrides |-> Command(Bare, NoReturns),
    setPageScaleFactor |-> Command(Bare, NoReturns),
    setScriptExecutionDisabled |-> Command(Bare, NoReturns),
    setTouchEmulationEnabled |-> Command(Bare, NoReturns),
    setVirtualTimePolicy |-> Command(Plain(<<One("VirtualTimePolicy"),
        In("network", Opt("TimeSinceEpoch"))>>), Bare),
    setLocaleOverride |-> Command(Bare, NoReturns),
    setTimezoneOverride |-> Command(Bare, NoReturns),
    setVisibleSize |-> Command(Bare, NoReturns),
    setDisabledImageTypes |-> Command(Default(<<Many("DisabledImageType")>>),
        NoReturns), setDataSaverOverride |-> Command(Bare, NoReturns),
    setHardwareConcurrencyOverride |-> Command(Bare, NoReturns),
    setUserAgentOverride |-> Command(Default(<<Opt("UserAgentMetadata")>>),
        NoReturns), setAutomationOverride |-> Command(Bare, NoReturns),
    setSmallViewportHeightDifferenceOverride |-> Command(Bare, NoReturns),
    getScreenInfos |-> Command(Bare, Default(<<Many("ScreenInfo")>>)),
    addScreen |-> Command(Default(<<Opt("WorkAreaInsets")>>),
        Plain(<<One("ScreenInfo")>>)),
    updateScreen |-> Command(Default(<<One("ScreenId"), Opt("WorkAreaInsets")>>),
        Plain(<<One("ScreenInfo")>>)),
    removeScreen |-> Command(Default(<<One("ScreenId")>>), NoReturns),
    setPrimaryScreen |-> Command(Default(<<One("ScreenId")>>), NoReturns)]

EventBreakpointsCommands == [
    setInstrumentationBreakpoint |-> Command(Bare, NoReturns),
    removeInstrumentationBreakpoint |-> Command(Bare, NoReturns),
    disable |-> Command(Bare, NoReturns)]

ExtensionsCommands == [
    triggerAction |-> Command(Bare, NoReturns),
    loadUnpacked |-> Command(Bare, Bare),
    getExtensions |-> Command(Bare, Default(<<Many("ExtensionInfo")>>)),
    uninstall |-> Command(Bare, NoReturns),
    getStorageItems |-> Command(Plain(<<One("StorageArea")>>), Bare),
    removeStorageItems |-> Command(Plain(<<One("StorageArea")>>), NoReturns),
    clearStorageItems |-> Command(Plain(<<One("StorageArea")>>), NoReturns),
    setStorageItems |-> Command(Plain(<<One("StorageArea")>>), NoReturns)]

FedCmCommands == [
    enable |-> Command(Bare, NoReturns), disable |-> Command(Bare, NoReturns),
    selectAccount |-> Command(Bare, NoReturns),
    clickDialogButton |-> Command(Plain(<<One("DialogButton")>>), NoReturns),
    openUrl |-> Command(Plain(<<One("AccountUrlType")>>), NoReturns),
    dismissDialog |-> Command(Bare, NoReturns),
    resetCooldown |-> Command(Bare, NoReturns)]

FetchCommands == [
    disable |-> Command(Bare, NoReturns),
    enable |-> Command(Default(<<OptMany("RequestPattern")>>), NoReturns),
    failRequest |-> Command(Plain(<<One("RequestId"),
        In("network", One("ErrorReason"))>>), NoReturns),
    fulfillRequest |-> Command(Default(<<One("RequestId"),
        OptMany("HeaderEntry")>>), NoReturns),
    continueRequest |-> Command(Default(<<One("RequestId"),
        OptMany("HeaderEntry")>>), NoReturns),
    continueWithAuth |-> Command(Plain(<<One("RequestId"),
        One("AuthChallengeResponse")>>), NoReturns),
    continueResponse |-> Command(Default(<<One("RequestId"),
        OptMany("HeaderEntry")>>), NoReturns),
    getResponseBody |-> Command(Default(<<One("RequestId")>>), Bare),
    takeResponseBodyAsStream |-> Command(Default(<<One("RequestId")>>),
        Default(<<In("io", One("StreamHandle"))>>))]

FileSystemCommands == [
    getDirectory |-> Command(Default(<<One("BucketFileSystemLocator")>>),
        Default(<<One("Directory")>>))]

HeadlessExperimentalCommands == [
    beginFrame |-> Command(Default(<<Opt("ScreenshotParams")>>), Bare),
    disable |-> Command(Bare, NoReturns), enable |-> Command(Bare, NoReturns)]

HeapProfilerCommands == [
    addInspectedHeapObject |-> Command(Default(<<One("HeapSnapshotObjectId")>>),
        NoReturns), collectGarbage |-> Command(Bare, NoReturns),
    disable |-> Command(Bare, NoReturns), enable |-> Command(Bare, NoReturns),
    getHeapObjectId |-> Command(Default(<<In("runtime", One("RemoteObjectId"))>>),
        Default(<<One("HeapSnapshotObjectId")>>)),
    getObjectByHeapObjectId |-> Command(Default(<<One("HeapSnapshotObjectId")>>),
        Plain(<<In("runtime", One("RemoteObject"))>>)),
    getSamplingProfile |-> Command(Bare, Default(<<One("SamplingHeapProfile")>>)),
    startSampling |-> Command(Bare, NoReturns),
    startTrackingHeapObjects |-> Command(Bare, NoReturns),
    stopSampling |-> Command(Bare, Default(<<One("SamplingHeapProfile")>>)),
    stopTrackingHeapObjects |-> Command(Bare, NoReturns),
    takeHeapSnapshot |-> Command(Bare, NoReturns)]

IndexedDbCommands == [
    clearObjectStore |-> Command(Default(<<In("storage", Opt("StorageBucket"))>>),
        NoReturns),
    deleteDatabase |-> Command(Default(<<In("storage", Opt("StorageBucket"))>>),
        NoReturns),
    deleteObjectStoreEntries |-> Command(Default(<<In("storage", Opt("StorageBucket")),
        One("KeyRange")>>), NoReturns), disable |-> Command(Bare, NoReturns),
    enable |-> Command(Bare, NoReturns),
    requestData |-> Command(Default(<<In("storage", Opt("StorageBucket")),
        Opt("KeyRange")>>), Default(<<Many("DataEntry")>>)),
    getMetadata |-> Command(Default(<<In("storage", Opt("StorageBucket"))>>), Bare),
    requestDatabase |-> Command(Default(<<In("storage", Opt("StorageBucket"))>>),
        Default(<<One("DatabaseWithObjectStores")>>)),
    requestDatabaseNames |-> Command(Default(<<In("storage", Opt("StorageBucket"))>>),
        Bare)]

InputCommands == [
    DispatchDragEventType |-> Enum,
    dispatchDragEvent |-> Command(Plain(<<One("DispatchDragEventType"),
        One("DragData")>>), NoReturns), DispatchKeyEventType |-> Enum,
    dispatchKeyEvent |-> Command(Plain(<<One("DispatchKeyEventType"),
        Opt("TimeSinceEpoch")>>), NoReturns),
    insertText |-> Command(Bare, NoReturns),
    imeSetComposition |-> Command(Bare, NoReturns), DispatchMouseEventType |-> Enum,
    DispatchMouseEventPointerType |-> Enum,
    dispatchMouseEvent |-> Command(Plain(<<One("DispatchMouseEventType"),
        Opt("TimeSinceEpoch"), Opt("MouseButton"),
        Opt("DispatchMouseEventPointerType")>>), NoReturns),
    DispatchTouchEventType |-> Enum,
    dispatchTouchEvent |-> Command(Plain(<<One("DispatchTouchEventType"),
        Many("TouchPoint"), Opt("TimeSinceEpoch")>>), NoReturns),
    cancelDragging |-> Command(Bare, NoReturns),
    EmulateTouchFromMouseEventType |-> Enum,
    emulateTouchFromMouseEvent |-> Command(Plain(<<One("EmulateTouchFromMouseEventType"),
        One("MouseButton"), Opt("TimeSinceEpoch")>>), NoReturns),
    setIgnoreInputEvents |-> Command(Bare, NoReturns),
    setInterceptDrags |-> Command(Bare, NoReturns),
    synthesizePinchGesture |-> Command(Default(<<Opt("GestureSourceType")>>),
        NoReturns),
    synthesizeScrollGesture |-> Command(Default(<<Opt("GestureSourceType")>>),
        NoReturns),
    synthesizeTapGesture |-> Command(Default(<<Opt("GestureSourceType")>>),
        NoReturns)]

InspectorCommands == [
    disable |-> Command(Bare, NoReturns), enable |-> Command(Bare, NoReturns)]

IoCommands == [
    close |-> Command(Default(<<One("StreamHandle")>>), NoReturns),
    read |-> Command(Default(<<One("StreamHandle")>>), Bare),
    resolveBlob |-> Command(Default(<<In("runtime", One("RemoteObjectId"))>>), Bare)]

LayerTreeCommands == [
    compositingReasons |-> Command(Default(<<One("LayerId")>>), Bare),
    disable |-> Command(Bare, NoReturns), enable |-> Command(Bare, NoReturns),
    loadSnapshot |-> Command(Default(<<Many("PictureTile")>>),
        Default(<<One("SnapshotId")>>)),
    makeSnapshot |-> Command(Default(<<One("LayerId")>>),
        Default(<<One("SnapshotId")>>)),
    profileSnapshot |-> Command(Default(<<One("SnapshotId"),
        In("dom", Opt("Rect"))>>), Default(<<Many("PaintProfile")>>)),
    releaseSnapshot |-> Command(Default(<<One("SnapshotId")>>), NoReturns),
    replaySnapshot |-> Command(Default(<<One("SnapshotId")>>), Bare),
    snapshotCommandLog |-> Command(Default(<<One("SnapshotId")>>), Bare)]

LogCommands == [
    clear |-> Command(Bare, NoReturns), disable |-> Command(Bare, NoReturns),
    enable |-> Command(Bare, NoReturns),
    startViolationsReport |-> Command(Default(<<Many("ViolationSetting")>>),
        NoReturns), stopViolationsReport |-> Command(Bare, NoReturns)]

MediaCommands == [
    enable |-> Command(Bare, NoReturns), disable |-> Command(Bare, NoReturns)]

MemoryCommands == [
    getDOMCounters |-> Command(Bare, Bare),
    getDOMCountersForLeakDetection |-> Command(Bare, Default(<<Many("DomCounter")>>)),
    prepareForLeakDetection |-> Command(Bare, NoReturns),
    forciblyPurgeJavaScriptMemory |-> Command(Bare, NoReturns),
    setPressureNotificationsSuppressed |-> Command(Bare, NoReturns),
    simulatePressureNotification |-> Command(Plain(<<One("PressureLevel")>>),
        NoReturns), startSampling |-> Command(Bare, NoReturns),
    stopSampling |-> Command(Bare, NoReturns),
    getAllTimeSamplingProfile |-> Command(Bare, Default(<<One("SamplingProfile")>>)),
    getBrowserSamplingProfile |-> Command(Bare, Default(<<One("SamplingProfile")>>)),
    getSamplingProfile |-> Command(Bare, Default(<<One("SamplingProfile")>>))]

NetworkCommands == [
    setAcceptedEncodings |-> Command(Default(<<Many("ContentEncoding")>>),
        NoReturns), clearAcceptedEncodingsOverride |-> Command(Bare, NoReturns),
    canClearBrowserCache |-> Command(Bare, Bare),
    canClearBrowserCookies |-> Command(Bare, Bare),
    canEmulateNetworkConditions |-> Command(Bare, Bare),
    clearBrowserCache |-> Command(Bare, NoReturns),
    clearBrowserCookies |-> Command(Bare, NoReturns),
    deleteCookies |-> Command(Default(<<Opt("CookiePartitionKey")>>), NoReturns),
    disable |-> Command(Bare, NoReturns),
    emulateNetworkConditions |-> Command(Default(<<Opt("ConnectionType")>>),
        NoReturns),
    emulateNetworkConditionsByRule |-> Command(Default(<<Many("NetworkConditions")>>),
        Bare),
    overrideNetworkState |-> Command(Default(<<Opt("ConnectionType")>>), NoReturns),
    enable |-> Command(Bare, NoReturns),
    configureDurableMessages |-> Command(Bare, NoReturns),
    getAllCookies |-> Command(Bare, Default(<<Many("Cookie")>>)),
    getCertificate |-> Command(Bare, Bare),
    getCookies |-> Command(Bare, Default(<<Many("Cookie")>>)),
    getResponseBody |-> Command(Default(<<One("RequestId")>>), Bare),
    getRequestPostData |-> Command(Default(<<One("RequestId")>>), Bare),
    replayXHR |-> Command(Default(<<One("RequestId")>>), NoReturns),
    searchInResponseBody |-> Command(Default(<<One("RequestId")>>),
        Default(<<In("debugger", Many("SearchMatch"))>>)),
    setBlockedURLs |-> Command(Default(<<OptMany("BlockPattern")>>), NoReturns),
    setBypassServiceWorker |-> Command(Bare, NoReturns),
    setCacheDisabled |-> Command(Bare, NoReturns),
    setCookie |-> Command(Default(<<Opt("CookieSameSite"), Opt("TimeSinceEpoch"),
        Opt("CookiePriority"), Opt("CookieSourceScheme"),
        Opt("CookiePartitionKey")>>), Bare),
    setCookies |-> Command(Default(<<Many("CookieParam")>>), NoReturns),
    setExtraHTTPHeaders |-> Command(Default(<<One("Headers")>>), NoReturns),
    setAttachDebugStack |-> Command(Bare, NoReturns),
    setUserAgentOverride |-> Command(Default(<<In("emulation", Opt("UserAgentMetadata"))>>),
        NoReturns),
    streamResourceContent |-> Command(Default(<<One("RequestId")>>), Bare),
    getSecurityIsolationStatus |-> Command(Default(<<In("page", Opt("FrameId"))>>),
        Default(<<One("SecurityIsolationStatus")>>)),
    enableReportingApi |-> Command(Bare, NoReturns),
    enableDeviceBoundSessions |-> Command(Bare, NoReturns),
    deleteDeviceBoundSession |-> Command(Default(<<One("DeviceBoundSessionKey")>>),
        NoReturns), fetchSchemefulSite |-> Command(Bare, Bare),
    loadNetworkResource |-> Command(Default(<<In("page", Opt("FrameId")),
        One("LoadNetworkResourceOptions")>>),
        Default(<<One("LoadNetworkResourcePageResult")>>)),
    setCookieControls |-> Command(Bare, NoReturns)]

OverlayCommands == [
    disable |-> Command(Bare, NoReturns), enable |-> Command(Bare, NoReturns),
    getHighlightObjectForTest |-> Command(Default(<<In("dom", One("NodeId")),
        Opt("ColorFormat")>>), Bare),
    getGridHighlightObjectsForTest |-> Command(Default(<<In("dom", Many("NodeId"))>>),
        Bare),
    getSourceOrderHighlightObjectForTest |-> Command(Default(<<In("dom", One("NodeId"))>>),
        Bare), hideHighlight |-> Command(Bare, NoReturns),
    highlightFrame |-> Command(Default(<<In("page", One("FrameId")),
        In("dom", Opt("Rgba")), In("dom", Opt("Rgba"))>>), NoReturns),
    highlightNode |-> Command(Default(<<One("HighlightConfig"),
        In("dom", Opt("NodeId")), In("dom", Opt("BackendNodeId")),
        In("runtime", Opt("RemoteObjectId"))>>), NoReturns),
    highlightQuad |-> Command(Default(<<In("dom", One("Quad")),
        In("dom", Opt("Rgba")), In("dom", Opt("Rgba"))>>), NoReturns),
    highlightRect |-> Command(Default(<<In("dom", Opt("Rgba")),
        In("dom", Opt("Rgba"))>>), NoReturns),
    highlightSourceOrder |-> Command(Default(<<One("SourceOrderConfig"),
        In("dom", Opt("NodeId")), In("dom", Opt("BackendNodeId")),
        In("runtime", Opt("RemoteObjectId"))>>), NoReturns),
    setInspectMode |-> Command(Plain(<<One("InspectMode"),
        Opt("HighlightConfig")>>), NoReturns),
    setShowAdHighlights |-> Command(Bare, NoReturns),
    setPausedInDebuggerMessage |-> Command(Bare, NoReturns),
    setShowDebugBorders |-> Command(Bare, NoReturns),
    setShowFPSCounter |-> Command(Bare, NoReturns),
    setShowGridOverlays |-> Command(Default(<<Many("GridNodeHighlightConfig")>>),
        NoReturns),
    setShowFlexOverlays |-> Command(Default(<<Many("FlexNodeHighlightConfig")>>),
        NoReturns),
    setShowScrollSnapOverlays |-> Command(Default(<<Many("ScrollSnapHighlightConfig")>>),
        NoReturns),
    setShowContainerQueryOverlays |-> Command(Default(<<Many("ContainerQueryHighlightConfig")>>),
        NoReturns),
    setShowInspectedElementAnchor |-> Command(Default(<<One("InspectedElementAnchorConfig")>>),
        NoReturns), setShowPaintRects |-> Command(Bare, NoReturns),
    setShowLayoutShiftRegions |-> Command(Bare, NoReturns),
    setShowScrollBottleneckRects |-> Command(Bare, NoReturns),
    setShowHitTestBorders |-> Command(Bare, NoReturns),
    setShowWebVitals |-> Command(Bare, NoReturns),
    setShowViewportSizeOnResize |-> Command(Bare, NoReturns),
    setShowHinge |-> Command(Default(<<Opt("HingeConfig")>>), NoReturns),
    setShowDisplayCutout |-> Command(Default(<<Opt("DisplayCutoutConfig")>>),
        NoReturns),
    setShowIsolatedElements |-> Command(Default(<<Many("IsolatedElementHighlightConfig")>>),
        NoReturns),
    setShowWindowControlsOverlay |-> Command(Default(<<Opt("WindowControlsOverlayConfig")>>),
        NoReturns)]

PageCommands == [
    addScriptToEvaluateOnLoad |-> Command(Bare, Default(<<One("ScriptIdentifier")>>)),
    addScriptToEvaluateOnNewDocument |-> Command(Bare, Default(<<One("ScriptIdentifier")>>)),
    bringToFront |-> Command(Bare, NoReturns), CaptureScreenshotFormat |-> Enum,
    captureScreenshot |-> Command(Default(<<Opt("CaptureScreenshotFormat"),
        Opt("Viewport")>>), Bare), CaptureSnapshotFormat |-> Enum,
    captureSnapshot |-> Command(Default(<<Opt("CaptureSnapshotFormat")>>), Bare),
    clearDeviceMetricsOverride |-> Command(Bare, NoReturns),
    clearDeviceOrientationOverride |-> Command(Bare, NoReturns),
    clearGeolocationOverride |-> Command(Bare, NoReturns),
    createIsolatedWorld |-> Command(Default(<<One("FrameId")>>),
        Default(<<In("runtime", One("ExecutionContextId"))>>)),
    deleteCookie |-> Command(Bare, NoReturns), disable |-> Command(Bare, NoReturns),
    enable |-> Command(Bare, NoReturns),
    getAppManifest |-> Command(Bare, Default(<<Many("AppManifestError"),
        Opt("AppManifestParsedProperties"), One("WebAppManifest")>>)),
    getInstallabilityErrors |-> Command(Bare, Default(<<Many("InstallabilityError")>>)),
    getManifestIcons |-> Command(Bare, Bare), getAppId |-> Command(Bare, Bare),
    getAdScriptAncestry |-> Command(Default(<<One("FrameId")>>),
        Default(<<In("network", Opt("AdAncestry"))>>)),
    getFrameTree |-> Command(Bare, Plain(<<One("FrameTree")>>)),
    getLayoutMetrics |-> Command(Bare, Default(<<One("LayoutViewport"),
        One("VisualViewport"), In("dom", One("Rect")), One("LayoutViewport"),
        One("VisualViewport"), In("dom", One("Rect"))>>)),
    getNavigationHistory |-> Command(Bare, Default(<<Many("NavigationEntry")>>)),
    resetNavigationHistory |-> Command(Bare, NoReturns),
    getResourceContent |-> Command(Default(<<One("FrameId")>>), Bare),
    getResourceTree |-> Command(Bare, Plain(<<One("FrameResourceTree")>>)),
    handleJavaScriptDialog |-> Command(Bare, NoReturns),
    navigate |-> Command(Default(<<Opt("TransitionType"), Opt("FrameId"),
        Opt("ReferrerPolicy")>>), Default(<<One("FrameId"),
        In("network", Opt("LoaderId"))>>)),
    navigateToHistoryEntry |-> Command(Bare, NoReturns),
    PrintToPdfTransferMode |-> Enum,
    printToPDF |-> Command(Default(<<Opt("PrintToPdfTransferMode")>>),
        Default(<<In("io", Opt("StreamHandle"))>>)),
    reload |-> Command(Default(<<In("network", Opt("LoaderId"))>>), NoReturns),
    removeScriptToEvaluateOnLoad |-> Command(Default(<<One("ScriptIdentifier")>>),
        NoReturns),
    removeScriptToEvaluateOnNewDocument |-> Command(Default(<<One("ScriptIdentifier")>>),
        NoReturns), screencastFrameAck |-> Command(Bare, NoReturns),
    searchInResource |-> Command(Default(<<One("FrameId")>>),
        Default(<<In("debugger", Many("SearchMatch"))>>)),
    setAdBlockingEnabled |-> Command(Bare, NoReturns),
    setBypassCSP |-> Command(Bare, NoReturns),
    getPermissionsPolicyState |-> Command(Default(<<One("FrameId")>>),
        Default(<<Many("PermissionsPolicyFeatureState")>>)),
    getOriginTrials |-> Command(Default(<<One("FrameId")>>),
        Default(<<Many("OriginTrial")>>)),
    setDeviceMetricsOverride |-> Command(Default(<<In("emulation", Opt("ScreenOrientation")),
        Opt("Viewport")>>), NoReturns),
    setDeviceOrientationOverride |-> Command(Bare, NoReturns),
    setFontFamilies |-> Command(Default(<<One("FontFamilies"),
        OptMany("ScriptFontFamilies")>>), NoReturns),
    setFontSizes |-> Command(Default(<<One("FontSizes")>>), NoReturns),
    setDocumentContent |-> Command(Default(<<One("FrameId")>>), NoReturns),
    SetDownloadBehaviorBehavior |-> Enum,
    setDownloadBehavior |-> Command(Plain(<<One("SetDownloadBehaviorBehavior")>>),
        NoReturns), setGeolocationOverride |-> Command(Bare, NoReturns),
    setLifecycleEventsEnabled |-> Command(Bare, NoReturns),
    SetTouchEmulationEnabledConfiguration |-> Enum,
    setTouchEmulationEnabled |-> Command(Default(<<Opt("SetTouchEmulationEnabledConfiguration")>>),
        NoReturns), StartScreencastFormat |-> Enum,
    startScreencast |-> Command(Default(<<Opt("StartScreencastFormat")>>),
        NoReturns),
    startScreenRecording |-> Command(Bare, Default(<<In("io", One("StreamHandle"))>>)),
    stopScreenRecording |-> Command(Bare, Default(<<In("io", One("StreamHandle"))>>)),
    stopLoading |-> Command(Bare, NoReturns), crash |-> Command(Bare, NoReturns),
    close |-> Command(Bare, NoReturns), SetWebLifecycleStateState |-> Enum,
    setWebLifecycleState |-> Command(Plain(<<One("SetWebLifecycleStateState")>>),
        NoReturns), stopScreencast |-> Command(Bare, NoReturns),
    produceCompilationCache |-> Command(Default(<<Many("CompilationCacheParams")>>),
        NoReturns), addCompilationCache |-> Command(Bare, NoReturns),
    clearCompilationCache |-> Command(Bare, NoReturns),
    SetSpcTransactionModeMode |-> Enum,
    setSPCTransactionMode |-> Command(Plain(<<One("SetSpcTransactionModeMode")>>),
        NoReturns), SetRphRegistrationModeMode |-> Enum,
    setRPHRegistrationMode |-> Command(Plain(<<One("SetRphRegistrationModeMode")>>),
        NoReturns), generateTestReport |-> Command(Bare, NoReturns),
    waitForDebugger |-> Command(Bare, NoReturns),
    setInterceptFileChooserDialog |-> Command(Bare, NoReturns),
    setPrerenderingAllowed |-> Command(Bare, NoReturns),
    getAnnotatedPageContent |-> Command(Bare, Bare)]

PerformanceCommands == [
    disable |-> Command(Bare, NoReturns), EnableTimeDomain |-> Enum,
    enable |-> Command(Default(<<Opt("EnableTimeDomain")>>), NoReturns),
    SetTimeDomainTimeDomain |-> Enum,
    setTimeDomain |-> Command(Plain(<<One("SetTimeDomainTimeDomain")>>), NoReturns),
    getMetrics |-> Command(Bare, Default(<<Many("Metric")>>))]

PerformanceTimelineCommands == [enable |-> Command(Bare, NoReturns)]

PreloadCommands == [
    enable |-> Command(Bare, NoReturns), disable |-> Command(Bare, NoReturns)]

ProfilerCommands == [
    disable |-> Command(Bare, NoReturns), enable |-> Command(Bare, NoReturns),
    getBestEffortCoverage |-> Command(Bare, Default(<<Many("ScriptCoverage")>>)),
    setSamplingInterval |-> Command(Bare, NoReturns),
    start |-> Command(Bare, NoReturns),
    startPreciseCoverage |-> Command(Bare, Bare),
    stop |-> Command(Bare, Default(<<One("Profile")>>)),
    stopPreciseCoverage |-> Command(Bare, NoReturns),
    takePreciseCoverage |-> Command(Bare, Default(<<Many("ScriptCoverage")>>))]

PwaCommands == [
    getOsAppState |-> Command(Bare, Default(<<Many("FileHandler")>>)),
    install |-> Command(Bare, NoReturns), uninstall |-> Command(Bare, NoReturns),
    launch |-> Command(Bare, Default(<<In("target", One("TargetId"))>>)),
    launchFilesInApp |-> Command(Bare, Default(<<In("target", Many("TargetId"))>>)),
    openCurrentPageInApp |-> Command(Bare, NoReturns),
    changeAppUserSettings |-> Command(Default(<<Opt("DisplayMode")>>), NoReturns)]

RuntimeCommands == [
    awaitPromise |-> Command(Default(<<One("RemoteObjectId")>>),
        Plain(<<One("RemoteObject"), Opt("ExceptionDetails")>>)),
    callFunctionOn |-> Command(Default(<<Opt("RemoteObjectId"),
        OptMany("CallArgument"), Opt("ExecutionContextId"),
        Opt("SerializationOptions")>>), Plain(<<One("RemoteObject"),
        Opt("ExceptionDetails")>>)),
    compileScript |-> Command(Default(<<Opt("ExecutionContextId")>>),
        Default(<<Opt("ScriptId"), Opt("ExceptionDetails")>>)),
    disable |-> Command(Bare, NoReturns),
    discardConsoleEntries |-> Command(Bare, NoReturns),
    enable |-> Command(Bare, NoReturns),
    evaluate |-> Command(Default(<<Opt("ExecutionContextId"), Opt("TimeDelta"),
        Opt("SerializationOptions")>>), Plain(<<One("RemoteObject"),
        Opt("ExceptionDetails")>>)), getIsolateId |-> Command(Bare, Bare),
    getHeapUsage |-> Command(Bare, Bare),
    getProperties |-> Command(Default(<<One("RemoteObjectId")>>),
        Default(<<Many("PropertyDescriptor"), OptMany("InternalPropertyDescriptor"),
        OptMany("PrivatePropertyDescriptor"), Opt("ExceptionDetails")>>)),
    globalLexicalScopeNames |-> Command(Default(<<Opt("ExecutionContextId")>>),
        Bare),
    queryObjects |-> Command(Default(<<One("RemoteObjectId")>>),
        Plain(<<One("RemoteObject")>>)),
    releaseObject |-> Command(Default(<<One("RemoteObjectId")>>), NoReturns),
    releaseObjectGroup |-> Command(Bare, NoReturns),
    runIfWaitingForDebugger |-> Command(Bare, NoReturns),
    runScript |-> Command(Default(<<One("ScriptId"), Opt("ExecutionContextId")>>),
        Plain(<<One("RemoteObject"), Opt("ExceptionDetails")>>)),
    setAsyncCallStackDepth |-> Command(Bare, NoReturns),
    setCustomObjectFormatterEnabled |-> Command(Bare, NoReturns),
    setMaxCallStackSizeToCapture |-> Command(Bare, NoReturns),
    terminateExecution |-> Command(Bare, NoReturns),
    addBinding |-> Command(Default(<<Opt("ExecutionContextId")>>), NoReturns),
    removeBinding |-> Command(Bare, NoReturns),
    getExceptionDetails |-> Command(Default(<<One("RemoteObjectId")>>),
        Default(<<Opt("ExceptionDetails")>>))]

SchemaCommands == [getDomains |-> Command(Bare, Default(<<Many("Domain")>>))]

SecurityCommands == [
    disable |-> Command(Bare, NoReturns), enable |-> Command(Bare, NoReturns),
    setIgnoreCertificateErrors |-> Command(Bare, NoReturns),
    handleCertificateError |-> Command(Plain(<<One("CertificateErrorAction")>>),
        NoReturns), setOverrideCertificateErrors |-> Command(Bare, NoReturns)]

ServiceWorkerCommands == [
    deliverPushMessage |-> Command(Default(<<One("RegistrationId")>>), NoReturns),
    disable |-> Command(Bare, NoReturns),
    dispatchSyncEvent |-> Command(Default(<<One("RegistrationId")>>), NoReturns),
    dispatchPeriodicSyncEvent |-> Command(Default(<<One("RegistrationId")>>),
        NoReturns), enable |-> Command(Bare, NoReturns),
    setForceUpdateOnPageLoad |-> Command(Bare, NoReturns),
    skipWaiting |-> Command(Bare, NoReturns),
    startWorker |-> Command(Bare, NoReturns),
    stopAllWorkers |-> Command(Bare, NoReturns),
    stopWorker |-> Command(Bare, NoReturns),
    unregister |-> Command(Bare, NoReturns),
    updateRegistration |-> Command(Bare, NoReturns)]

SmartCardEmulationCommands == [
    enable |-> Command(Bare, NoReturns), disable |-> Command(Bare, NoReturns),
    reportEstablishContextResult |-> Command(Bare, NoReturns),
    reportReleaseContextResult |-> Command(Bare, NoReturns),
    reportListReadersResult |-> Command(Bare, NoReturns),
    reportGetStatusChangeResult |-> Command(Default(<<Many("ReaderStateOut")>>),
        NoReturns), reportBeginTransactionResult |-> Command(Bare, NoReturns),
    reportPlainResult |-> Command(Bare, NoReturns),
    reportConnectResult |-> Command(Default(<<Opt("Protocol")>>), NoReturns),
    reportDataResult |-> Command(Bare, NoReturns),
    reportStatusResult |-> Command(Plain(<<One("ConnectionState"),
        Opt("Protocol")>>), NoReturns),
    reportError |-> Command(Plain(<<One("ResultCode")>>), NoReturns)]

StorageCommands == [
    getStorageKeyForFrame |-> Command(Default(<<In("page", One("FrameId"))>>),
        Default(<<One("SerializedStorageKey")>>)),
    getStorageKey |-> Command(Default(<<In("page", Opt("FrameId"))>>),
        Default(<<One("SerializedStorageKey")>>)),
    clearDataForOrigin |-> Command(Bare, NoReturns),
    clearDataForStorageKey |-> Command(Bare, NoReturns),
    getCookies |-> Command(Default(<<In("browser", Opt("BrowserContextId"))>>),
        Default(<<In("network", Many("Cookie"))>>)),
    setCookies |-> Command(Default(<<In("network", Many("CookieParam")),
        In("browser", Opt("BrowserContextId"))>>), NoReturns),
    clearCookies |-> Command(Default(<<In("browser", Opt("BrowserContextId"))>>),
        NoReturns),
    getUsageAndQuota |-> Command(Bare, Default(<<Many("UsageForType")>>)),
    overrideQuotaForOrigin |-> Command(Bare, NoReturns),
    trackCacheStorageForOrigin |-> Command(Bare, NoReturns),
    trackCacheStorageForStorageKey |-> Command(Bare, NoReturns),
    trackIndexedDBForOrigin |-> Command(Bare, NoReturns),
    trackIndexedDBForStorageKey |-> Command(Bare, NoReturns),
    untrackCacheStorageForOrigin |-> Command(Bare, NoReturns),
    untrackCacheStorageForStorageKey |-> Command(Bare, NoReturns),
    untrackIndexedDBForOrigin |-> Command(Bare, NoReturns),
    untrackIndexedDBForStorageKey |-> Command(Bare, NoReturns),
    getTrustTokens |-> Command(Bare, Default(<<Many("TrustTokens")>>)),
    clearTrustTokens |-> Command(Bare, Bare),
    getSharedStorageMetadata |-> Command(Bare, Default(<<One("SharedStorageMetadata")>>)),
    getSharedStorageEntries |-> Command(Bare, Default(<<Many("SharedStorageEntry")>>)),
    setSharedStorageEntry |-> Command(Bare, NoReturns),
    deleteSharedStorageEntry |-> Command(Bare, NoReturns),
    clearSharedStorageEntries |-> Command(Bare, NoReturns),
    resetSharedStorageBudget |-> Command(Bare, NoReturns),
    setSharedStorageTracking |-> Command(Bare, NoReturns),
    setStorageBucketTracking |-> Command(Bare, NoReturns),
    deleteStorageBucket |-> Command(Default(<<One("StorageBucket")>>), NoReturns),
    runBounceTrackingMitigations |-> Command(Bare, Bare),
    getRelatedWebsiteSets |-> Command(Bare, Default(<<Many("RelatedWebsiteSet")>>))]

SystemInfoCommands == [
    getInfo |-> Command(Bare, Default(<<One("GpuInfo")>>)),
    getFeatureState |-> Command(Bare, Bare),
    getProcessInfo |-> Command(Bare, Default(<<Many("ProcessInfo")>>))]

TargetCommands == [
    activateTarget |-> Command(Default(<<One("TargetId")>>), NoReturns),
    attachToTarget |-> Command(Default(<<One("TargetId")>>),
        Default(<<One("SessionId")>>)),
    attachToBrowserTarget |-> Command(Bare, Default(<<One("SessionId")>>)),
    closeTarget |-> Command(Default(<<One("TargetId")>>), Bare),
    exposeDevToolsProtocol |-> Command(Default(<<One("TargetId")>>), NoReturns),
    createBrowserContext |-> Command(Bare, Default(<<In("browser", One("BrowserContextId"))>>)),
    getBrowserContexts |-> Command(Bare, Default(<<In("browser", Many("BrowserContextId")),
        In("browser", Opt("BrowserContextId"))>>)),
    createTarget |-> Command(Default(<<Opt("WindowState"),
        In("browser", Opt("BrowserContextId"))>>), Default(<<One("TargetId")>>)),
    detachFromTarget |-> Command(Default(<<Opt("SessionId"), Opt("TargetId")>>),
        NoReturns),
    disposeBrowserContext |-> Command(Default(<<In("browser", One("BrowserContextId"))>>),
        NoReturns),
    getTargetInfo |-> Command(Default(<<Opt("TargetId")>>),
        Default(<<One("TargetInfo")>>)),
    getTargets |-> Command(Default(<<Opt("TargetFilter")>>),
        Default(<<Many("TargetInfo")>>)),
    sendMessageToTarget |-> Command(Default(<<Opt("SessionId"), Opt("TargetId")>>),
        NoReturns),
    setAutoAttach |-> Command(Default(<<Opt("TargetFilter")>>), NoReturns),
    autoAttachRelated |-> Command(Default(<<One("TargetId"), Opt("TargetFilter")>>),
        NoReturns),
    setDiscoverTargets |-> Command(Default(<<Opt("TargetFilter")>>), NoReturns),
    setRemoteLocations |-> Command(Default(<<Many("RemoteLocation")>>), NoReturns),
    getDevToolsTarget |-> Command(Default(<<One("TargetId")>>),
        Default(<<Opt("TargetId")>>)),
    openDevTools |-> Command(Default(<<One("TargetId")>>),
        Default(<<One("TargetId")>>))]

TetheringCommands == [
    bind |-> Command(Bare, NoReturns), unbind |-> Command(Bare, NoReturns)]

TracingCommands == [
    end |-> Command(Bare, NoReturns), getCategories |-> Command(Bare, Bare),
    getTrackEventDescriptor |-> Command(Bare, Bare),
    recordClockSyncMarker |-> Command(Bare, NoReturns),
    requestMemoryDump |-> Command(Default(<<Opt("MemoryDumpLevelOfDetail")>>),
        Bare), StartTransferMode |-> Enum,
    start |-> Command(Default(<<Opt("StartTransferMode"), Opt("StreamFormat"),
        Opt("StreamCompression"), Opt("TraceConfig"), Opt("TracingBackend")>>),
        NoReturns)]

WebAudioCommands == [
    enable |-> Command(Bare, NoReturns), disable |-> Command(Bare, NoReturns),
    getRealtimeData |-> Command(Default(<<One("GraphObjectId")>>),
        Default(<<One("ContextRealtimeData")>>))]

WebAuthnCommands == [
    enable |-> Command(Bare, NoReturns), disable |-> Command(Bare, NoReturns),
    addVirtualAuthenticator |-> Command(Plain(<<One("VirtualAuthenticatorOptions")>>),
        Default(<<One("AuthenticatorId")>>)),
    setResponseOverrideBits |-> Command(Default(<<One("AuthenticatorId")>>),
        NoReturns),
    removeVirtualAuthenticator |-> Command(Default(<<One("AuthenticatorId")>>),
        NoReturns),
    addCredential |-> Command(Default(<<One("AuthenticatorId"),
        One("Credential")>>), NoReturns),
    getCredential |-> Command(Default(<<One("AuthenticatorId")>>),
        Default(<<One("Credential")>>)),
    getCredentials |-> Command(Default(<<One("AuthenticatorId")>>),
        Default(<<Many("Credential")>>)),
    removeCredential |-> Command(Default(<<One("AuthenticatorId")>>), NoReturns),
    clearCredentials |-> Command(Default(<<One("AuthenticatorId")>>), NoReturns),
    setUserVerified |-> Command(Default(<<One("AuthenticatorId")>>), NoReturns),
    setAutomaticPresenceSimulation |-> Command(Default(<<One("AuthenticatorId")>>),
        NoReturns),
    setCredentialProperties |-> Command(Default(<<One("AuthenticatorId")>>),
        NoReturns)]

WebMcpCommands == [
    enable |-> Command(Bare, NoReturns), disable |-> Command(Bare, NoReturns),
    invokeTool |-> Command(Default(<<In("page", One("FrameId"))>>), Bare),
    cancelInvocation |-> Command(Bare, NoReturns)]
=============================================================================
