----------------------------- MODULE MethodNames -----------------------------
(***************************************************************************)
(* The constants of each file of src/methods, by the name of the command.  *)
(***************************************************************************)


AccessibilityMethods == {
    "disable", "enable", "getPartialAXTree", "getFullAXTree", "getRootAXNode",
    "getAXNodeAndAncestors", "getChildAXNodes", "queryAXTree"}

AdsMethods == {"getAdMetrics"}

AnimationMethods == {
    "disable", "enable", "getCurrentTime", "getPlaybackRate", "releaseAnimations",
    "resolveAnimation", "seekAnimations", "setPaused", "setPlaybackRate",
    "setTiming"}

AuditsMethods == {"getEncodedResponse", "disable", "enable", "checkFormsIssues"}

AutofillMethods == {"trigger", "setAddresses", "disable", "enable"}

BackgroundServiceMethods == {
    "startObserving", "stopObserving", "setRecording", "clearEvents"}

BluetoothEmulationMethods == {
    "enable", "setSimulatedCentralState", "disable",
    "simulatePreconnectedPeripheral", "simulateAdvertisement",
    "simulateGATTOperationResponse", "simulateCharacteristicOperationResponse",
    "simulateDescriptorOperationResponse", "addService", "removeService",
    "addCharacteristic", "removeCharacteristic", "addDescriptor",
    "removeDescriptor", "simulateGATTDisconnection"}

BrowserMethods == {
    "setPermission", "grantPermissions", "resetPermissions", "setDownloadBehavior",
    "cancelDownload", "close", "crash", "crashGpuProcess", "getVersion",
    "getBrowserCommandLine", "getHistograms", "getHistogram", "getWindowBounds",
    "getWindowForTarget", "setWindowBounds", "setContentsSize", "setDockTile",
    "executeBrowserCommand", "addPrivacySandboxEnrollmentOverride"}

CacheStorageMethods == {
    "deleteCache", "deleteEntry", "requestCacheNames", "requestCachedResponse",
    "requestEntries"}

CastMethods == {
    "enable", "disable", "setSinkToUse", "startDesktopMirroring",
    "startTabMirroring", "stopCasting"}

ConsoleMethods == {"clearMessages", "disable", "enable"}

CrashReportContextMethods == {"getEntries"}

CssMethods == {
    "addRule", "collectClassNames", "createStyleSheet", "disable", "enable",
    "forcePseudoState", "forceStartingStyle", "getBackgroundColors",
    "getComputedStyleForNode", "resolveValues", "getLonghandProperties",
    "getInlineStylesForNode", "getAnimatedStylesForNode", "getMatchedStylesForNode",
    "getEnvironmentVariables", "getMediaQueries", "getPlatformFontsForNode",
    "getStyleSheetText", "getLayersForNode", "getLocationForSelector",
    "trackComputedStyleUpdatesForNode", "trackComputedStyleUpdates",
    "takeComputedStyleUpdates", "setEffectivePropertyValueForNode",
    "setPropertyRulePropertyName", "setKeyframeKey", "setMediaText",
    "setContainerQueryText", "setContainerQueryConditionText", "setSupportsText",
    "setNavigationText", "setScopeText", "setRuleSelector", "setStyleSheetText",
    "setStyleTexts", "startRuleUsageTracking", "stopRuleUsageTracking",
    "takeCoverageDelta", "setLocalFontsEnabled"}

DebuggerMethods == {
    "continueToLocation", "disable", "enable", "evaluateOnCallFrame",
    "getPossibleBreakpoints", "getScriptSource", "disassembleWasmModule",
    "nextWasmDisassemblyChunk", "getWasmBytecode", "getStackTrace", "pause",
    "pauseOnAsyncCall", "removeBreakpoint", "restartFrame", "resume",
    "searchInContent", "setAsyncCallStackDepth", "setBlackboxExecutionContexts",
    "setBlackboxPatterns", "setBlackboxedRanges", "setBreakpoint",
    "setInstrumentationBreakpoint", "setBreakpointByUrl",
    "setBreakpointOnFunctionCall", "setBreakpointsActive", "setPauseOnExceptions",
    "setReturnValue", "setScriptSource", "setSkipAllPauses", "setVariableValue",
    "stepInto", "stepOut", "stepOver"}

DeviceAccessMethods == {"enable", "disable", "selectPrompt", "cancelPrompt"}

DeviceOrientationMethods == {
    "clearDeviceOrientationOverride", "setDeviceOrientationOverride"}

DigitalCredentialsMethods == {"setVirtualWalletBehavior"}

DomMethods == {
    "collectClassNamesFromSubtree", "copyTo", "describeNode",
    "scrollIntoViewIfNeeded", "disable", "discardSearchResults", "enable", "focus",
    "getAttributes", "getBoxModel", "getContentQuads", "getDocument",
    "getFlattenedDocument", "getNodesForSubtreeByStyle", "getNodeForLocation",
    "getOuterHTML", "getRelayoutBoundary", "getSearchResults", "hideHighlight",
    "highlightNode", "highlightRect", "markUndoableState", "moveTo",
    "performSearch", "pushNodeByPathToFrontend", "pushNodesByBackendIdsToFrontend",
    "querySelector", "querySelectorAll", "getTopLayerElements",
    "getElementByRelation", "redo", "removeAttribute", "removeNode",
    "requestChildNodes", "requestNode", "resolveNode", "setAttributeValue",
    "setAttributesAsText", "setFileInputFiles", "setNodeStackTracesEnabled",
    "getNodeStackTraces", "getFileInfo", "getDetachedDomNodes", "setInspectedNode",
    "setNodeName", "setNodeValue", "setOuterHTML", "undo", "getFrameOwner",
    "getContainerForNode", "getQueryingDescendantsForContainer", "getAnchorElement",
    "forceShowPopover", "forceShowInterest"}

DomDebuggerMethods == {
    "getEventListeners", "removeDOMBreakpoint", "removeEventListenerBreakpoint",
    "removeInstrumentationBreakpoint", "removeXHRBreakpoint",
    "setBreakOnCSPViolation", "setDOMBreakpoint", "setEventListenerBreakpoint",
    "setInstrumentationBreakpoint", "setXHRBreakpoint"}

DomSnapshotMethods == {"disable", "enable", "getSnapshot", "captureSnapshot"}

DomStorageMethods == {
    "clear", "disable", "enable", "getDOMStorageItems", "removeDOMStorageItem",
    "setDOMStorageItem"}

EmulationMethods == {
    "canEmulate", "clearDeviceMetricsOverride", "clearGeolocationOverride",
    "resetPageScaleFactor", "setFocusEmulationEnabled", "setAutoDarkModeOverride",
    "setCPUThrottlingRate", "setDefaultBackgroundColorOverride",
    "setSafeAreaInsetsOverride", "setDeviceMetricsOverride",
    "setDevicePostureOverride", "clearDevicePostureOverride",
    "setDisplayFeaturesOverride", "clearDisplayFeaturesOverride",
    "setScrollbarsHidden", "setDocumentCookieDisabled",
    "setEmitTouchEventsForMouse", "setEmulatedMedia", "setEmulatedVisionDeficiency",
    "setEmulatedOSTextScale", "setGeolocationOverride",
    "getOverriddenSensorInformation", "setSensorOverrideEnabled",
    "setSensorOverrideReadings", "setPressureSourceOverrideEnabled",
    "setPressureStateOverride", "setIdleOverride", "clearIdleOverride",
    "setNavigatorOverrides", "setPageScaleFactor", "setScriptExecutionDisabled",
    "setTouchEmulationEnabled", "setVirtualTimePolicy", "setLocaleOverride",
    "setTimezoneOverride", "setVisibleSize", "setDisabledImageTypes",
    "setDataSaverOverride", "setHardwareConcurrencyOverride",
    "setUserAgentOverride", "setAutomationOverride",
    "setSmallViewportHeightDifferenceOverride", "getScreenInfos", "addScreen",
    "updateScreen", "removeScreen", "setPrimaryScreen"}

EventBreakpointsMethods == {
    "setInstrumentationBreakpoint", "removeInstrumentationBreakpoint", "disable"}

ExtensionsMethods == {
    "triggerAction", "loadUnpacked", "getExtensions", "uninstall",
    "getStorageItems", "removeStorageItems", "clearStorageItems", "setStorageItems"}

FedCmMethods == {
    "enable", "disable", "selectAccount", "clickDialogButton", "openUrl",
    "dismissDialog", "resetCooldown"}

FetchMethods == {
    "disable", "enable", "failRequest", "fulfillRequest", "continueRequest",
    "continueWithAuth", "continueResponse", "getResponseBody",
    "takeResponseBodyAsStream"}

FileSystemMethods == {"getDirectory"}

HeadlessExperimentalMethods == {"beginFrame", "disable", "enable"}

HeapProfilerMethods == {
    "addInspectedHeapObject", "collectGarbage", "disable", "enable",
    "getHeapObjectId", "getObjectByHeapObjectId", "getSamplingProfile",
    "startSampling", "startTrackingHeapObjects", "stopSampling",
    "stopTrackingHeapObjects", "takeHeapSnapshot"}

IndexedDbMethods == {
    "clearObjectStore", "deleteDatabase", "deleteObjectStoreEntries", "disable",
    "enable", "requestData", "getMetadata", "requestDatabase",
    "requestDatabaseNames"}

InputMethods == {
    "dispatchDragEvent", "dispatchKeyEvent", "insertText", "imeSetComposition",
    "dispatchMouseEvent", "dispatchTouchEvent", "cancelDragging",
    "emulateTouchFromMouseEvent", "setIgnoreInputEvents", "setInterceptDrags",
    "synthesizePinchGesture", "synthesizeScrollGesture", "synthesizeTapGesture"}

InspectorMethods == {"disable", "enable"}

IoMethods == {"close", "read", "resolveBlob"}

LayerTreeMethods == {
    "compositingReasons", "disable", "enable", "loadSnapshot", "makeSnapshot",
    "profileSnapshot", "releaseSnapshot", "replaySnapshot", "snapshotCommandLog"}

LogMethods == {
    "clear", "disable", "enable", "startViolationsReport", "stopViolationsReport"}

MediaMethods == {"enable", "disable"}

MemoryMethods == {
    "getDOMCounters", "getDOMCountersForLeakDetection", "prepareForLeakDetection",
    "forciblyPurgeJavaScriptMemory", "setPressureNotificationsSuppressed",
    "simulatePressureNotification", "startSampling", "stopSampling",
    "getAllTimeSamplingProfile", "getBrowserSamplingProfile", "getSamplingProfile"}

NetworkMethods == {
    "setAcceptedEncodings", "clearAcceptedEncodingsOverride",
    "canClearBrowserCache", "canClearBrowserCookies", "canEmulateNetworkConditions",
    "clearBrowserCache", "clearBrowserCookies", "deleteCookies", "disable",
    "emulateNetworkConditions", "emulateNetworkConditionsByRule",
    "overrideNetworkState", "enable", "configureDurableMessages", "getAllCookies",
    "getCertificate", "getCookies", "getResponseBody", "getRequestPostData",
    "replayXHR", "searchInResponseBody", "setBlockedURLs", "setBypassServiceWorker",
    "setCacheDisabled", "setCookie", "setCookies", "setExtraHTTPHeaders",
    "setAttachDebugStack", "setUserAgentOverride", "streamResourceContent",
    "getSecurityIsolationStatus", "enableReportingApi", "enableDeviceBoundSessions",
    "deleteDeviceBoundSession", "fetchSchemefulSite", "loadNetworkResource",
    "setCookieControls"}

OverlayMethods == {
    "disable", "enable", "getHighlightObjectForTest",
    "getGridHighlightObjectsForTest", "getSourceOrderHighlightObjectForTest",
    "hideHighlight", "highlightFrame", "highlightNode", "highlightQuad",
    "highlightRect", "highlightSourceOrder", "setInspectMode",
    "setShowAdHighlights", "setPausedInDebuggerMessage", "setShowDebugBorders",
    "setShowFPSCounter", "setShowGridOverlays", "setShowFlexOverlays",
    "setShowScrollSnapOverlays", "setShowContainerQueryOverlays",
    "setShowInspectedElementAnchor", "setShowPaintRects",
    "setShowLayoutShiftRegions", "setShowScrollBottleneckRects",
    "setShowHitTestBorders", "setShowWebVitals", "setShowViewportSizeOnResize",
    "setShowHinge", "setShowDisplayCutout", "setShowIsolatedElements",
    "setShowWindowControlsOverlay"}

PageMethods == {
    "addScriptToEvaluateOnLoad", "addScriptToEvaluateOnNewDocument", "bringToFront",
    "captureScreenshot", "captureSnapshot", "clearDeviceMetricsOverride",
    "clearDeviceOrientationOverride", "clearGeolocationOverride",
    "createIsolatedWorld", "deleteCookie", "disable", "enable", "getAppManifest",
    "getInstallabilityErrors", "getManifestIcons", "getAppId",
    "getAdScriptAncestry", "getFrameTree", "getLayoutMetrics",
    "getNavigationHistory", "resetNavigationHistory", "getResourceContent",
    "getResourceTree", "handleJavaScriptDialog", "navigate",
    "navigateToHistoryEntry", "printToPDF", "reload",
    "removeScriptToEvaluateOnLoad", "removeScriptToEvaluateOnNewDocument",
    "screencastFrameAck", "searchInResource", "setAdBlockingEnabled",
    "setBypassCSP", "getPermissionsPolicyState", "getOriginTrials",
    "setDeviceMetricsOverride", "setDeviceOrientationOverride", "setFontFamilies",
    "setFontSizes", "setDocumentContent", "setDownloadBehavior",
    "setGeolocationOverride", "setLifecycleEventsEnabled",
    "setTouchEmulationEnabled", "startScreencast", "startScreenRecording",
    "stopScreenRecording", "stopLoading", "crash", "close", "setWebLifecycleState",
    "stopScreencast", "produceCompilationCache", "addCompilationCache",
    "clearCompilationCache", "setSPCTransactionMode", "setRPHRegistrationMode",
    "generateTestReport", "waitForDebugger", "setInterceptFileChooserDialog",
    "setPrerenderingAllowed", "getAnnotatedPageContent"}

PerformanceMethods == {"disable", "enable", "setTimeDomain", "getMetrics"}

PerformanceTimelineMethods == {"enable"}

PreloadMethods == {"enable", "disable"}

ProfilerMethods == {
    "disable", "enable", "getBestEffortCoverage", "setSamplingInterval", "start",
    "startPreciseCoverage", "stop", "stopPreciseCoverage", "takePreciseCoverage"}

PwaMethods == {
    "getOsAppState", "install", "uninstall", "launch", "launchFilesInApp",
    "openCurrentPageInApp", "changeAppUserSettings"}

RuntimeMethods == {
    "awaitPromise", "callFunctionOn", "compileScript", "disable",
    "discardConsoleEntries", "enable", "evaluate", "getIsolateId", "getHeapUsage",
    "getProperties", "globalLexicalScopeNames", "queryObjects", "releaseObject",
    "releaseObjectGroup", "runIfWaitingForDebugger", "runScript",
    "setAsyncCallStackDepth", "setCustomObjectFormatterEnabled",
    "setMaxCallStackSizeToCapture", "terminateExecution", "addBinding",
    "removeBinding", "getExceptionDetails"}

SchemaMethods == {"getDomains"}

SecurityMethods == {
    "disable", "enable", "setIgnoreCertificateErrors", "handleCertificateError",
    "setOverrideCertificateErrors"}

ServiceWorkerMethods == {
    "deliverPushMessage", "disable", "dispatchSyncEvent",
    "dispatchPeriodicSyncEvent", "enable", "setForceUpdateOnPageLoad",
    "skipWaiting", "startWorker", "stopAllWorkers", "stopWorker", "unregister",
    "updateRegistration"}

SmartCardEmulationMethods == {
    "enable", "disable", "reportEstablishContextResult",
    "reportReleaseContextResult", "reportListReadersResult",
    "reportGetStatusChangeResult", "reportBeginTransactionResult",
    "reportPlainResult", "reportConnectResult", "reportDataResult",
    "reportStatusResult", "reportError"}

StorageMethods == {
    "getStorageKeyForFrame", "getStorageKey", "clearDataForOrigin",
    "clearDataForStorageKey", "getCookies", "setCookies", "clearCookies",
    "getUsageAndQuota", "overrideQuotaForOrigin", "trackCacheStorageForOrigin",
    "trackCacheStorageForStorageKey", "trackIndexedDBForOrigin",
    "trackIndexedDBForStorageKey", "untrackCacheStorageForOrigin",
    "untrackCacheStorageForStorageKey", "untrackIndexedDBForOrigin",
    "untrackIndexedDBForStorageKey", "getTrustTokens", "clearTrustTokens",
    "getSharedStorageMetadata", "getSharedStorageEntries", "setSharedStorageEntry",
    "deleteSharedStorageEntry", "clearSharedStorageEntries",
    "resetSharedStorageBudget", "setSharedStorageTracking",
    "setStorageBucketTracking", "deleteStorageBucket",
    "runBounceTrackingMitigations", "getRelatedWebsiteSets"}

SystemInfoMethods == {"getInfo", "getFeatureState", "getProcessInfo"}

TargetMethods == {
    "activateTarget", "attachToTarget", "attachToBrowserTarget", "closeTarget",
    "exposeDevToolsProtocol", "createBrowserContext", "getBrowserContexts",
    "createTarget", "detachFromTarget", "disposeBrowserContext", "getTargetInfo",
    "getTargets", "sendMessageToTarget", "setAutoAttach", "autoAttachRelated",
    "setDiscoverTargets", "setRemoteLocations", "getDevToolsTarget", "openDevTools"}

TetheringMethods == {"bind", "unbind"}

TracingMethods == {
    "end", "getCategories", "getTrackEventDescriptor", "recordClockSyncMarker",
    "requestMemoryDump", "start"}

WebAudioMethods == {"enable", "disable", "getRealtimeData"}

WebAuthnMethods == {
    "enable", "disable", "addVirtualAuthenticator", "setResponseOverrideBits",
    "removeVirtualAuthenticator", "addCredential", "getCredential",
    "getCredentials", "removeCredential", "clearCredentials", "setUserVerified",
    "setAutomaticPresenceSimulation", "setCredentialProperties"}

WebMcpMethods == {"enable", "disable", "invokeTool", "cancelInvocation"}
=============================================================================
